-------------------------- MODULE SexpTextSession --------------------------
(***************************************************************************)
(* The SQL session of SexpSession with text I/O: sexp_in on a C string,    *)
(* character by character, and the cast of a value to text and back       *)
(* (x::text::sexp, which is also what a dump and restore through COPY     *)
(* does): sexp_out, then sexp_in on what it printed.                       *)
(***************************************************************************)
EXTENDS SexpSession, SexpText

CONSTANT TextInputs      \* the C strings given to sexp_in

VARIABLE source          \* history: the text register r was last read from, or ""

textVars == <<reg, lastError, source>>

TextInit == Init /\ source = [r \in Regs |-> ""]

\* The history after a step that wrote no text: a register the step
\* overwrote no longer holds a literal.
Overwritten == source' = [r \in Regs |-> IF reg'[r] = reg[r] THEN source[r] ELSE ""]

\* sexp_in on a text, given what the scanner read from it (r): the
\* scanner's errors, then the depth limit of parse_list, then the value.
\* (An input both too deep and malformed raises one of the two errors;
\* which one is not told apart here.)
SexpInTextRead(r, dst) ==
    CASE r.st = "error"  -> /\ lastError' = "invalid_text_representation"
                            /\ UNCHANGED reg
      [] ParseFails(r.d) -> /\ lastError' = "program_limit_exceeded"
                            /\ UNCHANGED reg
      [] OTHER           -> /\ reg' = [reg EXCEPT ![dst] = Ok(Parse(r.d))]
                            /\ UNCHANGED lastError

\* What the scanner reads from each input text (a constant, read once).
InputRead == [t \in TextInputs |-> ReadText(t)]

\* sexp_in on the input text t.
SexpInText(t, dst) == SexpInTextRead(InputRead[t], dst)

\* sexp_in on the input text t returns a value.
ReadsValue(t) == InputRead[t].st = "ok" /\ ~ParseFails(InputRead[t].d)

\* src::text::sexp: sexp_out, then sexp_in on its result.
TextCast(src, dst) == Defined(src) /\ SexpInTextRead(ReadText(SexpOut(reg[src].v)), dst)

TextNext ==
    \/ Next /\ Overwritten
    \/ \E t \in TextInputs, dst \in Regs :
          SexpInText(t, dst) /\ source' = [source EXCEPT ![dst] = IF ReadsValue(t) THEN t ELSE @]
    \/ \E src, dst \in Regs : TextCast(src, dst) /\ Overwritten

TextSpec == TextInit /\ [][TextNext]_textVars

-----------------------------------------------------------------------------
(* Properties.                                                             *)

\* The atoms of kind k in a Datum.
RECURSIVE AtomsOf(_, _)
AtomsOf(d, k) ==
    IF d.k = "list" THEN UNION {AtomsOf(d.kids[i], k) : i \in DOMAIN d.kids}
    ELSE IF d.k = k THEN {d} ELSE {}

\* %.17g prints the float with a decimal point and no exponent.
PrintsWithPoint(f) ==
    LET t == FormatG17(f)
    IN  (\E i \in 1..Len(t) : Ch(t, i) = ".") /\ ~\E i \in 1..Len(t) : Ch(t, i) = "e"

\* Section 8.1: for every value the session holds, sexp_in reads back what
\* sexp_out printed, and the value read equals the value printed (4.4).
TextRoundTrip ==
    \A x \in Values :
        LET r == ReadText(SexpOut(x))
        IN  r.st = "ok" /\ ~ParseFails(r.d) /\ SemEqual(Decode(Parse(r.d)), Decode(x))

\* Section 8.1 on the values whose floats all print with a decimal point
\* and no exponent: the printer's escapes, integer formats (small-int bias,
\* zigzag varint), symbol texts of extracted elements and list layouts
\* are all read back by the scanner as the value printed.
TextRoundTripPointFloats ==
    \A x \in Values :
        (\A f \in AtomsOf(Decode(x), "flt") : PrintsWithPoint(f.s)) =>
            LET r == ReadText(SexpOut(x))
            IN  r.st = "ok" /\ ~ParseFails(r.d) /\ SemEqual(Decode(Parse(r.d)), Decode(x))

\* Section 3.3: the zigzag varint the parser writes for an integer reads
\* back, in output_element and the comparisons, as that integer, in exactly
\* varint_size bytes: for every integer a value holds and over the whole
\* int64 range (at the model's width); an unsigned varint (symbol index,
\* length) reads back as itself.
CodecRoundTrip ==
    /\ \A x \in Values : \A a \in AtomsOf(Decode(x), "int") : ReadSignedVarint(a.n) = a.n
    /\ \A v \in IntMin..IntMax :
          LET bs == SignedVarint(v)
          IN  /\ DecodeVarint(bs, 1) = [val |-> ZigzagEncode(v), next |-> Len(bs) + 1]
              /\ Len(bs) = VarintSize(ZigzagEncode(v))
              /\ ZigzagDecode(ZigzagEncode(v)) = v
    /\ \A u \in 0..UMod - 1 : DecodeVarint(EncodeVarint(u), 1).val = u

\* A token of the grammar's integer form: a sign and digits.
SpecIntegerLiteral(t) == SpecNumber(t) /\ DigitsEnd(t, AfterSign(t, 1)) = Len(t) + 1

\* Sections 2 and 4.9: a text sexp_in accepts that is a number of the
\* grammar ([+-]? digits ('.' digits)? ([eE][+-]? digits)?) is read as a
\* number, and one of the integer form as the 64-bit integer it spells.
NumericLiteralsAsGrammar ==
    \A r \in Regs :
        Defined(r) /\ source[r] # "" /\ SpecNumber(source[r]) =>
            LET root == reg[r].v.root
            IN  /\ root.tag \in IntTags \cup {"FLOAT"}
                /\ SpecIntegerLiteral(source[r]) => root.n = SpecIntegerValue(source[r])

=============================================================================
