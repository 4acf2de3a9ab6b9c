------------------------------ MODULE SexpWire ------------------------------
(***************************************************************************)
(* Binary I/O of a session (pg_sexp.c): sexp_in stores the bytes           *)
(* sexp_parse writes; sexp_send gives the client the bytes of a value      *)
(* (pq_sendbytes of VARDATA, VARSIZE - VARHDRSZ bytes); sexp_recv stores   *)
(* whatever bytes the client sends (palloc, SET_VARSIZE, memcpy, with no   *)
(* check); sexp_out and sexp_typeof read what a register holds.            *)
(*                                                                         *)
(* The client is the environment.  It sends back the last bytes it was     *)
(* sent, or those bytes under a newer format version byte (a value from a  *)
(* later release), and, when Truncation holds, any proper prefix of them   *)
(* (a COPY BINARY file or a bind parameter cut short).                     *)
(***************************************************************************)
EXTENDS SexpNavigate

CONSTANTS
    Regs,         \* the SQL variables (registers) of the session
    Inputs,       \* the Datums given to sexp_in
    Truncation,   \* whether the client may send a prefix of what it got
    NthArgs       \* the integers given to sexp_nth

\* The origin of bytes no sexp_parse wrote.
NoValue == [syms |-> <<>>, root |-> Elem("NONE", 0, "", <<>>, FALSE, "")]

\* A register: NULL, or the bytes of its varlena after the header.
Null        == [null |-> TRUE, b |-> <<>>]
Held(bs)    == [null |-> FALSE, b |-> bs]
NoMessage   == [b |-> <<>>, o |-> NoValue, sent |-> FALSE]

VARIABLES
    stored,   \* stored[r]: the register's varlena
    origin,   \* history: the value whose bytes sexp_parse wrote, or NoValue
    wire,     \* the bytea the client last received, with its origin
    out       \* the last sexp_out or sexp_typeof: the bytes read and the result

wireVars == <<stored, origin, wire, out>>

NoOut == [op |-> "none", in |-> <<>>] @@ ReadError

WireInit ==
    /\ stored = [r \in Regs |-> Null]
    /\ origin = [r \in Regs |-> NoValue]
    /\ wire = NoMessage
    /\ out = NoOut

\* sexp_in on a literal the parser accepts: the bytes of sexp_parse.
SexpIn(d, dst) ==
    /\ stored' = [stored EXCEPT ![dst] = Held(Bytes(Parse(d)))]
    /\ origin' = [origin EXCEPT ![dst] = Parse(d)]
    /\ UNCHANGED <<wire, out>>

\* sexp_send: a bytea of the VARSIZE - VARHDRSZ bytes at VARDATA.
SexpSend(src) ==
    /\ ~stored[src].null
    /\ wire' = [b |-> stored[src].b, o |-> origin[src], sent |-> TRUE]
    /\ UNCHANGED <<stored, origin, out>>

\* What the client may send back: what it got; the same under version
\* byte 7; and, under Truncation, every proper prefix of what it got.
ClientMessages ==
    {[b |-> wire.b, o |-> wire.o]}
    \cup (IF wire.b = <<>> THEN {} ELSE {[b |-> <<Version + 1>> \o Tail(wire.b), o |-> NoValue]})
    \cup (IF Truncation THEN {[b |-> SubSeq(wire.b, 1, k), o |-> NoValue] : k \in 0..Len(wire.b) - 1}
          ELSE {})

\* sexp_recv: nbytes = buf->len - buf->cursor bytes copied as they are.
SexpRecv(dst) ==
    /\ wire.sent
    /\ \E m \in ClientMessages :
          /\ stored' = [stored EXCEPT ![dst] = Held(m.b)]
          /\ origin' = [origin EXCEPT ![dst] = m.o]
    /\ UNCHANGED <<wire, out>>

\* sexp_out (sexp_to_cstring) on a register that is not NULL.
SexpOutCall(src) ==
    /\ ~stored[src].null
    /\ \E r \in Outcomes(ToCstring(stored[src].b)) :
          out' = [op |-> "out", in |-> stored[src].b] @@ r
    /\ UNCHANGED <<stored, origin, wire>>

\* The SQL functions that peek at the root's type through
\* SEXP_TYPE_PACKED: sexp_typeof names it, the predicates test it.
TypeFunctions == {"typeof", "is_nil", "is_list", "is_atom", "is_symbol", "is_string", "is_number"}

BoolText(b) == IF b THEN "true" ELSE "false"

\* The answer of the function fn for the type t: sexp_typeof's switch, and
\* the comparisons of the predicates (a NIL is a list).
TypeAnswer(fn, t) ==
    CASE fn = "typeof"    -> t
      [] fn = "is_nil"    -> BoolText(t = "nil")
      [] fn = "is_list"   -> BoolText(t \in {"list", "nil"})
      [] fn = "is_atom"   -> BoolText(t \in {"symbol", "string", "integer", "float"})
      [] fn = "is_symbol" -> BoolText(t = "symbol")
      [] fn = "is_string" -> BoolText(t = "string")
      [] OTHER            -> BoolText(t \in {"integer", "float"})

\* sexp_typeof or a type predicate on a register that is not NULL.
SexpTypeCall(src, fn) ==
    /\ ~stored[src].null
    /\ \E r \in Outcomes(Typeof(stored[src].b)) :
          out' = [op |-> fn, in |-> stored[src].b] @@ [r EXCEPT !.txt = TypeAnswer(fn, @)]
    /\ UNCHANGED <<stored, origin, wire>>

\* What a car or nth can leave: its result; after a read past the end of
\* the data also an error (the bytes beyond are modelled by the part
\* inside the data).
NavOutcomes(r) == IF r.past THEN {r, NavError} ELSE {r}

\* The origin of a car or nth result: the element the tree-level operation
\* (SexpOps) gives, when the source's origin is known and nothing was read
\* past the end.
NavOrigin(src, r, t) ==
    IF origin[src] # NoValue /\ ~r.past /\ t.st = "ok" THEN t.v ELSE NoValue

\* The statement storing a car or nth result in dst: an error aborts it,
\* NULL stores NULL, a value stores its varlena.
NavStore(dst, r, v) ==
    CASE r.st = "error"  -> UNCHANGED <<stored, origin>>
      [] r.st = "absent" -> /\ stored' = [stored EXCEPT ![dst] = Null]
                            /\ origin' = [origin EXCEPT ![dst] = NoValue]
      [] OTHER           -> /\ stored' = [stored EXCEPT ![dst] = Held(r.b)]
                            /\ origin' = [origin EXCEPT ![dst] = v]

\* sexp_car_func (car and head) on a register that is not NULL.
SexpCarCall(src, dst) ==
    /\ ~stored[src].null
    /\ \E r \in NavOutcomes(SexpCarBytes(stored[src].b)) :
          NavStore(dst, r, NavOrigin(src, r, Car(origin[src])))
    /\ UNCHANGED <<wire, out>>

\* sexp_nth_func on a register that is not NULL.
SexpNthCall(src, dst, n) ==
    /\ ~stored[src].null
    /\ \E r \in NavOutcomes(SexpNthBytes(stored[src].b, n)) :
          NavStore(dst, r, NavOrigin(src, r, Nth(origin[src], n)))
    /\ UNCHANGED <<wire, out>>

\* sexp_length_func on a register that is not NULL.
SexpLengthCall(src) ==
    /\ ~stored[src].null
    /\ \E r \in Outcomes(SexpLengthBytes(stored[src].b)) :
          out' = [op |-> "length", in |-> stored[src].b] @@ r
    /\ UNCHANGED <<stored, origin, wire>>

WireNext ==
    \E r \in Regs :
        \/ \E d \in Inputs : SexpIn(d, r)
        \/ SexpSend(r)
        \/ SexpRecv(r)
        \/ SexpOutCall(r)
        \/ \E fn \in TypeFunctions : SexpTypeCall(r, fn)
        \/ SexpLengthCall(r)
        \/ \E dst \in Regs :
              \/ SexpCarCall(r, dst)
              \/ \E n \in NthArgs : SexpNthCall(r, dst, n)

WireSpec == WireInit /\ [][WireNext]_wireVars

-----------------------------------------------------------------------------
(* Properties.                                                             *)

\* The values sexp_car and sexp_nth return on the bytes bs: those that
\* extract_element_fast writes (the parent's symbol table, then the
\* element), and an atom's own bytes for nth 0.
Extracted(bs) ==
    {e.b : e \in {x \in {SexpCarBytes(bs)} \cup {SexpNthBytes(bs, n) : n \in NthArgs} :
                   x.st = "ok"}}

\* The byte strings reachable from S by at most k car or nth calls.
RECURSIVE ExtractClosure(_, _)
ExtractClosure(S, k) ==
    IF k = 0 THEN S ELSE ExtractClosure(S \cup UNION {Extracted(bs) : bs \in S}, k - 1)

\* The bytes a register can hold with an honest client: those sexp_parse
\* writes for the literals given to sexp_in, and the car and nth results
\* taken from them (each extraction goes one level down, so MaxDepth + 1
\* rounds reach every element).
Encodings == ExtractClosure({Bytes(Parse(d)) : d \in Inputs}, MaxDepth + 1)

\* The name sexp_typeof gives a value's root element.
RootTypeName(x) ==
    CASE x.root.tag = "NIL"     -> "nil"
      [] x.root.tag \in IntTags -> "integer"
      [] x.root.tag = "FLOAT"   -> "float"
      [] x.root.tag = "SYMREF"  -> "symbol"
      [] x.root.tag \in StrTags -> "string"
      [] OTHER                  -> "list"

\* Type invariant: registers and the client's bytea hold bytes; a NULL
\* register has no origin; a read returned text or an error.
WireTypeOK ==
    /\ \A r \in Regs : stored[r].null \in BOOLEAN /\ stored[r].b \in Seq(0..255)
    /\ wire.b \in Seq(0..255)
    /\ \A r \in Regs : stored[r].null => origin[r] = NoValue
    /\ out.op \in {"none", "out", "length"} \cup TypeFunctions /\ out.st \in {"ok", "error"}

\* Section 8.2, recv(send(v)) = v bitwise, and the read path agreeing with
\* the writer: a register holding a value sexp_parse wrote, directly or
\* through sexp_send and sexp_recv, holds exactly its bytes; sexp_out
\* reads them to the last byte without reaching the end early and prints
\* what output_element prints for the value, and sexp_typeof names its
\* root's type.
BinaryRoundTrip ==
    \A r \in Regs : origin[r] # NoValue =>
        LET bs == stored[r].b
        IN  /\ bs = Bytes(origin[r])
            /\ ToCstring(bs) = Res("ok", SexpOut(origin[r]), Len(bs) + 1, FALSE, FALSE)
            /\ Typeof(bs).txt = RootTypeName(origin[r])

\* The most bytes one decode_varint reads at the model's width.
MaxVarintBytes == (IntBits + 6) \div 7

\* Section 3.3: decode_varint returns a defined value on truncated input:
\* started at any position of the bytes a register holds, with the data
\* cut anywhere within the bytes it could read, it reads at least one byte
\* when there is one and never moves past the cut.
TruncatedVarintInBounds ==
    \A r \in Regs : \A p \in 1..Len(stored[r].b) + 1 :
        \A k \in p - 1..LesserOf(p - 1 + MaxVarintBytes, Len(stored[r].b)) :
            LET d == DecodeVarint(SubSeq(stored[r].b, 1, k), p)
            IN  /\ d.next \in (IF p > k THEN {p} ELSE p + 1..k + 1)
                /\ d.val \in 0..UMod - 1

\* The element positions nth and car probe: below, inside and past every
\* list of the literals.
NavProbe == -1..7

\* Section 4.2 on the stored bytes: for every value a register holds
\* (parsed, received, or itself a car or nth result), sexp_car, sexp_nth
\* at every position and sexp_length, navigating by skip_element, the
\* size varint, the SEntry table and extract_element_fast, give what car,
\* nth and length give on the value's tree, a result's bytes being those
\* sexp_parse writes for the element under the parent's symbol table, and
\* nothing read past the end.  The length of an atom is 1, as the code
\* (pg_sexp.c:1325) and section 4.3 say; the usage manual in sexp_io.c
\* (line 510) says it is an error.
NavigationAgreesWithTree ==
    \A r \in Regs : origin[r] # NoValue =>
        LET x  == origin[r]
            bs == stored[r].b
            Agrees(b, t) == b.st = t.st /\ ~b.past /\ (t.st = "ok" => b.b = Bytes(t.v))
        IN  /\ Agrees(SexpCarBytes(bs), Car(x))
            /\ \A n \in NavProbe : Agrees(SexpNthBytes(bs, n), Nth(x, n))
            /\ SexpLengthBytes(bs).txt = ToString(Length(x))

\* Sections 3 and 7: bytes that are not a value's encoding are data
\* corruption and fail loudly on read: sexp_out returns text only for
\* bytes sexp_parse or extract_element_fast wrote.
CorruptionFailsLoudly ==
    out.op = "out" /\ out.st = "ok" => out.in \in Encodings

=============================================================================
