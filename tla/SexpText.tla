------------------------------ MODULE SexpText ------------------------------
(***************************************************************************)
(* Text input and output, character by character: the scanner of          *)
(* sexp_parser.c, which turns a C string into the tokens SexpValue parses, *)
(* and the printer output_element of sexp_io.c.                            *)
(*                                                                         *)
(* A text is a TLA+ string.  ReadText follows sexp_parse: whitespace and   *)
(* ';' comments, lists, strings with their escapes, and atoms classified   *)
(* by the scan loop of parse_number_or_symbol, with strtoll saturating at  *)
(* the width of SexpCodec.                                                 *)
(*                                                                         *)
(* A float is named by its exact decimal value in the form "[-]I.F" (no    *)
(* superfluous zeros), which is what strtod returns for the literals used  *)
(* here: each is a double exactly, with at most 17 significant digits, so  *)
(* %.17g prints exactly those digits.                                      *)
(***************************************************************************)
EXTENDS SexpValue, SexpCodec

Ch(t, i) == SubSeq(t, i, i)

Space     == {" ", "\t", "\n", "\r"}                \* isspace on the texts used
DigitSeq  == <<"0", "1", "2", "3", "4", "5", "6", "7", "8", "9">>
DigitSet  == {DigitSeq[i] : i \in 1..10}
DigitVal(c) == CHOOSE v \in 0..9 : DigitSeq[v + 1] = c

\* The characters that end an atom in parse_number_or_symbol.
EndsAtom(c) == c \in Space \cup {"(", ")", "\"", ";"}

RECURSIVE LeadingZeros(_), StripTrailingZeros(_), Zeros(_)
LeadingZeros(s) == IF s # "" /\ Head(s) = "0" THEN 1 + LeadingZeros(SubSeq(s, 2, Len(s))) ELSE 0
StripTrailingZeros(s) ==
    IF s # "" /\ Ch(s, Len(s)) = "0" THEN StripTrailingZeros(SubSeq(s, 1, Len(s) - 1)) ELSE s
Zeros(n) == IF n <= 0 THEN "" ELSE "0" \o Zeros(n - 1)

-----------------------------------------------------------------------------
(* Reading.  A read result is [st, d, i]: "ok" with the Datum read and the *)
(* position after it, or "error" (ereport ERRCODE_INVALID_TEXT_...).       *)

ReadOk(d, i) == [st |-> "ok", d |-> d, i |-> i]
ReadErr      == [st |-> "error", d |-> DNil, i |-> 0]

\* skip_whitespace: spaces, and ';' up to (not past) the end of the line.
RECURSIVE SkipWhitespace(_, _), LineEnd(_, _)
LineEnd(t, i) == IF i > Len(t) \/ Ch(t, i) = "\n" THEN i ELSE LineEnd(t, i + 1)
SkipWhitespace(t, i) ==
    CASE i > Len(t)        -> i
      [] Ch(t, i) \in Space -> SkipWhitespace(t, i + 1)
      [] Ch(t, i) = ";"     -> SkipWhitespace(t, LineEnd(t, i))
      [] OTHER              -> i

\* The scan loop of parse_number_or_symbol: a sign only as the first
\* character, at most one dot, nothing but digits otherwise.
RECURSIVE ScanFlags(_, _, _)
ScanFlags(tok, i, f) ==
    IF i > Len(tok) THEN f
    ELSE LET c == Ch(tok, i)
         IN  ScanFlags(tok, i + 1,
               CASE c \in {"-", "+"} -> [f EXCEPT !.number = f.number /\ i = 1]
                 [] c = "."          -> [f EXCEPT !.number = f.number /\ ~f.dot, !.dot = TRUE]
                 [] c \in DigitSet   -> [f EXCEPT !.digit = TRUE]
                 [] OTHER            -> [f EXCEPT !.number = FALSE])

\* strtoll(numstr, &endptr, 10) on a sign and digits: the value, saturated
\* at INT64_MIN or INT64_MAX.  The magnitude is accumulated with a cap one
\* past INT64_MAX, which is all saturation can tell apart.
RECURSIVE Magnitude(_, _, _)
Magnitude(ds, i, acc) ==
    IF i > Len(ds) THEN acc
    ELSE LET a == acc * 10 + DigitVal(Ch(ds, i))
         IN  Magnitude(ds, i + 1, IF a > IntMax + 1 THEN IntMax + 1 ELSE a)
Strtoll(tok) ==
    LET signed == Head(tok) \in {"-", "+"}
        m      == Magnitude(tok, IF signed THEN 2 ELSE 1, 0)
    IN  IF Head(tok) = "-" THEN -m
        ELSE IF m > IntMax THEN IntMax ELSE m

\* strtod on a sign, digits and one dot: the float named by its exact value.
Strtod(tok) ==
    LET neg  == Head(tok) = "-"
        body == IF Head(tok) \in {"-", "+"} THEN SubSeq(tok, 2, Len(tok)) ELSE tok
        dot  == CHOOSE k \in 1..Len(body) : Ch(body, k) = "."
        ip   == SubSeq(body, 1, dot - 1)
        fp   == StripTrailingZeros(SubSeq(body, dot + 1, Len(body)))
        ipz  == SubSeq(ip, LeadingZeros(ip) + 1, Len(ip))
    IN  (IF neg THEN "-" ELSE "") \o (IF ipz = "" THEN "0" ELSE ipz) \o "."
        \o (IF fp = "" THEN "0" ELSE fp)

\* parse_number_or_symbol on the token tok: "nil", a float when the scan
\* saw a number with a dot, an integer when it saw one without, otherwise a
\* symbol.  (strtod and strtoll consume every such token whole, so the
\* fallback to a symbol on a partial conversion is never taken.)
TokenDatum(tok) ==
    LET f == ScanFlags(tok, 1, [number |-> TRUE, dot |-> FALSE, digit |-> FALSE])
    IN  CASE tok = "nil"                         -> DNil
          [] f.number /\ f.digit /\ f.dot        -> DFlt(Strtod(tok))
          [] f.number /\ f.digit                 -> DInt(Strtoll(tok))
          [] OTHER                               -> DSym(tok)

\* The atom starting at i: the run of characters up to one that ends it;
\* an empty run is the "empty atom" error.
RECURSIVE AtomEnd(_, _)
AtomEnd(t, i) == IF i > Len(t) \/ EndsAtom(Ch(t, i)) THEN i ELSE AtomEnd(t, i + 1)
ReadAtom(t, i) ==
    LET k == AtomEnd(t, i)
    IN  IF k = i THEN ReadErr ELSE ReadOk(TokenDatum(SubSeq(t, i, k - 1)), k)

\* The escapes of parse_string: \n, \t, \r, and any other character
\* (\\ and \" included) standing for itself.
Unescape(c) ==
    CASE c = "n" -> "\n"
      [] c = "t" -> "\t"
      [] c = "r" -> "\r"
      [] OTHER   -> c

\* parse_string after the opening quote: up to the closing quote; a missing
\* one, or a backslash at the end, is an error.
RECURSIVE ReadString(_, _, _)
ReadString(t, i, acc) ==
    CASE i > Len(t)                          -> ReadErr
      [] Ch(t, i) = "\""                     -> ReadOk(DStr(acc), i + 1)
      [] Ch(t, i) = "\\" /\ i + 1 > Len(t)   -> ReadErr
      [] Ch(t, i) = "\\"                     -> ReadString(t, i + 2, acc \o Unescape(Ch(t, i + 1)))
      [] OTHER                               -> ReadString(t, i + 1, acc \o Ch(t, i))

RECURSIVE ReadValue(_, _), ReadKids(_, _, _)

\* sexp_parse_value_with_hash: skip whitespace, then a list, a string or
\* an atom by the first character; nothing left is an error.
ReadValue(t, i) ==
    LET j == SkipWhitespace(t, i)
    IN  CASE j > Len(t)       -> ReadErr
          [] Ch(t, j) = "("   -> ReadKids(t, SkipWhitespace(t, j + 1), <<>>)
          [] Ch(t, j) = "\""  -> ReadString(t, j + 1, "")
          [] OTHER            -> ReadAtom(t, j)

\* The element loop of parse_list: elements up to the closing paren, which
\* must come before the end ("unterminated list").  "()" is the list of no
\* elements, which parse_list writes as NIL.
ReadKids(t, i, ds) ==
    CASE i > Len(t)     -> ReadErr
      [] Ch(t, i) = ")" -> ReadOk(DList(ds), i + 1)
      [] OTHER          -> LET r == ReadValue(t, i)
                           IN  IF r.st = "error" THEN r
                               ELSE ReadKids(t, SkipWhitespace(t, r.i), Append(ds, r.d))

\* sexp_parse: an empty (or blank) text is NIL; otherwise one value and
\* nothing but whitespace after it.
ReadText(t) ==
    LET j == SkipWhitespace(t, 1)
        r == ReadValue(t, j)
    IN  CASE j > Len(t)                        -> ReadOk(DNil, j)
          [] r.st = "error"                    -> r
          [] SkipWhitespace(t, r.i) <= Len(t)  -> ReadErr
          [] OTHER                             -> r

-----------------------------------------------------------------------------
(* Printing: output_element on a value, and sexp_out.                      *)

\* appendStringInfo(buf, "%.17g", val) on a float named by its exact value
\* with at most 17 significant digits: the digits without leading and
\* trailing zeros and the decimal exponent X of the first one; the %e form
\* when X < -4 or X >= 17, the %f form otherwise, trailing zeros and a
\* trailing point removed, and "0" (or "-0") for a zero.
FormatG17(f) ==
    LET neg  == Head(f) = "-"
        body == IF neg THEN SubSeq(f, 2, Len(f)) ELSE f
        dot  == CHOOSE k \in 1..Len(body) : Ch(body, k) = "."
        all  == SubSeq(body, 1, dot - 1) \o SubSeq(body, dot + 1, Len(body))
        z    == LeadingZeros(all)
        ds   == StripTrailingZeros(SubSeq(all, z + 1, Len(all)))
        x    == (dot - 1) - z - 1
        sign == IF neg THEN "-" ELSE ""
        absx == IF x < 0 THEN -x ELSE x
        frac(s) == IF s = "" THEN "" ELSE "." \o s
    IN  sign \o
        CASE ds = "" -> "0"
          [] x < -4 \/ x >= 17 ->
                Head(ds) \o frac(SubSeq(ds, 2, Len(ds))) \o "e" \o (IF x < 0 THEN "-" ELSE "+")
                \o (IF absx < 10 THEN "0" ELSE "") \o ToString(absx)
          [] x >= 0 ->
                LET ip == ds \o Zeros(x + 1 - Len(ds))
                IN  SubSeq(ip, 1, x + 1) \o frac(SubSeq(ds, x + 2, Len(ds)))
          [] OTHER -> "0." \o Zeros(-x - 1) \o ds

RECURSIVE EscapeString(_), EscapeStringNoQuote(_)

\* Mutation: the printer's escape switch without the '"' case.
EscapeStringNoQuote(s) ==
    IF s = "" THEN ""
    ELSE LET c == Head(s)
         IN  (CASE c = "\n" -> "\\n"
               [] c = "\t" -> "\\t"
               [] c = "\r" -> "\\r"
               [] c = "\\" -> "\\\\"
               [] OTHER    -> c)
             \o EscapeStringNoQuote(SubSeq(s, 2, Len(s)))

\* The character loop of the SHORT_STRING and LONG_STRING cases: \n, \t,
\* \r, backslash and quote escaped, every other character as it is.
EscapeString(s) ==
    IF s = "" THEN ""
    ELSE LET c == Head(s)
         IN  (CASE c = "\n" -> "\\n"
               [] c = "\t" -> "\\t"
               [] c = "\r" -> "\\r"
               [] c = "\\" -> "\\\\"
               [] c = "\"" -> "\\\""
               [] OTHER    -> c)
             \o EscapeString(SubSeq(s, 2, Len(s)))

SmallIntBias == 16   \* SEXP_SMALLINT_BIAS

\* The data bits the parser writes for a small integer: (uint8)(val + 16)
\* under SEXP_DATA_MASK.
SmallIntData(n) == (n + SmallIntBias) % 32

\* output_element: "()" for NIL; %d of the small-int bits less the bias;
\* %lld of the zigzag varint; %.17g; the symbol's text, or a marker for an
\* index past the table; a string quoted with its escapes; a list's
\* elements in parentheses, one space between them.
RECURSIVE OutputElement(_, _)
OutputElement(e, syms) ==
    CASE e.tag = "NIL"      -> "()"
      [] e.tag = "SMALLINT" -> ToString(SmallIntData(e.n) - SmallIntBias)
      [] e.tag = "INTEGER"  -> ToString(ReadSignedVarint(e.n))
      [] e.tag = "FLOAT"    -> FormatG17(e.s)
      [] e.tag = "SYMREF"   -> IF e.n < Len(syms) THEN syms[e.n + 1] ELSE "?invalid-symbol?"
      [] e.tag \in StrTags  -> "\"" \o EscapeString(e.s) \o "\""
      [] e.tag = "LIST"     ->
            LET RECURSIVE Join(_)
                Join(i) == IF i = 1 THEN OutputElement(e.kids[1], syms)
                           ELSE Join(i - 1) \o " " \o OutputElement(e.kids[i], syms)
            IN  "(" \o Join(Len(e.kids)) \o ")"

\* sexp_out (sexp_to_cstring): the root element.
SexpOut(x) == OutputElement(x.root, x.syms)

=============================================================================
