----------------------------- MODULE SexpValue -----------------------------
(***************************************************************************)
(* The values of pg_sexp and the text parser that writes them.            *)
(*                                                                         *)
(* A Datum is the parser's input after tokenising: every token already     *)
(* classified as nil, symbol, string, integer or float, and lists as      *)
(* sequences of Datums.  Scanning characters into tokens, escapes and      *)
(* strtod/strtoll are abstracted away.                                     *)
(*                                                                         *)
(* A Sexp is the v6 binary value the parser writes (sexp_parser.c): the    *)
(* symbol table, symbols in order of first occurrence, and the root        *)
(* element.  An element keeps its tag, the value its bytes encode, the     *)
(* small/large layout of a list and the structural hash a large list       *)
(* stores in its header.  Byte offsets, varint widths and the SEntry       *)
(* table are abstracted away.                                              *)
(*                                                                         *)
(* Hash values are injective terms (strings) built from exactly the        *)
(* inputs the code feeds its hash functions: two values hash alike in the *)
(* model iff the code hashes the same inputs, so an inequality the model   *)
(* finds is a real one, and a collision the model shows is a certain one.  *)
(*                                                                         *)
(* Floats are named by the double they denote ("0.0", "-0.0", "1.5");      *)
(* the parser accepts no NaN, so IEEE equality on them is name equality    *)
(* except that "0.0" = "-0.0".                                             *)
(***************************************************************************)
EXTENDS Integers, Sequences, TLC

CONSTANTS
    SmallListMax,     \* SEXP_SMALL_LIST_MAX: a list of at most this many is small
    ShortStringMax,   \* SEXP_SHORT_STRING_MAX: a string this long is still short
    MaxDepth          \* SEXP_MAX_DEPTH: the parser's nesting limit

SmallIntMin == -16    \* SEXP_SMALLINT_MIN
SmallIntMax == 15     \* SEXP_SMALLINT_MAX

-----------------------------------------------------------------------------
(* Datums: parser input.                                                   *)

DatumOf(k, n, s, kids) == [k |-> k, n |-> n, s |-> s, kids |-> kids]
DNil      == DatumOf("nil", 0, "", <<>>)
DSym(x)   == DatumOf("sym", 0, x, <<>>)
DStr(x)   == DatumOf("str", 0, x, <<>>)
DInt(i)   == DatumOf("int", i, "", <<>>)
DFlt(f)   == DatumOf("flt", 0, f, <<>>)
DList(ds) == DatumOf("list", 0, "", ds)

\* The nesting depth the parser sees: "()" is a parse_list call too.
RECURSIVE Nesting(_)
Nesting(d) ==
    IF d.k = "list"
    THEN 1 + LET ns == {Nesting(d.kids[i]) : i \in DOMAIN d.kids}
             IN  IF ns = {} THEN 0 ELSE CHOOSE m \in ns : \A x \in ns : m >= x
    ELSE 0

-----------------------------------------------------------------------------
(* Binary elements.                                                        *)

IntTags == {"SMALLINT", "INTEGER"}
StrTags == {"SHORTSTR", "LONGSTR"}

Elem(tag, n, s, kids, large, h) ==
    [tag |-> tag, n |-> n, s |-> s, kids |-> kids, large |-> large, h |-> h]
NilElem == Elem("NIL", 0, "", <<>>, FALSE, "")

\* The SEntry type of an element's first byte: get_sentry_type_from_tag.
Stype(e) ==
    CASE e.tag \in IntTags -> "INTEGER"
      [] e.tag = "SYMREF"  -> "SYMBOL"
      [] e.tag \in StrTags -> "STRING"
      [] OTHER             -> e.tag

\* IEEE == on the parser's floats (no NaN): only the two zeros differ in bits.
FloatEq(a, b) == a = b \/ {a, b} = {"0.0", "-0.0"}
\* sexp_hash_float64 maps -0.0 to 0.0 before hashing.
FloatNorm(f) == IF f = "-0.0" THEN "0.0" ELSE f

-----------------------------------------------------------------------------
(* Structural hash terms: the inputs of sexp_element_hash and of the       *)
(* hashes the parser returns.                                              *)

HashNil    == "0"
HashInt(i) == "I" \o ToString(i)
HashFlt(f) == "F" \o FloatNorm(f)
HashSym(x) == "S" \o x
HashStr(x) == "T" \o x
\* hash(count), combined with hash(LIST), then each child at its position.
HashList(hs) ==
    LET RECURSIVE Joined(_)
        Joined(i) == IF i = 0 THEN "" ELSE Joined(i - 1) \o hs[i] \o ";"
    IN  "L" \o ToString(Len(hs)) \o "(" \o Joined(Len(hs)) \o ")"

-----------------------------------------------------------------------------
(* The parser.  ParseValue(d, syms) is the result of                       *)
(* sexp_parse_value_with_hash on the text of d with the symbol table syms: *)
(* the element written, the symbol table after it and the hash returned.   *)

\* intern_symbol: the existing 0-based index, or the next one.
Intern(syms, x) ==
    IF \E i \in DOMAIN syms : syms[i] = x
    THEN [idx |-> (CHOOSE i \in DOMAIN syms : syms[i] = x) - 1, syms |-> syms]
    ELSE [idx |-> Len(syms), syms |-> Append(syms, x)]

\* parse_number_or_symbol on a classified token: "nil", a symbol (interned),
\* an integer (small-int when in range) or a float.
ParseNumberOrSymbol(d, syms) ==
    CASE d.k = "nil" \/ (d.k = "sym" /\ d.s = "nil") ->
            [e |-> NilElem, syms |-> syms, h |-> HashNil]
      [] d.k = "sym" ->
            LET ix == Intern(syms, d.s)
            IN  [e |-> Elem("SYMREF", ix.idx, "", <<>>, FALSE, ""), syms |-> ix.syms,
                 h |-> HashSym(d.s)]
      [] d.k = "int" ->
            [e |-> Elem(IF d.n >= SmallIntMin /\ d.n <= SmallIntMax
                        THEN "SMALLINT" ELSE "INTEGER", d.n, "", <<>>, FALSE, ""),
             syms |-> syms, h |-> HashInt(d.n)]
      [] d.k = "flt" ->
            [e |-> Elem("FLOAT", 0, d.s, <<>>, FALSE, ""), syms |-> syms, h |-> HashFlt(d.s)]

\* parse_string: short up to SEXP_SHORT_STRING_MAX bytes, long beyond.
ParseString(d, syms) ==
    [e |-> Elem(IF Len(d.s) <= ShortStringMax THEN "SHORTSTR" ELSE "LONGSTR",
                0, d.s, <<>>, FALSE, ""),
     syms |-> syms, h |-> HashStr(d.s)]

RECURSIVE ParseValue(_, _), ParseList(_, _), ParseKids(_, _, _)

\* sexp_parse_value_with_hash: dispatch on the first character.
ParseValue(d, syms) ==
    CASE d.k = "list" -> ParseList(d, syms)
      [] d.k = "str"  -> ParseString(d, syms)
      [] OTHER        -> ParseNumberOrSymbol(d, syms)

\* parse_list: "()" is NIL; otherwise the children, the structural hash
\* from their hashes, and the small or large layout (the large one stores
\* the hash).
ParseList(d, syms) ==
    IF d.kids = <<>>
    THEN [e |-> NilElem, syms |-> syms, h |-> HashNil]
    ELSE LET r     == ParseKids(d.kids, 1, [es |-> <<>>, hs |-> <<>>, syms |-> syms])
             large == Len(r.es) > SmallListMax
         IN  [e |-> Elem("LIST", 0, "", r.es, large, IF large THEN HashList(r.hs) ELSE ""),
              syms |-> r.syms, h |-> HashList(r.hs)]

\* The element loop of parse_list: children in order, threading the table.
ParseKids(ds, i, acc) ==
    IF i > Len(ds) THEN acc
    ELSE LET p == ParseValue(ds[i], acc.syms)
         IN  ParseKids(ds, i + 1, [es |-> Append(acc.es, p.e),
                                   hs |-> Append(acc.hs, p.h), syms |-> p.syms])

\* SEXP_CHECK_DEPTH in parse_list: an error once depth >= SEXP_MAX_DEPTH.
ParseFails(d) == Nesting(d) > MaxDepth

\* sexp_parse: the version byte, the symbol table, then the root.
Parse(d) ==
    LET p == ParseValue(d, <<>>) IN [syms |-> p.syms, root |-> p.e]

\* build_nil_sexp / sexp_get_nil_singleton: version, no symbols, NIL.
NilSexp == [syms |-> <<>>, root |-> NilElem]

-----------------------------------------------------------------------------
(* Reading a value back as a Datum (what output_element prints).           *)

RECURSIVE DecodeElem(_, _)
DecodeElem(e, syms) ==
    CASE e.tag = "NIL"     -> DNil
      [] e.tag \in IntTags -> DInt(e.n)
      [] e.tag = "FLOAT"   -> DFlt(e.s)
      [] e.tag = "SYMREF"  -> DSym(syms[e.n + 1])
      [] e.tag \in StrTags -> DStr(e.s)
      [] e.tag = "LIST"    -> DList([i \in DOMAIN e.kids |-> DecodeElem(e.kids[i], syms)])

Decode(x) == DecodeElem(x.root, x.syms)

\* The value reparsed from its own content: its canonical symbol table.
Canon(x) == Parse(Decode(x))

=============================================================================
