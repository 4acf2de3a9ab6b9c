------------------------------ MODULE SexpBytes ------------------------------
(***************************************************************************)
(* The v6 binary layout byte by byte: the bytes sexp_parse writes for a    *)
(* value (part_004), and the read path of sexp_io.c over a byte sequence   *)
(* of any length (init_read_state_internal, sexp_read_type and             *)
(* output_element), as sexp_recv may hand it any bytes at all.             *)
(*                                                                         *)
(* A byte is an integer in 0..255 and a value's bytes are a sequence of    *)
(* them; multi-byte integers are little-endian (the x86 build).  Reads     *)
(* that the code guards with "ptr < end" stop at the end of the sequence;  *)
(* reads it does not guard (the version byte, a symbol's bytes, a float's  *)
(* eight bytes, a large list's count) are flagged as reads past the end,   *)
(* whose outcome is undefined.                                             *)
(***************************************************************************)
EXTENDS SexpText, SequencesExt

Version == 6          \* SEXP_FORMAT_VERSION

\* The tag values of the top three bits, SEXP_TAG_*.
TagNil == 0
TagSmallInt == 32
TagInteger == 64
TagFloat == 96
TagSymRef == 128
TagShortStr == 160
TagLongStr == 192
TagList == 224

TagBits(b)  == b - (b % 32)       \* byte & SEXP_TAG_MASK
DataBits(b) == b % 32             \* byte & SEXP_DATA_MASK

\* Character codes: the texts are ASCII; the printable characters 32..126
\* in order, but for the backquote (96), which a TLA+ string cannot hold.
Printable ==
    " !\"#$%&'()*+,-./0123456789:;<=>?@ABCDEFGHIJKLMNOPQRSTUVWXYZ[\\]^_abcdefghijklmnopqrstuvwxyz{|}~"
Ord(c) ==
    CASE c = "\t" -> 9
      [] c = "\n" -> 10
      [] c = "\r" -> 13
      [] OTHER    -> LET i == CHOOSE k \in 1..Len(Printable) : Ch(Printable, k) = c
                     IN  IF i <= 64 THEN 31 + i ELSE 32 + i
Chr(b) ==
    CASE b = 9  -> "\t"
      [] b = 10 -> "\n"
      [] b = 13 -> "\r"
      [] b \in 32..95  -> Ch(Printable, b - 31)
      [] b \in 97..126 -> Ch(Printable, b - 32)
      [] OTHER  -> "<byte>"   \* a byte no text here holds, as one marker

StrBytes(s)  == [i \in 1..Len(s) |-> Ord(Ch(s, i))]
BytesStr(bs) == FoldLeft(LAMBDA acc, b : acc \o Chr(b), "", bs)

\* A uint32 as its four bytes.
U32(n) == [i \in 1..4 |-> (n \div 256^(i - 1)) % 256]

\* SEXP_LOAD_UINT32_UNALIGNED, exact below 2^16; a count of 2^16 or more
\* is more elements than any byte sequence here holds, and is read as 2^16.
LoadU32(bs, p) ==
    IF bs[p + 2] = 0 /\ bs[p + 3] = 0 THEN bs[p] + 256 * bs[p + 1] ELSE 65536

\* The IEEE 754 bits of the doubles the values hold (float8 of memcpy).
FloatBits ==
    [f \in {"0.0", "-0.0", "1.0", "1.5", "-0.25"} |->
        <<0, 0, 0, 0, 0, 0>> \o
        CASE f = "0.0"   -> <<0, 0>>
          [] f = "-0.0"  -> <<0, 128>>
          [] f = "1.0"   -> <<240, 63>>
          [] f = "1.5"   -> <<248, 63>>
          [] f = "-0.25" -> <<208, 191>>]
\* %.17g of the double with the bits bs8; any other double than those
\* named here prints as one marker text.
FloatText(bs8) ==
    IF \E f \in DOMAIN FloatBits : FloatBits[f] = bs8
    THEN FormatG17(CHOOSE f \in DOMAIN FloatBits : FloatBits[f] = bs8)
    ELSE "<double>"

-----------------------------------------------------------------------------
(* Writing: the bytes sexp_parse builds.                                   *)

\* SENTRY_TYPE_* of get_sentry_type_from_tag, by the top three bits.
SentryCode(b) ==
    CASE TagBits(b) = TagNil                       -> 0
      [] TagBits(b) \in {TagSmallInt, TagInteger}  -> 1
      [] TagBits(b) = TagFloat                     -> 2
      [] TagBits(b) = TagSymRef                    -> 3
      [] TagBits(b) \in {TagShortStr, TagLongStr}  -> 4
      [] OTHER                                     -> 5

\* Mutation: the type shifted by 30 bits instead of SENTRY_TYPE_SHIFT (29).
SEntryBytesShift30(code, off) ==
    <<off % 256, (off \div 256) % 256, (off \div 65536) % 256,
      code * 64 + ((off \div 16777216) % 16)>>

\* The four bytes of SENTRY_MAKE(type, offset): the type in the top three
\* bits, the offset in the low 28.
SEntryBytes(code, off) ==
    <<off % 256, (off \div 256) % 256, (off \div 65536) % 256,
      code * 32 + ((off \div 16777216) % 16)>>

\* Mutation: the table loop started at the second child.
SEntriesFromSecond(kids) ==
    FlattenSeq([i \in 1..Len(kids) - 1 |->
        SEntryBytes(SentryCode(kids[i + 1][1]), Len(FlattenSeq(SubSeq(kids, 1, i))))])

\* The SEntry table of a large list: for each child its type and its
\* offset in the element data.
SEntries(kids) ==
    FlattenSeq([i \in DOMAIN kids |->
        SEntryBytes(SentryCode(kids[i][1]), Len(FlattenSeq(SubSeq(kids, 1, i - 1))))])

\* The structural hash of a large list is written as four bytes that no
\* read path modelled here looks at; their value is abstracted.
HashBytes == <<0, 0, 0, 0>>

\* What parse_number_or_symbol (and parse_list for "()") writes: the tag
\* byte, with the biased value of a small integer in its data bits, then
\* the zigzag varint of an integer, the eight bytes of a float, or the
\* varint index of a symbol.
NumberOrSymbolBytes(e) ==
    CASE e.tag = "NIL"      -> <<TagNil>>
      [] e.tag = "SMALLINT" -> <<TagSmallInt + SmallIntData(e.n)>>
      [] e.tag = "INTEGER"  -> <<TagInteger>> \o SignedVarint(e.n)
      [] e.tag = "FLOAT"    -> <<TagFloat>> \o FloatBits[e.s]
      [] OTHER              -> <<TagSymRef>> \o EncodeVarint(e.n)

\* What parse_string writes: the length in the tag byte of a short string,
\* as a varint after the tag of a long one, then the bytes.
StringBytes(e) ==
    IF e.tag = "SHORTSTR"
    THEN <<TagShortStr + Len(e.s)>> \o StrBytes(e.s)
    ELSE <<TagLongStr>> \o EncodeVarint(Len(e.s)) \o StrBytes(e.s)

\* The bytes of one element; those of a list as parse_list writes them: a
\* small list carries its count in the tag byte and the varint size of its
\* payload; a large one its count, hash and SEntry table.
RECURSIVE ElemBytes(_)
ElemBytes(e) ==
    CASE e.tag \in StrTags -> StringBytes(e)
      [] e.tag = "LIST" ->
            LET kids    == [i \in DOMAIN e.kids |-> ElemBytes(e.kids[i])]
                payload == FlattenSeq(kids)
            IN  IF e.large
                THEN <<TagList>> \o U32(Len(kids)) \o HashBytes \o SEntries(kids) \o payload
                ELSE <<TagList + Len(kids)>> \o EncodeVarint(Len(payload)) \o payload
      [] OTHER -> NumberOrSymbolBytes(e)

\* sexp_parse's final buffer: version byte, symbol count, each symbol's
\* length and bytes, then the root element.
Bytes(x) ==
    <<Version>> \o EncodeVarint(Len(x.syms))
    \o FlattenSeq([i \in DOMAIN x.syms |-> EncodeVarint(Len(x.syms[i])) \o StrBytes(x.syms[i])])
    \o ElemBytes(x.root)

-----------------------------------------------------------------------------
(* Reading.  A result keeps the position after the read (the read state's  *)
(* ptr), whether a guarded read stopped at the end of the data ("short")   *)
(* and whether an unguarded read went past it ("past").                    *)

Res(st, txt, next, short, past) ==
    [st |-> st, txt |-> txt, next |-> next, short |-> short, past |-> past]

LesserOf(a, b) == IF a < b THEN a ELSE b

\* decode_varint at p, and whether it ended on a byte with the continuation
\* bit set: at the end of the data, or at the overflow guard.
ReadVarint(bs, p) ==
    LET d == DecodeVarint(bs, p)
    IN  [val |-> d.val, next |-> d.next, short |-> p > Len(bs) \/ bs[d.next - 1] >= 128]

\* The symbol loop of init_read_state_internal: each symbol's varint
\* length, then its bytes, which hash_bytes reads whether or not they lie
\* inside the data, and ptr += slen.
RECURSIVE ReadSymbols(_, _, _)
ReadSymbols(bs, n, acc) ==
    IF n = 0 THEN acc
    ELSE LET l   == ReadVarint(bs, acc.next)
             end == l.next + l.val
         IN  ReadSymbols(bs, n - 1,
                 [syms  |-> Append(acc.syms, BytesStr(SubSeq(bs, l.next, LesserOf(end - 1, Len(bs))))),
                  next  |-> end,
                  short |-> acc.short \/ l.short,
                  past  |-> acc.past \/ end - 1 > Len(bs)])

\* init_read_state_internal: the version byte, read even when the data is
\* empty, SEXP_CHECK_VERSION (ERRCODE_DATA_CORRUPTED above
\* SEXP_FORMAT_VERSION), the symbol count, then the symbols.  The stack or
\* palloc'd arrays (and sexp_free_read_state) hold the same table.
InitReadState(bs) ==
    CASE Len(bs) = 0      -> [err |-> FALSE, syms |-> <<>>, next |-> 2, short |-> FALSE, past |-> TRUE]
      [] bs[1] > Version  -> [err |-> TRUE, syms |-> <<>>, next |-> 2, short |-> FALSE, past |-> FALSE]
      [] OTHER ->
            LET c == ReadVarint(bs, 2)
            IN  [err |-> FALSE] @@ ReadSymbols(bs, c.val, [syms |-> <<>>, next |-> c.next,
                                                           short |-> c.short, past |-> FALSE])

Quoted(bs, p, n) == "\"" \o EscapeString(BytesStr(SubSeq(bs, p, p + n - 1))) \o "\""

RECURSIVE ReadElem(_, _, _), ReadListKids(_, _, _, _, _)

\* output_element at p: "()" at the end of the data; otherwise by the tag
\* of the byte at p.  A string's character loop stops at the end of the
\* data; a float's memcpy and a large list's count load do not.  A small
\* list skips its size varint and a large one its hash and SEntry table.
ReadElem(bs, p, syms) ==
    IF p > Len(bs) THEN Res("ok", "()", p, TRUE, FALSE)
    ELSE LET b == bs[p]
             v == ReadVarint(bs, p + 1)
         IN  CASE TagBits(b) = TagNil ->
                    Res("ok", "()", p + 1, FALSE, FALSE)
               [] TagBits(b) = TagSmallInt ->
                    Res("ok", ToString(DataBits(b) - SmallIntBias), p + 1, FALSE, FALSE)
               [] TagBits(b) = TagInteger ->
                    Res("ok", ToString(ZigzagDecode(v.val)), v.next, v.short, FALSE)
               [] TagBits(b) = TagFloat ->
                    IF p + 8 > Len(bs) THEN Res("ok", "?", p + 9, FALSE, TRUE)
                    ELSE Res("ok", FloatText(SubSeq(bs, p + 1, p + 8)), p + 9, FALSE, FALSE)
               [] TagBits(b) = TagSymRef ->
                    Res("ok", IF v.val < Len(syms) THEN syms[v.val + 1] ELSE "?invalid-symbol?",
                        v.next, v.short, FALSE)
               [] TagBits(b) = TagShortStr ->
                    LET n == LesserOf(DataBits(b), Len(bs) - p)
                    IN  Res("ok", Quoted(bs, p + 1, n), p + 1 + n, n < DataBits(b), FALSE)
               [] TagBits(b) = TagLongStr ->
                    LET n == LesserOf(v.val, Len(bs) + 1 - v.next)
                    IN  Res("ok", Quoted(bs, v.next, n), v.next + n, v.short \/ n < v.val, FALSE)
               [] DataBits(b) = 0 ->
                    IF p + 4 > Len(bs) THEN Res("ok", "?", p + 5, FALSE, TRUE)
                    ELSE LET c == LoadU32(bs, p + 1)
                         IN  ReadListKids(bs, syms, 1, c, Res("ok", "(", p + 9 + 4 * c, FALSE, FALSE))
               [] OTHER ->
                    ReadListKids(bs, syms, 1, DataBits(b), Res("ok", "(", v.next, v.short, FALSE))

\* The element loop of the LIST case: count elements, one space between.
\* Once ptr is at or past the end every remaining element prints "()";
\* those are summed up in one marker.
ReadListKids(bs, syms, i, count, acc) ==
    CASE i > count -> [acc EXCEPT !.txt = @ \o ")"]
      [] acc.next > Len(bs) ->
            Res("ok", acc.txt \o "<" \o ToString(count - i + 1) \o " x ()>)", acc.next, TRUE, acc.past)
      [] OTHER ->
            LET k == ReadElem(bs, acc.next, syms)
            IN  ReadListKids(bs, syms, i + 1, count,
                    Res("ok", acc.txt \o (IF i > 1 THEN " " ELSE "") \o k.txt, k.next,
                        acc.short \/ k.short, acc.past \/ k.past))

ReadError == Res("error", "", 0, FALSE, FALSE)

\* sexp_to_cstring, what sexp_out returns: the read state, then the root.
ToCstring(bs) ==
    LET st == InitReadState(bs)
        r  == ReadElem(bs, st.next, st.syms)
    IN  IF st.err THEN ReadError
        ELSE Res("ok", r.txt, r.next, st.short \/ r.short, st.past \/ r.past)

\* sexp_read_type at p: SEXP_NIL at the end of the data, otherwise the
\* type of the tag (named here as sexp_typeof names it).
ReadType(bs, p) ==
    IF p > Len(bs) THEN "nil"
    ELSE CASE TagBits(bs[p]) = TagNil                      -> "nil"
           [] TagBits(bs[p]) \in {TagSmallInt, TagInteger} -> "integer"
           [] TagBits(bs[p]) = TagFloat                    -> "float"
           [] TagBits(bs[p]) = TagSymRef                   -> "symbol"
           [] TagBits(bs[p]) \in {TagShortStr, TagLongStr} -> "string"
           [] OTHER                                        -> "list"

\* sexp_get_type_packed: the read state, then sexp_read_type.
Typeof(bs) ==
    LET st == InitReadState(bs)
    IN  IF st.err THEN ReadError
        ELSE Res("ok", ReadType(bs, st.next), st.next, st.short \/ st.next > Len(bs), st.past)

\* What a read can return: its result; after a read past the end of the
\* data, whatever the bytes beyond give, which is text or the version error.
Outcomes(r) ==
    IF r.past THEN {[r EXCEPT !.st = "ok"], [r EXCEPT !.st = "error"]} ELSE {r}

=============================================================================
