---------------------------- MODULE SexpNavigate ----------------------------
(***************************************************************************)
(* List access on the stored bytes (pg_sexp.c): skip_element,              *)
(* decode_list_header, decode_list_car_fast, get_element_bounds and        *)
(* extract_element_fast, and sexp_car, sexp_nth and sexp_length built on   *)
(* them.  They run on whatever bytes a register holds, so every read past  *)
(* the end of the data is flagged ("past"); the model reads such a byte as *)
(* 0, and what the result is then worth is left to the caller.             *)
(***************************************************************************)
EXTENDS SexpBytes, SexpOps

\* A byte of the data, 0 past its end (the read is flagged where it happens).
ByteAt(bs, q) == IF q \in 1..Len(bs) THEN bs[q] ELSE 0

\* SENTRY_GET_OFFSET of the SEntry stored at q: its low 28 bits.
SEntryOffset(bs, q) ==
    ByteAt(bs, q) + 256 * ByteAt(bs, q + 1) + 65536 * ByteAt(bs, q + 2)
    + 16777216 * (ByteAt(bs, q + 3) % 16)

RECURSIVE SkipElement(_, _), SkipElements(_, _, _)

\* Mutation: the varint of an integer or a symbol reference not skipped.
SkipElementVarintUnskipped(bs, p) ==
    IF p > Len(bs) THEN p
    ELSE LET b == bs[p]
             v == DecodeVarint(bs, p + 1)
         IN  CASE TagBits(b) \in {TagNil, TagSmallInt, TagInteger, TagSymRef} -> p + 1
               [] TagBits(b) = TagFloat    -> p + 9
               [] TagBits(b) = TagShortStr -> p + 1 + DataBits(b)
               [] TagBits(b) = TagLongStr  -> v.next + v.val
               [] DataBits(b) # 0          -> v.next + v.val
               [] p + 4 > Len(bs)          -> p + 9
               [] OTHER -> SkipElements(bs, p + 9 + 4 * LoadU32(bs, p + 1), LoadU32(bs, p + 1))

\* skip_element at p: the position after the element there, p itself at
\* the end of the data.  A small list is skipped by its payload size; a
\* large one by its SEntry table and then element by element.  Where the
\* count of a large list lies past the end every later skip stays put, so
\* the count read does not matter and is taken as 0.
SkipElement(bs, p) ==
    IF p > Len(bs) THEN p
    ELSE LET b == bs[p]
             v == DecodeVarint(bs, p + 1)
         IN  CASE TagBits(b) \in {TagNil, TagSmallInt} -> p + 1
               [] TagBits(b) \in {TagInteger, TagSymRef} -> v.next
               [] TagBits(b) = TagFloat    -> p + 9
               [] TagBits(b) = TagShortStr -> p + 1 + DataBits(b)
               [] TagBits(b) = TagLongStr  -> v.next + v.val
               [] DataBits(b) # 0          -> v.next + v.val
               [] p + 4 > Len(bs)          -> p + 9
               [] OTHER -> SkipElements(bs, p + 9 + 4 * LoadU32(bs, p + 1), LoadU32(bs, p + 1))

\* n calls of skip_element from p (those from the end of the data are no-ops).
SkipElements(bs, p, n) ==
    IF n = 0 \/ p > Len(bs) THEN p ELSE SkipElements(bs, SkipElement(bs, p), n - 1)

\* decode_list_header for the list whose tag byte is at p: its count, the
\* position of its SEntry table and of its element data, and whether the
\* count and hash of a large list were loaded past the end.
ListHeader(bs, p) ==
    IF DataBits(bs[p]) = 0
    THEN LET c == IF p + 4 > Len(bs) THEN 0 ELSE LoadU32(bs, p + 1)
         IN  [count |-> c, large |-> TRUE, sentries |-> p + 9, data |-> p + 9 + 4 * c,
              past |-> p + 8 > Len(bs)]
    ELSE [count |-> DataBits(bs[p]), large |-> FALSE, sentries |-> 0,
          data |-> DecodeVarint(bs, p + 1).next, past |-> FALSE]

\* The loop of decode_list_car_fast skipping a varint's bytes without
\* decoding it: every byte with the continuation bit, then one more.
RECURSIVE SkipVarintBytes(_, _)
SkipVarintBytes(bs, q) ==
    CASE q > Len(bs)   -> q
      [] bs[q] >= 128  -> SkipVarintBytes(bs, q + 1)
      [] OTHER         -> q + 1

\* decode_list_car_fast: the count and the first element's position (0
\* for NULL): by SEntry[0] in a large list, after the size varint's bytes
\* in a small one.
CarFast(bs, p) ==
    IF DataBits(bs[p]) = 0
    THEN LET h == ListHeader(bs, p)
         IN  [count |-> h.count,
              start |-> IF h.count = 0 THEN 0 ELSE h.data + SEntryOffset(bs, h.sentries),
              past  |-> h.past \/ (h.count > 0 /\ h.sentries + 3 > Len(bs))]
    ELSE [count |-> DataBits(bs[p]), start |-> SkipVarintBytes(bs, p + 1), past |-> FALSE]

\* get_element_bounds: element idx of a large list from its SEntry and the
\* next one's (end for the last); of a small list by skip_element.
ElementBounds(bs, h, idx, end) ==
    IF h.large
    THEN [start |-> h.data + SEntryOffset(bs, h.sentries + 4 * idx),
          end   |-> IF idx + 1 < h.count THEN h.data + SEntryOffset(bs, h.sentries + 4 * (idx + 1))
                    ELSE end,
          past  |-> h.sentries + 4 * (LesserOf(idx + 1, h.count - 1)) + 3 > Len(bs)]
    ELSE LET s == SkipElements(bs, h.data, idx)
         IN  [start |-> s, end |-> SkipElement(bs, s), past |-> FALSE]

\* A result: a value's bytes, NULL ("absent") or an error, and whether a
\* read went past the end of the data.
Nav(st, b, past) == [st |-> st, b |-> b, past |-> past]

\* extract_element_fast: the parent's version byte and symbol table (found
\* by decoding the symbol count and lengths again), then the bytes of the
\* element [s, e) copied by memcpy.
ExtractElement(bs, s, e, past) ==
    LET hd == InitReadState(bs).next
    IN  Nav("ok", SubSeq(bs, 1, hd - 1) \o SubSeq(bs, s, LesserOf(e, Len(bs) + 1) - 1),
            past \/ hd - 1 > Len(bs) \/ e - 1 > Len(bs))

NavAbsent == Nav("absent", <<>>, FALSE)
NavError  == Nav("error", <<>>, FALSE)

\* sexp_car (and sexp_head): NULL at the end of the data or on NIL, an
\* error on any other atom, otherwise the first element, its end found by
\* skip_element.
SexpCarBytes(bs) ==
    LET st == InitReadState(bs)
        p  == st.next
    IN  CASE st.err                   -> NavError
          [] p > Len(bs)              -> [NavAbsent EXCEPT !.past = st.past]
          [] TagBits(bs[p]) = TagNil  -> NavAbsent
          [] TagBits(bs[p]) # TagList -> NavError
          [] OTHER ->
               LET f == CarFast(bs, p)
               IN  IF f.count = 0 \/ f.start = 0 THEN [NavAbsent EXCEPT !.past = f.past]
                   ELSE ExtractElement(bs, f.start, SkipElement(bs, f.start), f.past \/ st.past)

\* sexp_nth, 0-based: NULL for a negative n, at the end or on NIL; an atom
\* is its own element 0 (the same Datum); otherwise the bounds of element
\* n below the count.
SexpNthBytes(bs, n) ==
    LET st == InitReadState(bs)
        p  == st.next
    IN  CASE n < 0                    -> NavAbsent
          [] st.err                   -> NavError
          [] p > Len(bs)              -> [NavAbsent EXCEPT !.past = st.past]
          [] TagBits(bs[p]) = TagNil  -> NavAbsent
          [] TagBits(bs[p]) # TagList -> IF n = 0 THEN Nav("ok", bs, st.past) ELSE NavAbsent
          [] OTHER ->
               LET h == ListHeader(bs, p)
               IN  IF n >= h.count THEN [NavAbsent EXCEPT !.past = h.past]
                   ELSE LET bd == ElementBounds(bs, h, n, Len(bs) + 1)
                        IN  ExtractElement(bs, bd.start, bd.end, h.past \/ bd.past \/ st.past)

\* sexp_length: 0 at the end or on NIL, 1 on an atom, the count of a list
\* (a large list's uint32 count, loaded whether or not it lies inside the
\* data).
SexpLengthBytes(bs) ==
    LET st  == InitReadState(bs)
        p   == st.next
        LengthRes(n, past) == Res("ok", ToString(n), p, FALSE, past)
    IN  CASE st.err                                   -> ReadError
          [] p > Len(bs) \/ TagBits(bs[p]) = TagNil   -> LengthRes(0, st.past)
          [] TagBits(bs[p]) # TagList                 -> LengthRes(1, st.past)
          [] OTHER -> LengthRes(ListHeader(bs, p).count, st.past \/ (DataBits(bs[p]) = 0 /\ p + 4 > Len(bs)))

=============================================================================
