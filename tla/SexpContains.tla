---------------------------- MODULE SexpContains ----------------------------
(***************************************************************************)
(* Structural containment (@>, sexp_contains) and key-based containment   *)
(* (@>>, sexp_contains_key) of pg_sexp.c.  Both reject first on the Bloom  *)
(* signatures, then walk the container with a type filter.                 *)
(***************************************************************************)
EXTENDS SexpHash

\* The first byte of an element: the tag and its inline data (the small-int
\* value, the short-string length, the small-list count; 0 otherwise).
FirstByte(e) ==
    <<e.tag, CASE e.tag = "SMALLINT"               -> e.n
               [] e.tag = "SHORTSTR"               -> Len(e.s)
               [] e.tag = "LIST" /\ ~e.large       -> Len(e.kids)
               [] OTHER                            -> 0>>

\* The tag test the containment walks share: equal tags, or both integers.
TagsCompatible(a, b) == a.tag = b.tag \/ {a.tag, b.tag} \subseteq IntTags

\* Mutation: atom_compare_direct comparing symbol indices, not texts.
AtomCompareDirectByIndex(a, sa, b, sb) ==
    /\ TagsCompatible(a, b)
    /\ CASE a.tag = "FLOAT" -> a.s = b.s
         [] a.tag = "LIST"  -> FALSE
         [] OTHER           -> a.n = b.n /\ a.s = b.s

\* atom_compare_direct: like elements_equal_recursive on atoms, except that
\* floats compare their 8 bytes with memcmp.
AtomCompareDirect(a, sa, b, sb) ==
    /\ TagsCompatible(a, b)
    /\ CASE a.tag # b.tag          -> a.n = b.n
         [] a.tag = "NIL"          -> TRUE
         [] a.tag \in IntTags      -> a.n = b.n
         [] a.tag = "FLOAT"        -> a.s = b.s
         [] a.tag = "SYMREF"       -> /\ a.n < Len(sa) /\ b.n < Len(sb)
                                      /\ Len(sa[a.n + 1]) = Len(sb[b.n + 1])
                                      /\ sa[a.n + 1] = sb[b.n + 1]
         [] a.tag \in StrTags      -> a.s = b.s
         [] OTHER                  -> FALSE

-----------------------------------------------------------------------------
(* Structural containment.                                                 *)

\* contains_fast_scan: test the node when its SEntry type and first byte
\* match the needle's, then descend into children of the needle's type or
\* of type LIST.
RECURSIVE ContainsFastScan(_, _, _, _)
ContainsFastScan(c, sc, n, sn) ==
    \/ /\ Stype(c) = Stype(n)
       /\ FirstByte(c) = FirstByte(n)
       /\ IF Stype(n) # "LIST" THEN AtomCompareDirect(c, sc, n, sn)
                              ELSE ElementsEqual(c, sc, n, sn)
    \/ /\ c.tag = "LIST"
       /\ \E i \in DOMAIN c.kids :
             /\ Stype(c.kids[i]) \in {Stype(n), "LIST"}
             /\ ContainsFastScan(c.kids[i], sc, n, sn)

\* sexp_contains (and sexp_contains_packed, behind @>): Bloom reject, then
\* the scan.
SexpContains(x, y) ==
    /\ BloomMayContain(ComputeBloom(x), ComputeBloom(y))
    /\ ContainsFastScan(x.root, x.syms, y.root, y.syms)

-----------------------------------------------------------------------------
(* Key-based containment.                                                  *)

RECURSIVE ElementKeyMatches(_, _, _, _), KeyContainsRecursive(_, _, _, _)

\* element_key_matches: an atom needle must equal the element; a list
\* needle must key-match a list element at this level.
ElementKeyMatches(c, sc, n, sn) ==
    IF n.tag # "LIST"
    THEN TagsCompatible(c, n) /\ ElementsEqual(c, sc, n, sn)
    ELSE c.tag = "LIST" /\ KeyContainsRecursive(c, sc, n, sn)

\* Mutation: the container tail scan of key_contains_recursive starting at
\* the second tail element.
KeyContainsFromThird(c, sc, n, sn) ==
    /\ c.tag = "LIST" /\ n.tag = "LIST"
    /\ \/ n.kids = <<>>
       \/ /\ Len(c.kids) >= Len(n.kids)
          /\ ElementsEqual(c.kids[1], sc, n.kids[1], sn)
          /\ \A ni \in 2..Len(n.kids) :
                \E ci \in 3..Len(c.kids) :
                   /\ n.kids[ni].tag = "LIST" \/ TagsCompatible(c.kids[ci], n.kids[ni])
                   /\ ElementKeyMatches(c.kids[ci], sc, n.kids[ni], sn)

\* key_contains_recursive: equal heads, then every needle tail element is
\* matched by some container tail element; tail elements are not consumed.
KeyContainsRecursive(c, sc, n, sn) ==
    /\ c.tag = "LIST" /\ n.tag = "LIST"
    /\ \/ n.kids = <<>>
       \/ /\ Len(c.kids) >= Len(n.kids)
          /\ ElementsEqual(c.kids[1], sc, n.kids[1], sn)
          /\ \A ni \in 2..Len(n.kids) :
                \E ci \in 2..Len(c.kids) :
                   /\ n.kids[ni].tag = "LIST" \/ TagsCompatible(c.kids[ci], n.kids[ni])
                   /\ ElementKeyMatches(c.kids[ci], sc, n.kids[ni], sn)

\* The children contains_key_search descends into: for an atom needle, the
\* children of its SEntry type in a large list and of a compatible tag in a
\* small one, and lists; for a list needle, lists only.
SearchChild(k, n, large) ==
    IF n.tag = "LIST" THEN k.tag = "LIST"
    ELSE IF large THEN Stype(k) \in {Stype(n), "LIST"}
    ELSE TagsCompatible(k, n) \/ k.tag = "LIST"

\* contains_key_search: the node itself, then its children.
RECURSIVE ContainsKeySearch(_, _, _, _)
ContainsKeySearch(c, sc, n, sn) ==
    \/ /\ n.tag # "LIST"
       /\ TagsCompatible(c, n)
       /\ AtomCompareDirect(c, sc, n, sn)
    \/ /\ n.tag = "LIST" /\ c.tag = "LIST"
       /\ KeyContainsRecursive(c, sc, n, sn)
    \/ /\ c.tag = "LIST"
       /\ \E i \in DOMAIN c.kids :
             /\ SearchChild(c.kids[i], n, c.large)
             /\ ContainsKeySearch(c.kids[i], sc, n, sn)

\* sexp_contains_key: Bloom reject, then the search.
SexpContainsKey(x, y) ==
    /\ BloomMayContain(ComputeBloom(x), ComputeBloom(y))
    /\ ContainsKeySearch(x.root, x.syms, y.root, y.syms)

=============================================================================
