----------------------------- MODULE SexpMatch -----------------------------
(***************************************************************************)
(* The pattern matcher of sexp_match.c: @~ (sexp_match) and sexp_find     *)
(* (sexp_find_first).  A pattern is an ordinary value whose symbols _,    *)
(* _*, ?name and ??name are wildcards; the matcher walks the expression   *)
(* and the pattern in step, each with its own symbol table.               *)
(***************************************************************************)
EXTENDS SexpOps

\* is_pattern_symbol: the kind of pattern a symbol text stands for.
PatternKind(x) ==
    CASE x = "_"                                   -> "wildcard"
      [] x = "_*"                                  -> "wildcard_rest"
      [] Len(x) >= 2 /\ SubSeq(x, 1, 2) = "??"     -> "capture_rest"
      [] Len(x) >= 1 /\ SubSeq(x, 1, 1) = "?"      -> "capture"
      [] OTHER                                     -> "none"

\* The pattern kind of a pattern element: only an in-range symbol reference
\* can be a pattern symbol.
ElemKind(p, sp) ==
    IF p.tag = "SYMREF" /\ p.n < Len(sp) THEN PatternKind(sp[p.n + 1]) ELSE "none"

IsRest(p, sp) == ElemKind(p, sp) \in {"wildcard_rest", "capture_rest"}

RECURSIVE ElementsMatch(_, _, _, _), MatchElements(_, _, _, _, _),
          MatchElementsRestAnywhere(_, _, _, _, _)

\* Mutation: a rest pattern accepted in any position of its list.
MatchElementsRestAnywhere(es, se, ps, sp, i) ==
    CASE i > Len(ps)       -> Len(es) = Len(ps)
      [] IsRest(ps[i], sp) -> TRUE
      [] i > Len(es)       -> FALSE
      [] OTHER             -> /\ ElementsMatch(es[i], se, ps[i], sp)
                              /\ MatchElementsRestAnywhere(es, se, ps, sp, i + 1)

\* elements_match: a single wildcard or capture takes any element; a rest
\* pattern outside the list loop fails; otherwise the tags must be equal
\* and the contents too (floats with ==, symbols by text), lists through
\* match_elements.
ElementsMatch(e, se, p, sp) ==
    CASE ElemKind(p, sp) \in {"wildcard", "capture"} -> TRUE
      [] IsRest(p, sp)                               -> FALSE
      [] e.tag # p.tag                               -> FALSE
      [] e.tag = "NIL"                               -> TRUE
      [] e.tag \in IntTags                           -> e.n = p.n
      [] e.tag = "FLOAT"                             -> FloatEq(e.s, p.s)
      [] e.tag = "SYMREF"                            -> /\ e.n < Len(se) /\ p.n < Len(sp)
                                                        /\ se[e.n + 1] = sp[p.n + 1]
      [] e.tag \in StrTags                           -> e.s = p.s
      [] e.tag = "LIST"                              -> MatchElements(e.kids, se, p.kids, sp, 1)

\* The loop of match_elements from pattern element i (expression element i
\* too: every element before a rest pattern consumes exactly one): a rest
\* pattern must be the last and takes the remaining elements; otherwise
\* one expression element must be left and match; at the end no
\* expression element may be left over.
MatchElements(es, se, ps, sp, i) ==
    CASE i > Len(ps)       -> Len(es) = Len(ps)
      [] IsRest(ps[i], sp) -> i = Len(ps)
      [] i > Len(es)       -> FALSE
      [] OTHER             -> /\ ElementsMatch(es[i], se, ps[i], sp)
                              /\ MatchElements(es, se, ps, sp, i + 1)

\* sexp_match: the two roots.
SexpMatch(x, p) == ElementsMatch(x.root, x.syms, p.root, p.syms)

-----------------------------------------------------------------------------
(* sexp_find_first.  A search result is <<e>> for the element found or    *)
(* <<>> for none.                                                          *)

RECURSIVE FindPatternRecursive(_, _, _), FindInKids(_, _, _, _)

\* Mutation: the children of a list searched before the list itself.
FindChildrenFirst(e, sx, p) ==
    LET inKids == IF e.tag = "LIST" THEN FindInKids(e.kids, 1, sx, p) ELSE <<>>
    IN  IF inKids # <<>> THEN inKids
        ELSE IF ElementsMatch(e, sx, p.root, p.syms) THEN <<e>> ELSE <<>>

\* find_pattern_recursive: the element itself, then its children in order.
FindPatternRecursive(e, sx, p) ==
    IF ElementsMatch(e, sx, p.root, p.syms) THEN <<e>>
    ELSE IF e.tag = "LIST" THEN FindInKids(e.kids, 1, sx, p)
    ELSE <<>>

\* The child loop of find_pattern_recursive: the first child with a match.
FindInKids(ks, i, sx, p) ==
    IF i > Len(ks) THEN <<>>
    ELSE LET r == FindPatternRecursive(ks[i], sx, p)
         IN  IF r # <<>> THEN r ELSE FindInKids(ks, i + 1, sx, p)

\* sexp_find_first: the element found, extracted with the expression's
\* whole symbol table (extract_current_element), or NULL.
SexpFindFirst(x, p) ==
    LET r == FindPatternRecursive(x.root, x.syms, p)
    IN  IF r = <<>> THEN Absent ELSE Ok(ExtractElementFast(x, r[1]))

=============================================================================
