--------------------------- MODULE SexpReference ---------------------------
(***************************************************************************)
(* The meaning the specification (spec.md sections 4.4 to 4.7) gives to  *)
(* equality, the containments and patterns, stated on Datums, the content *)
(* of a value with no symbol table, byte layout or hash in it.  The        *)
(* properties compare the code's answers on binary values with these.      *)
(***************************************************************************)
EXTENDS SexpValue

\* Section 4.4: same kind (small-int and integer are one kind), equal scalar
\* (floats numerically), symbols by text, lists pairwise.
RECURSIVE SemEqual(_, _)
SemEqual(a, b) ==
    /\ a.k = b.k
    /\ CASE a.k = "flt"  -> FloatEq(a.s, b.s)
         [] a.k = "list" -> /\ Len(a.kids) = Len(b.kids)
                            /\ \A i \in DOMAIN a.kids : SemEqual(a.kids[i], b.kids[i])
         [] OTHER        -> a.n = b.n /\ a.s = b.s

\* Section 4.5: some subtree of c (c included) equals n.
RECURSIVE SemContains(_, _)
SemContains(c, n) ==
    \/ SemEqual(c, n)
    \/ c.k = "list" /\ \E i \in DOMAIN c.kids : SemContains(c.kids[i], n)

\* Section 4.6 at one level: an atom matches an equal atom; a list matches
\* a list with an equal head whose tail elements can be consumed, first
\* come first matched, one for each tail element of the needle.
RECURSIVE SemKeyMatch(_, _), ConsumeAll(_, _)
SemKeyMatch(c, n) ==
    IF n.k # "list" THEN SemEqual(c, n)
    ELSE /\ c.k = "list"
         /\ \/ n.kids = <<>>
            \/ /\ c.kids # <<>>
               /\ SemEqual(c.kids[1], n.kids[1])
               /\ ConsumeAll(Tail(n.kids), Tail(c.kids))

ConsumeAll(ns, cs) ==
    IF ns = <<>> THEN TRUE
    ELSE LET fits == {j \in DOMAIN cs : SemKeyMatch(cs[j], ns[1])}
         IN  /\ fits # {}
             /\ LET j == CHOOSE j \in fits : \A i \in fits : j <= i
                IN  ConsumeAll(Tail(ns),
                               [i \in 1..Len(cs) - 1 |-> IF i < j THEN cs[i] ELSE cs[i + 1]])

\* Section 4.6: an atom as in 4.5; a list matched by some subtree of c.
RECURSIVE SemContainsKey(_, _)
SemContainsKey(c, n) ==
    IF n.k # "list" THEN SemContains(c, n)
    ELSE \/ SemKeyMatch(c, n)
         \/ c.k = "list" /\ \E i \in DOMAIN c.kids : SemContainsKey(c.kids[i], n)

-----------------------------------------------------------------------------
(* Section 4.7: patterns.                                                  *)

\* The role of a pattern element: _ and ?name take one element, _* and
\* ??name the trailing elements of their list; anything else is literal.
SemRole(d) ==
    IF d.k # "sym" THEN "literal"
    ELSE CASE d.s = "_" -> "one"
           [] d.s = "_*" -> "rest"
           [] Len(d.s) >= 2 /\ SubSeq(d.s, 1, 2) = "??" -> "rest"
           [] Len(d.s) >= 1 /\ SubSeq(d.s, 1, 1) = "?" -> "one"
           [] OTHER -> "literal"

\* match(expr, pat) at the root; a list pattern matches a list element by
\* element, a rest token matching the remaining elements and failing the
\* match when it is not last.
RECURSIVE SemMatch(_, _), SemMatchList(_, _)
SemMatch(d, p) ==
    CASE SemRole(p) = "one"  -> TRUE
      [] SemRole(p) = "rest" -> FALSE
      [] p.k = "list"        -> d.k = "list" /\ SemMatchList(d.kids, p.kids)
      [] OTHER               -> SemEqual(d, p)

SemMatchList(ds, ps) ==
    CASE ps = <<>>                -> ds = <<>>
      [] SemRole(ps[1]) = "rest"  -> Len(ps) = 1
      [] OTHER                    -> /\ ds # <<>>
                                     /\ SemMatch(ds[1], ps[1])
                                     /\ SemMatchList(Tail(ds), Tail(ps))

\* The subtrees of d, depth-first, pre-order, left to right.
RECURSIVE PreOrder(_)
PreOrder(d) ==
    <<d>> \o IF d.k # "list" THEN <<>>
            ELSE LET RECURSIVE Cat(_)
                     Cat(i) == IF i > Len(d.kids) THEN <<>> ELSE PreOrder(d.kids[i]) \o Cat(i + 1)
                 IN  Cat(1)

\* find_first(expr, pat): the first subtree in pre-order that matches, as
\* <<subtree>>, or <<>> when none does.
SemFindFirst(d, p) ==
    LET ts   == PreOrder(d)
        hits == {i \in DOMAIN ts : SemMatch(ts[i], p)}
    IN  IF hits = {} THEN <<>>
        ELSE <<ts[CHOOSE i \in hits : \A j \in hits : i <= j]>>

-----------------------------------------------------------------------------
(* Section 4.9: the text grammar of a number,                              *)
(*   number ::= [+-]? (digits ('.' digits)? ([eE][+-]? digits)?)           *)

SpecDigits == {"0", "1", "2", "3", "4", "5", "6", "7", "8", "9"}

\* The first position at or after i that is not a digit of t.
RECURSIVE DigitsEnd(_, _)
DigitsEnd(t, i) == IF i <= Len(t) /\ SubSeq(t, i, i) \in SpecDigits THEN DigitsEnd(t, i + 1) ELSE i

\* The position after the optional sign at i.
AfterSign(t, i) == IF i <= Len(t) /\ SubSeq(t, i, i) \in {"+", "-"} THEN i + 1 ELSE i

\* The whole token t is a number of the grammar.
SpecNumber(t) ==
    LET i1 == DigitsEnd(t, AfterSign(t, 1))
        i2 == IF i1 <= Len(t) /\ SubSeq(t, i1, i1) = "." THEN DigitsEnd(t, i1 + 1) ELSE i1
        i3 == IF i2 <= Len(t) /\ SubSeq(t, i2, i2) \in {"e", "E"}
              THEN DigitsEnd(t, AfterSign(t, i2 + 1)) ELSE i2
    IN  /\ i1 > AfterSign(t, 1)
        /\ i2 = i1 \/ i2 > i1 + 1
        /\ i3 = i2 \/ i3 > AfterSign(t, i2 + 1)
        /\ i3 = Len(t) + 1

\* The value a token of the grammar's integer form (a sign and digits)
\* denotes, as a mathematical integer.
RECURSIVE DigitsValue(_, _, _)
DigitsValue(t, i, acc) ==
    IF i > Len(t) THEN acc
    ELSE DigitsValue(t, i + 1, acc * 10 + CHOOSE v \in 0..9 :
                                  SubSeq("0123456789", v + 1, v + 1) = SubSeq(t, i, i))
SpecIntegerValue(t) ==
    LET m == DigitsValue(t, AfterSign(t, 1), 0)
    IN  IF SubSeq(t, 1, 1) = "-" THEN -m ELSE m

=============================================================================
