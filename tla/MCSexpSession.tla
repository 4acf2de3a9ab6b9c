--------------------------- MODULE MCSexpSession ---------------------------
(***************************************************************************)
(* Model values for SexpSession.  The literals are chosen so that every    *)
(* case the code distinguishes happens:                                    *)
(*   - lists of 5 and 6 children, whose cdr is small and large;            *)
(*   - the same symbols interned in different orders ((b a), (a b c));    *)
(*   - "a" as a symbol and as a string;                                    *)
(*   - integers at the small-int boundary (15, 16, -16, -17);             *)
(*   - a string one character past the short-string limit;                *)
(*   - the two float zeros;                                                *)
(*   - key-containment lists with repeated and reordered tails;            *)
(*   - nesting up to one past the depth limit.                             *)
(***************************************************************************)
EXTENDS SexpSession

A == DSym("a")
B == DSym("b")
C == DSym("c")
K == DSym("k")

\* (a b c), (b a), a, "a"
LitABC     == DList(<<A, B, C>>)
LitBA      == DList(<<B, A>>)
\* (k 15 16 -16 -17 "a"): six children, its cdr is large.
LitSix     == DList(<<K, DInt(15), DInt(16), DInt(-16), DInt(-17), DStr("a")>>)
\* (15 16 -16 -17 "a"): equal to the cdr of LitSix.
LitFive    == DList(<<DInt(15), DInt(16), DInt(-16), DInt(-17), DStr("a")>>)
\* (k "<32 characters>" 1.5)
LongText   == "abcdefghijklmnopqrstuvwxyz012345"
LitLong    == DList(<<K, DStr(LongText), DFlt("1.5")>>)
\* (k 0.0) and -0.0
LitZero    == DList(<<K, DFlt("0.0")>>)
LitNegZero == DFlt("-0.0")
\* (k a b), (k a a), (k (k a b) c)
LitKAB     == DList(<<K, A, B>>)
LitKAA     == DList(<<K, A, A>>)
LitNested  == DList(<<K, LitKAB, C>>)
\* (+ 1 2 3) and (+ 2 1)
Plus       == DSym("+")
LitSum     == DList(<<Plus, DInt(1), DInt(2), DInt(3)>>)
LitSumKey  == DList(<<Plus, DInt(2), DInt(1)>>)
\* ((a)) and (((a))): nesting MaxDepth - 1 and MaxDepth
LitDeep2   == DList(<<DList(<<A>>)>>)
LitDeep3   == DList(<<LitDeep2>>)
\* ((((a)))): nesting MaxDepth + 1, rejected by the code too
LitDeep4   == DList(<<LitDeep3>>)

\* Patterns: _, (+ _*), (+ _* 3) with the rest token not last, and the
\* captures (+ _ ?x) and (k _ ??r).
Wild       == DSym("_")
Rest       == DSym("_*")
PatSumRest == DList(<<Plus, Rest>>)
PatRestMid == DList(<<Plus, Rest, DInt(3)>>)
PatSumTwo  == DList(<<Plus, Wild, DSym("?x")>>)
PatKRest   == DList(<<K, Wild, DSym("??r")>>)

\* The literals of the checks that pass: every case above but the
\* containment-completeness ones, which have runs of their own.
MCInputs ==
    {LitABC, LitBA, A, DStr("a"), LitSix, LitFive, LitLong, LitZero, LitNegZero,
     LitKAB, LitKAA, LitNested, DNil, LitDeep2, LitDeep4}

\* The literals of the core run: those above and the patterns that tell
\* the matcher's cases apart (a wildcard, a rest token last and not last,
\* captures).
MCInputsCore == MCInputs \cup {LitSum, Wild, PatSumRest, PatRestMid, PatSumTwo, PatKRest}

\* The literals of the run on the nesting limit.
MCInputsDepth == {A, LitDeep2, LitDeep3, LitDeep4}

\* The literals of the run on the containments.
MCInputsContain == {LitKAB, LitKAA, LitSum, LitSumKey, LitNested, A, LitZero, LitNegZero}

\* The literals of the refinement run: an atom of each kind, a small and a
\* large list (whose cdr is large), NIL, and nestings below and above the
\* limit.
MCInputsRefine == {A, DStr("a"), LitNegZero, LitKAB, LitSix, DNil, LitDeep2, LitDeep4}

MCNthArgs == {-1, 0, 1, 5}

=============================================================================
