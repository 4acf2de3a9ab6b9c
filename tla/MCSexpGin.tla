----------------------------- MODULE MCSexpGin -----------------------------
(***************************************************************************)
(* Model values for SexpGin: two rows, each set to any of a handful of    *)
(* documents, and queries that exercise every kind of key: atoms of every *)
(* type, a pair, a list with a symbol head, a list with a list head, the  *)
(* float zeros and a needle whose keys reduce to one.                     *)
(***************************************************************************)
EXTENDS SexpGin

A == DSym("a")
B == DSym("b")
K == DSym("k")
User == DSym("user")
Age  == DSym("age")
Name == DSym("name")

\* (user (name "alice") (age 30)): spec.md section 8, scenario 2
LitUser    == DList(<<User, DList(<<Name, DStr("alice")>>), DList(<<Age, DInt(30)>>)>>)
\* (user (age 30)) and (age 30)
LitUserAge == DList(<<User, DList(<<Age, DInt(30)>>)>>)
LitAge     == DList(<<Age, DInt(30)>>)
\* (a b), (a), (a a), ((a) b)
LitAB      == DList(<<A, B>>)
LitA       == DList(<<A>>)
LitAA      == DList(<<A, A>>)
LitListHead == DList(<<LitA, B>>)
\* (k 0.0 "b"), -0.0, 0
LitZero    == DList(<<K, DFlt("0.0"), DStr("b")>>)

\* ((b) (a b)): holds the pair (a b) and a one-element list
LitPairDoc == DList(<<DList(<<B>>), LitAB>>)

MCRowInputs  == {LitUser, LitAB, LitListHead, LitZero, LitPairDoc, A}

MCQueryInputs ==
    {A, B, DStr("b"), DStr("alice"), DInt(30), DInt(0), DFlt("-0.0"), DFlt("0.0"),
     LitUserAge, LitAge, LitAB, LitA, LitAA, LitListHead, LitZero}

=============================================================================
