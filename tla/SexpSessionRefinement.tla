----------------------- MODULE SexpSessionRefinement -----------------------
(***************************************************************************)
(* SexpSession implements SexpAbstractSession.  The session is extended    *)
(* with the history variable stmt, the last statement run (its SQL         *)
(* function, arguments and target), which every action sets and nothing   *)
(* reads; it ties each step to the statement of the specification that     *)
(* must explain it, so a NULL or an error has to be the one that           *)
(* statement gives.  head is car (sexp_head calls sexp_car).              *)
(***************************************************************************)
EXTENDS SexpSession

VARIABLE stmt

refVars == <<reg, lastError, stmt>>

\* A register read as contents: Decode of the value (output_element's
\* reading), NULL as <<>>.
AbsRegs == [r \in Regs |-> IF Defined(r) THEN <<Decode(reg[r].v)>> ELSE <<>>]

Abs == INSTANCE SexpAbstractSession WITH areg <- AbsRegs

RefInit == Init /\ stmt = Abs!NoStmt

RefNext ==
    \E src, dst \in Regs :
        \/ \E d \in Inputs : SexpIn(d, dst) /\ stmt' = Abs!Stmt("parse", dst, 0, dst, d, dst)
        \/ CarFunc(src, dst) /\ stmt' = Abs!Stmt("car", src, 0, src, DNil, dst)
        \/ HeadFunc(src, dst) /\ stmt' = Abs!Stmt("car", src, 0, src, DNil, dst)
        \/ CdrFunc(src, dst) /\ stmt' = Abs!Stmt("cdr", src, 0, src, DNil, dst)
        \/ \E n \in NthArgs : NthFunc(src, n, dst) /\ stmt' = Abs!Stmt("nth", src, n, src, DNil, dst)
        \/ \E pat \in Regs : FindFunc(src, pat, dst) /\ stmt' = Abs!Stmt("find", src, 0, pat, DNil, dst)

RefSpec == RefInit /\ [][RefNext]_refVars

\* Every statement sexp_in, car, head, cdr, nth and sexp_find run is the
\* same statement of the specification on contents: sexp_in stores the
\* literal's contents ("()" and nil as NIL) or rejects a nesting of
\* MAX_DEPTH; car, cdr and nth give the specified element, NULL or error on
\* each kind of value; sexp_find the first pre-order match; and what they
\* extract (keeping the parent's symbol table, or rewritten by cdr) reads
\* back as that element.
ImplementsAbstract == Abs!ASpec

=============================================================================
