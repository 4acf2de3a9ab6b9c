------------------------ MODULE SexpAbstractSession ------------------------
(***************************************************************************)
(* What a SQL session over sexp values promises, in the terms of the       *)
(* specification (sections 4.2, 4.7, 6.1 and 7): registers hold contents   *)
(* (Datums), with no symbol table, layout or hash; parse, car, head, cdr,  *)
(* nth and find_first compute their results on contents; "absent" stores  *)
(* NULL and an error aborts the statement, leaving every register as it    *)
(* was.  SexpSession is checked to implement this specification.          *)
(***************************************************************************)
EXTENDS SexpReference

CONSTANTS Regs, Inputs, NthArgs

VARIABLES
    areg,       \* areg[r]: <<d>> for a register holding the contents d, <<>> for NULL
    lastError,  \* the class of the last aborted statement
    stmt        \* the last statement run: its function, arguments and target

avars == <<areg, lastError, stmt>>

\* A statement: fn applied to the register src (with the integer n, the
\* pattern register pat or the literal d), its result stored in dst.
Stmt(fn, src, n, pat, d, dst) ==
    [fn |-> fn, src |-> src, n |-> n, pat |-> pat, d |-> d, dst |-> dst]

NoStmt == LET r == CHOOSE q \in Regs : TRUE IN Stmt("none", r, 0, r, DNil, r)

\* The contents parse gives a literal: "()" and the symbol nil are NIL.
RECURSIVE Contents(_)
Contents(d) ==
    CASE d.k = "list" /\ d.kids = <<>> -> DNil
      [] d.k = "sym" /\ d.s = "nil"    -> DNil
      [] d.k = "list"                  -> DList([i \in DOMAIN d.kids |-> Contents(d.kids[i])])
      [] OTHER                         -> d

\* Results: a value, absent, or an error of a class.
AOk(d)    == [st |-> "ok", d |-> d]
AAbsent   == [st |-> "absent", d |-> DNil]
AError    == [st |-> "error", d |-> DNil]

\* Section 4.2: car (and head): absent on NIL, an error on any other atom.
ACar(d) ==
    CASE d.k = "nil"  -> AAbsent
      [] d.k # "list" -> AError
      [] OTHER        -> AOk(d.kids[1])

\* Section 4.2: cdr: absent on NIL, an error on any other atom, NIL for one
\* element.
ACdr(d) ==
    CASE d.k = "nil"     -> AAbsent
      [] d.k # "list"    -> AError
      [] Len(d.kids) = 1 -> AOk(DNil)
      [] OTHER           -> AOk(DList(Tail(d.kids)))

\* Section 4.2 and the note of section 9: nth out of range is absent; an
\* atom is its own element 0.
ANth(d, n) ==
    CASE n < 0 \/ d.k = "nil"  -> AAbsent
      [] d.k # "list"          -> IF n = 0 THEN AOk(d) ELSE AAbsent
      [] n >= Len(d.kids)      -> AAbsent
      [] OTHER                 -> AOk(d.kids[n + 1])

\* Section 4.7: find_first, absent when nothing matches.
AFind(d, p) ==
    LET s == SemFindFirst(d, p) IN IF s = <<>> THEN AAbsent ELSE AOk(s[1])

AInit ==
    /\ areg = [r \in Regs |-> <<>>]
    /\ lastError = "none"
    /\ stmt = NoStmt

\* A statement storing its result in dst.
AStore(dst, res) ==
    CASE res.st = "error"  -> /\ lastError' = "datatype_mismatch"
                              /\ UNCHANGED areg
      [] res.st = "absent" -> /\ areg' = [areg EXCEPT ![dst] = <<>>]
                              /\ UNCHANGED lastError
      [] OTHER             -> /\ areg' = [areg EXCEPT ![dst] = <<res.d>>]
                              /\ UNCHANGED lastError

\* Section 4.9 and the boundary cases of section 8: a nesting of MAX_DEPTH
\* or more is an error.
AParse(d, dst) ==
    /\ stmt' = Stmt("parse", dst, 0, dst, d, dst)
    /\ IF Nesting(d) >= MaxDepth
       THEN /\ lastError' = "program_limit_exceeded"
            /\ UNCHANGED areg
       ELSE AStore(dst, AOk(Contents(d)))

AHeld(r) == areg[r] # <<>>

\* car(src), head(src), cdr(src), nth(src, n) and find_first(src, pat),
\* none of them called on NULL.
ACall(src, dst, n, pat, fn) ==
    LET v   == areg[src][1]
        res == CASE fn = "car" -> ACar(v)
                 [] fn = "cdr" -> ACdr(v)
                 [] fn = "nth" -> ANth(v, n)
                 [] OTHER      -> AFind(v, areg[pat][1])
    IN  /\ AHeld(src) /\ AHeld(pat)
        /\ stmt' = Stmt(fn, src, n, pat, DNil, dst)
        /\ AStore(dst, res)

ANext ==
    \E src, dst \in Regs :
        \/ \E d \in Inputs : AParse(d, dst)
        \/ ACall(src, dst, 0, src, "car")
        \/ ACall(src, dst, 0, src, "cdr")
        \/ \E n \in NthArgs : ACall(src, dst, n, src, "nth")
        \/ \E pat \in Regs : ACall(src, dst, 0, pat, "find")

ASpec == AInit /\ [][ANext]_avars

=============================================================================
