---------------------------- MODULE SexpSession ----------------------------
(***************************************************************************)
(* A SQL session over sexp values.  Each register holds the value of a     *)
(* column or expression: SQL NULL at first, then whatever the statements   *)
(* put there.  A statement parses a text literal into a register (sexp_in) *)
(* or applies car, head, cdr, nth or sexp_find to registers and stores    *)
(* the result in another; a function returning NULL stores NULL, an ereport(ERROR)    *)
(* aborts the statement and leaves every register as it was.  The         *)
(* functions are STRICT, so none of them is called on NULL.               *)
(*                                                                         *)
(* Equality, hashing and the containments change no state: the properties *)
(* evaluate them on every pair of registers in every reachable state, so   *)
(* they are checked on every value car, cdr and nth can build.             *)
(***************************************************************************)
EXTENDS SexpContains, SexpMatch, SexpReference

CONSTANTS
    Regs,       \* the registers (columns, expression results)
    Inputs,     \* the text literals, as Datums
    NthArgs     \* the integer arguments given to nth

VARIABLES
    reg,        \* reg[r]: the Result held in register r
    lastError   \* the SQLSTATE class of the last aborted statement

vars == <<reg, lastError>>

Null == Result("null", NilSexp)

Errors == {"none", "datatype_mismatch", "program_limit_exceeded", "invalid_text_representation"}

Init ==
    /\ reg = [r \in Regs |-> Null]
    /\ lastError = "none"

\* Store the result of a function call in dst, the way its SQL wrapper
\* returns it: NULL for absent, the statement aborted on error.
Store(dst, res) ==
    CASE res.st = "error"  -> /\ lastError' = "datatype_mismatch"
                              /\ UNCHANGED reg
      [] res.st = "absent" -> /\ reg' = [reg EXCEPT ![dst] = Null]
                              /\ UNCHANGED lastError
      [] OTHER             -> /\ reg' = [reg EXCEPT ![dst] = res]
                              /\ UNCHANGED lastError

\* sexp_in: parse a literal; too deep a nesting raises an error.
SexpIn(d, dst) ==
    IF ParseFails(d)
    THEN /\ lastError' = "program_limit_exceeded"
         /\ UNCHANGED reg
    ELSE /\ reg' = [reg EXCEPT ![dst] = Ok(Parse(d))]
         /\ UNCHANGED lastError

Defined(r) == reg[r].st = "ok"

\* sexp_car_func.
CarFunc(src, dst) == Defined(src) /\ Store(dst, Car(reg[src].v))

\* sexp_head_func: sexp_head calls sexp_car.
HeadFunc(src, dst) == Defined(src) /\ Store(dst, Car(reg[src].v))

\* sexp_cdr_func.
CdrFunc(src, dst) == Defined(src) /\ Store(dst, Cdr(reg[src].v))

\* sexp_nth_func.
NthFunc(src, n, dst) == Defined(src) /\ Store(dst, Nth(reg[src].v, n))

\* sexp_find_func: the first subexpression of src matching the pattern pat.
FindFunc(src, pat, dst) ==
    Defined(src) /\ Defined(pat) /\ Store(dst, SexpFindFirst(reg[src].v, reg[pat].v))

Next ==
    \E src, dst \in Regs :
        \/ \E d \in Inputs : SexpIn(d, dst)
        \/ CarFunc(src, dst)
        \/ HeadFunc(src, dst)
        \/ CdrFunc(src, dst)
        \/ \E n \in NthArgs : NthFunc(src, n, dst)
        \/ \E pat \in Regs : FindFunc(src, pat, dst)

Spec == Init /\ [][Next]_vars

-----------------------------------------------------------------------------
(* Properties.                                                             *)

Values == {reg[r].v : r \in {q \in Regs : Defined(q)}}

\* A value is laid out the way the v6 writers lay it out: symbol references
\* inside the table, every list non-empty, small exactly when it has at
\* most SEXP_SMALL_LIST_MAX children, small-int and short-string encodings
\* exactly in their ranges.
RECURSIVE WellFormedElem(_, _)
WellFormedElem(e, syms) ==
    CASE e.tag = "SYMREF"  -> e.n \in 0..Len(syms) - 1
      [] e.tag \in IntTags -> (e.tag = "SMALLINT") = (e.n \in SmallIntMin..SmallIntMax)
      [] e.tag \in StrTags -> (e.tag = "SHORTSTR") = (Len(e.s) <= ShortStringMax)
      [] e.tag = "LIST"    -> /\ e.kids # <<>>
                              /\ e.large = (Len(e.kids) > SmallListMax)
                              /\ \A i \in DOMAIN e.kids : WellFormedElem(e.kids[i], syms)
      [] OTHER             -> TRUE

\* Type invariant: every register is NULL or a value in the v6 layout that
\* sexp_parse and sexp_cdr write (the small/large threshold of sexp_cdr
\* included).
TypeOK ==
    /\ lastError \in Errors
    /\ \A r \in Regs : reg[r].st \in {"null", "ok"}
    /\ \A x \in Values : WellFormedElem(x.root, x.syms)

\* sexp_equal answers the equality of section 4.4 on every pair of values,
\* whatever symbol tables car, cdr and nth left them with.
EqualIsSemantic ==
    \A x, y \in Values : SexpEqual(x, y) <=> SemEqual(Decode(x), Decode(y))

\* Section 4.7: sexp_match (@~) answers match(expr, pat) on every pair of
\* values, the wildcards and rest tokens read through each value's own
\* symbol table, and sexp_find returns the first matching subtree in
\* pre-order, or NULL when there is none.
MatchIsSemantic ==
    \A x, p \in Values :
        /\ SexpMatch(x, p) <=> SemMatch(Decode(x), Decode(p))
        /\ LET r == SexpFindFirst(x, p)
               s == SemFindFirst(Decode(x), Decode(p))
           IN  IF s = <<>> THEN r.st = "absent" ELSE r.st = "ok" /\ Decode(r.v) = s[1]

\* Section 8.3: equal values hash alike under sexp_hash (the = operator is
\* HASHES, so hash joins and hash aggregates rely on it).
HashConsistent ==
    \A x, y \in Values : SexpEqual(x, y) => SexpHashOf(x) = SexpHashOf(y)

\* Section 8.4: equal, contains, contains_key and match give the same
\* answer on a value extracted by car/cdr/nth/sexp_find, which keeps its
\* parent's symbol table, as on the same value reparsed from its text.
SymbolTableIndependent ==
    \A x, y \in Values :
        /\ SexpEqual(x, y) = SexpEqual(x, Canon(y))
        /\ SexpContains(x, y) = SexpContains(x, Canon(y))
        /\ SexpContainsKey(x, y) = SexpContainsKey(x, Canon(y))
        /\ SexpContains(y, x) = SexpContains(Canon(y), x)
        /\ SexpContainsKey(y, x) = SexpContainsKey(Canon(y), x)
        /\ SexpMatch(x, y) = SexpMatch(x, Canon(y))
        /\ SexpMatch(y, x) = SexpMatch(Canon(y), x)

\* Section 8.9: length(L) = 1 + length(cdr L), L equals car L prepended to
\* cdr L, and nth(L, i) is the element i of L.
CarCdrIdentity ==
    \A x \in Values : IsList(x) =>
        LET tail == Cdr(x).v
            rest == IF tail.root.tag = "NIL" THEN <<>> ELSE Decode(tail).kids
        IN  /\ Length(x) = 1 + Length(tail)
            /\ Decode(x).kids = <<Decode(Car(x).v)>> \o rest
            /\ \A i \in 0..Length(x) - 1 : Decode(Nth(x, i).v) = Decode(x).kids[i + 1]

\* Whatever sexp_contains accepts is a real subtree in the sense of 4.5.
ContainsSound ==
    \A x, y \in Values : SexpContains(x, y) => SemContains(Decode(x), Decode(y))

\* The two containment operators answer their definitions on every pair of
\* values: sexp_contains (@>) accepts exactly the subtrees of section 4.5,
\* whose atoms compare as = compares them (4.4), and sexp_contains_key
\* (@>>) exactly the key-matches of section 4.6, whose head matches and
\* whose tail elements each match a distinct container tail element,
\* whatever the Bloom signatures and the child filters reject.
ContainmentIsSemantic ==
    \A x, y \in Values :
        /\ SexpContains(x, y) <=> SemContains(Decode(x), Decode(y))
        /\ SexpContainsKey(x, y) <=> SemContainsKey(Decode(x), Decode(y))

\* An exact subtree (@>) is also a key-match (@>>): the two searches, their
\* type filters and their Bloom rejects agree on every value sexp_contains
\* accepts.
ContainsImpliesContainsKey ==
    \A x, y \in Values : SexpContains(x, y) => SexpContainsKey(x, y)

\* Section 8.7: the Bloom reject of sexp_contains never rejects a needle
\* that is a subtree of the container.
BloomSound ==
    \A x, y \in Values :
        SemContains(Decode(x), Decode(y)) => BloomMayContain(ComputeBloom(x), ComputeBloom(y))

\* Section 8 (boundary cases): a list nested to MAX_DEPTH - 1 parses and
\* one nested to MAX_DEPTH is rejected by sexp_in, so no value holds a
\* nesting of MAX_DEPTH.
DepthLimit ==
    \A x \in Values : Nesting(Decode(x)) < MaxDepth

=============================================================================
