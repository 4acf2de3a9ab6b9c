------------------------------ MODULE SexpOps ------------------------------
(***************************************************************************)
(* Equality and the element operations of pg_sexp.c: sexp_equal,          *)
(* elements_equal_recursive, car/head, cdr, nth and length.                *)
(*                                                                         *)
(* An operation's result is a Result: "ok" with a value, "absent" (the C   *)
(* function returned NULL, the SQL wrapper returns NULL) or "error" (an    *)
(* ereport(ERROR) that aborts the statement).                              *)
(***************************************************************************)
EXTENDS SexpValue

Result(st, v) == [st |-> st, v |-> v]
Ok(v)  == Result("ok", v)
Absent == Result("absent", NilSexp)
Error  == Result("error", NilSexp)

IsList(x) == x.root.tag = "LIST"

-----------------------------------------------------------------------------
(* Equality.                                                               *)

\* Mutation: symbol references compared by table index instead of text.
RECURSIVE ElementsEqualByIndex(_, _, _, _)
ElementsEqualByIndex(a, sa, b, sb) ==
    /\ a.tag = b.tag
    /\ CASE a.tag = "FLOAT"   -> FloatEq(a.s, b.s)
         [] a.tag = "LIST"    -> /\ Len(a.kids) = Len(b.kids)
                                 /\ \A i \in DOMAIN a.kids :
                                        ElementsEqualByIndex(a.kids[i], sa, b.kids[i], sb)
         [] OTHER             -> a.n = b.n /\ a.s = b.s

\* Mutation: symbol references compared by length, the memcmp dropped.
RECURSIVE ElementsEqualSymbolLength(_, _, _, _)
ElementsEqualSymbolLength(a, sa, b, sb) ==
    /\ a.tag = b.tag
    /\ CASE a.tag = "FLOAT"   -> FloatEq(a.s, b.s)
         [] a.tag = "SYMREF"  -> Len(sa[a.n + 1]) = Len(sb[b.n + 1])
         [] a.tag = "LIST"    -> /\ Len(a.kids) = Len(b.kids)
                                 /\ \A i \in DOMAIN a.kids :
                                        ElementsEqualSymbolLength(a.kids[i], sa, b.kids[i], sb)
         [] OTHER             -> a.n = b.n /\ a.s = b.s

\* elements_equal_recursive over two elements and their symbol tables.
RECURSIVE ElementsEqual(_, _, _, _)
ElementsEqual(a, sa, b, sb) ==
    /\ a.tag = b.tag
    /\ CASE a.tag = "NIL"     -> TRUE
         [] a.tag \in IntTags -> a.n = b.n
         [] a.tag = "FLOAT"   -> FloatEq(a.s, b.s)
         [] a.tag = "SYMREF"  -> /\ a.n < Len(sa) /\ b.n < Len(sb)
                                 /\ sa[a.n + 1] = sb[b.n + 1]
         [] a.tag \in StrTags -> a.s = b.s
         [] a.tag = "LIST"    -> /\ Len(a.kids) = Len(b.kids)
                                 /\ \A i \in DOMAIN a.kids :
                                        ElementsEqual(a.kids[i], sa, b.kids[i], sb)

\* sexp_equal: byte-identical values, else the semantic walk.
SexpEqual(x, y) == x = y \/ ElementsEqual(x.root, x.syms, y.root, y.syms)

-----------------------------------------------------------------------------
(* Element extraction.                                                     *)

\* extract_element_fast: the parent's version byte and whole symbol table,
\* then the element's bytes unchanged.
ExtractElementFast(parent, e) == [syms |-> parent.syms, root |-> e]

\* sexp_car (and sexp_head, which calls it).
Car(x) ==
    CASE x.root.tag = "NIL"    -> Absent
      [] ~IsList(x)            -> Error
      [] x.root.kids = <<>>    -> Absent
      [] OTHER                 -> Ok(ExtractElementFast(x, x.root.kids[1]))

\* The list cdr writes: small with the inline count, or large with the
\* placeholder structural hash dummy_hash = 0.
CdrDummyHash == "0"

\* Mutation: the small-list test of sexp_cdr off by one.
CdrListOffByOne(rest) ==
    IF Len(rest) < SmallListMax
    THEN Elem("LIST", 0, "", rest, FALSE, "")
    ELSE Elem("LIST", 0, "", rest, TRUE, CdrDummyHash)

CdrList(rest) ==
    IF Len(rest) <= SmallListMax
    THEN Elem("LIST", 0, "", rest, FALSE, "")
    ELSE Elem("LIST", 0, "", rest, TRUE, CdrDummyHash)

\* Mutation: the copy loop of sexp_cdr starting one element late.
CdrFromThird(x) ==
    CASE x.root.tag = "NIL"     -> Absent
      [] ~IsList(x)             -> Error
      [] Len(x.root.kids) <= 1  -> Ok(NilSexp)
      [] OTHER                  -> Ok([syms |-> x.syms, root |-> CdrList(Tail(Tail(x.root.kids)))])

\* sexp_cdr: the parent's symbol table and elements 2..n.
Cdr(x) ==
    CASE x.root.tag = "NIL"     -> Absent
      [] ~IsList(x)             -> Error
      [] Len(x.root.kids) <= 1  -> Ok(NilSexp)
      [] OTHER                  -> Ok([syms |-> x.syms, root |-> CdrList(Tail(x.root.kids))])

\* Mutation: sexp_nth without its atom branch, an atom out of range.
NthAtomAbsent(x, n) ==
    CASE n < 0                  -> Absent
      [] x.root.tag = "NIL"     -> Absent
      [] ~IsList(x)             -> Absent
      [] n >= Len(x.root.kids)  -> Absent
      [] OTHER                  -> Ok(ExtractElementFast(x, x.root.kids[n + 1]))

\* sexp_nth, 0-based; an atom is its own element 0.
Nth(x, n) ==
    CASE n < 0                  -> Absent
      [] x.root.tag = "NIL"     -> Absent
      [] ~IsList(x)             -> IF n = 0 THEN Ok(x) ELSE Absent
      [] n >= Len(x.root.kids)  -> Absent
      [] OTHER                  -> Ok(ExtractElementFast(x, x.root.kids[n + 1]))

\* sexp_length.
Length(x) ==
    CASE x.root.tag = "NIL" -> 0
      [] ~IsList(x)         -> 1
      [] OTHER              -> Len(x.root.kids)

=============================================================================
