------------------------------ MODULE SexpHash -----------------------------
(***************************************************************************)
(* The structural hash (sexp_element_hash, behind sexp_hash, the hash     *)
(* support function of the = operator's hash opclass) and the Bloom        *)
(* signature containment uses to reject early (sexp_element_bloom).        *)
(*                                                                         *)
(* A Bloom signature is modelled by the set of hashes whose bits           *)
(* bloom_compute_sig sets; bloom_may_contain(C, N) = (N & ~C) = 0 becomes  *)
(* N \subseteq C.  The model rejects only when a hash is really missing;   *)
(* the 64-bit filter may in addition accept by a bit collision, which only *)
(* makes the code's fast path more permissive than the model's.            *)
(***************************************************************************)
EXTENDS SexpOps

\* sexp_element_hash: a large list returns the hash stored in its header;
\* a small list is recomputed from its children.
RECURSIVE ElementHash(_, _)
ElementHash(e, syms) ==
    CASE e.tag = "NIL"     -> HashNil
      [] e.tag \in IntTags -> HashInt(e.n)
      [] e.tag = "FLOAT"   -> HashFlt(e.s)
      [] e.tag = "SYMREF"  -> IF e.n < Len(syms) THEN HashSym(syms[e.n + 1]) ELSE HashNil
      [] e.tag \in StrTags -> HashStr(e.s)
      [] e.tag = "LIST"    ->
            IF e.large THEN e.h
            ELSE HashList([i \in DOMAIN e.kids |-> ElementHash(e.kids[i], syms)])

\* sexp_compute_hash, returned by sexp_hash.
SexpHashOf(x) == ElementHash(x.root, x.syms)

\* The signature bit-source of a NIL: hash_uint32(SEXP_TAG_NIL).
BloomNil == "U0"
\* The signature bit-source of a list header: hash(count) combined with hash(LIST).
BloomCount(c) == "C" \o ToString(c)

\* Mutation: the large-list loop of sexp_element_bloom skipping child 0.
RECURSIVE ElementBloomSkipFirst(_, _)
ElementBloomSkipFirst(e, syms) ==
    CASE e.tag = "NIL"     -> {BloomNil}
      [] e.tag \in IntTags -> {HashInt(e.n)}
      [] e.tag = "FLOAT"   -> {HashFlt(e.s)}
      [] e.tag = "SYMREF"  -> {HashSym(syms[e.n + 1])}
      [] e.tag \in StrTags -> {HashStr(e.s)}
      [] e.tag = "LIST"    ->
            UNION {ElementBloomSkipFirst(e.kids[i], syms) :
                     i \in IF e.large THEN 2..Len(e.kids) ELSE DOMAIN e.kids}
              \cup {BloomCount(Len(e.kids))}

\* sexp_element_bloom: an atom's hash; a list is the union of its
\* children and its count signature.
RECURSIVE ElementBloom(_, _)
ElementBloom(e, syms) ==
    CASE e.tag = "NIL"     -> {BloomNil}
      [] e.tag \in IntTags -> {HashInt(e.n)}
      [] e.tag = "FLOAT"   -> {HashFlt(e.s)}
      [] e.tag = "SYMREF"  -> IF e.n < Len(syms) THEN {HashSym(syms[e.n + 1])} ELSE {}
      [] e.tag \in StrTags -> {HashStr(e.s)}
      [] e.tag = "LIST"    ->
            UNION {ElementBloom(e.kids[i], syms) : i \in DOMAIN e.kids}
              \cup {BloomCount(Len(e.kids))}

\* sexp_compute_bloom.
ComputeBloom(x) == ElementBloom(x.root, x.syms)

\* bloom_may_contain.
BloomMayContain(c, n) == n \subseteq c

=============================================================================
