------------------------------ MODULE SexpGin ------------------------------
(***************************************************************************)
(* The GIN operator class sexp_gin_ops (sexp_gin.c) over a table of sexp   *)
(* rows.  INSERT, UPDATE and DELETE change a row and, in the same step,    *)
(* the index entries sexp_gin_extract_value gives it.  An index scan for   *)
(* `row @> q` (strategy 7) or `row @>> q` (strategy 9) takes the keys      *)
(* sexp_gin_extract_query gives q, asks sexp_gin_triconsistent for every   *)
(* row whose entries hold the keys, returns a row outright on GIN_TRUE     *)
(* and rechecks it with the operator on GIN_MAYBE.                          *)
(*                                                                         *)
(* A key is a term: its type marker and the hash term get_element_hash     *)
(* computes.  get_element_hash hashes raw bytes (no type tag), so the     *)
(* model keeps its real collisions: symbol and string of the same text,    *)
(* integer 0 and float 0.0 (eight zero bytes each), and a list with its    *)
(* first element.                                                          *)
(***************************************************************************)
EXTENDS SexpContains, FiniteSets

CONSTANTS
    Rows,          \* the table's row identifiers
    RowInputs,     \* the literals rows are set to
    QueryInputs,   \* the literals queries compare with
    MaxGinKeys     \* MAX_GIN_KEYS: the cap on the keys of one value

VARIABLES
    rows,          \* rows[r]: the Result held in row r (null when deleted)
    entries        \* entries[r]: the keys the index holds for row r

ginVars == <<rows, entries>>

\* A row holding SQL NULL (never written, or deleted).
RowNull == Result("null", NilSexp)

ContainsStrategy    == 7     \* SEXP_GIN_CONTAINS_STRATEGY, @>
ContainsKeyStrategy == 9     \* SEXP_GIN_CONTAINS_KEY_STRATEGY, @>>
Strategies == {ContainsStrategy, ContainsKeyStrategy}

-----------------------------------------------------------------------------
(* Key extraction.                                                         *)

\* get_element_hash: the hash of an element's raw content; a list is
\* hashed as its first element.
RECURSIVE GinElementHash(_, _)
GinElementHash(e, syms) ==
    CASE e.tag = "NIL"     -> "u0"
      [] e.tag \in IntTags -> IF e.n = 0 THEN "z8" ELSE "i" \o ToString(e.n)
      [] e.tag = "FLOAT"   -> IF FloatNorm(e.s) = "0.0" THEN "z8" ELSE "f" \o e.s
      [] e.tag = "SYMREF"  -> IF e.n < Len(syms) THEN "b" \o syms[e.n + 1] ELSE "0"
      [] e.tag \in StrTags -> "b" \o e.s
      [] e.tag = "LIST"    -> IF e.kids = <<>> THEN "u0" ELSE GinElementHash(e.kids[1], syms)

\* make_atom_key(marker, hash).
MakeAtomKey(marker, h) == marker \o "|" \o h
\* The pair key: hash_combine32(hash_combine32(PAIR, head), second).
PairKey(e, syms) ==
    MakeAtomKey("PAIR", "(" \o GinElementHash(e.kids[1], syms) \o ","
                            \o GinElementHash(e.kids[2], syms) \o ")")

\* The atom key of an atom, and whether it emits one (an out-of-range
\* symbol emits none).
AtomKey(e, syms) ==
    CASE e.tag = "NIL"     -> MakeAtomKey("ATOM", "u0")
      [] e.tag \in IntTags -> MakeAtomKey("INTEGER", GinElementHash(e, syms))
      [] e.tag = "FLOAT"   -> MakeAtomKey("FLOAT", GinElementHash(e, syms))
      [] e.tag = "SYMREF"  -> MakeAtomKey("SYMBOL", GinElementHash(e, syms))
      [] e.tag \in StrTags -> MakeAtomKey("STRING", GinElementHash(e, syms))
EmitsAtomKey(e, syms) == e.tag # "SYMREF" \/ e.n < Len(syms)

\* is_pair_list: two children, the first a symbol.
IsPairList(e) == Len(e.kids) = 2 /\ e.kids[1].tag = "SYMREF"

\* add_key: nothing once MAX_GIN_KEYS keys are held, nothing for a key
\* already held (the KeyHashSet), else append.
AddKey(keys, k) ==
    IF Len(keys) >= MaxGinKeys \/ \E i \in DOMAIN keys : keys[i] = k
    THEN keys ELSE Append(keys, k)

\* extract_keys_recursive_impl (skipPair = FALSE emits pair keys and no
\* list-head key for pairs) and extract_query_keys_recursive (the same,
\* but the pair key only when not skipPair, and ATOM|0 for an empty list).
\* isQuery selects the query variant.
RECURSIVE ExtractKeys(_, _, _, _, _), ExtractKids(_, _, _, _, _, _)
ExtractKeys(e, syms, keys, isQuery, skipPair) ==
    IF Len(keys) >= MaxGinKeys THEN keys
    ELSE CASE e.tag # "LIST" ->
                IF EmitsAtomKey(e, syms) THEN AddKey(keys, AtomKey(e, syms)) ELSE keys
           [] e.kids = <<>> ->
                IF isQuery THEN AddKey(keys, MakeAtomKey("ATOM", "0")) ELSE keys
           [] OTHER ->
                LET withHead ==
                      IF ~IsPairList(e)
                      THEN AddKey(keys, MakeAtomKey("LIST_HEAD", GinElementHash(e, syms)))
                      ELSE IF skipPair THEN keys ELSE AddKey(keys, PairKey(e, syms))
                IN  ExtractKids(e.kids, 1, syms, withHead, isQuery, skipPair)

\* The child loop: stops once MAX_GIN_KEYS keys are held.
ExtractKids(ks, i, syms, keys, isQuery, skipPair) ==
    IF i > Len(ks) \/ Len(keys) >= MaxGinKeys THEN keys
    ELSE ExtractKids(ks, i + 1, syms, ExtractKeys(ks[i], syms, keys, isQuery, skipPair),
                     isQuery, skipPair)

\* No key extracted: the single key ATOM|0.
OrFallback(keys) == IF keys = <<>> THEN {MakeAtomKey("ATOM", "0")} ELSE
                        {keys[i] : i \in DOMAIN keys}

\* Mutation: value extraction skipping pair keys, as the @>> query does.
ExtractValueSkipPairs(x) == OrFallback(ExtractKeys(x.root, x.syms, <<>>, FALSE, TRUE))

\* sexp_gin_extract_value.
ExtractValue(x) == OrFallback(ExtractKeys(x.root, x.syms, <<>>, FALSE, FALSE))

\* sexp_gin_extract_query: strategy 7 keeps pair keys, strategy 9 skips them.
ExtractQuery(q, strategy) ==
    OrFallback(ExtractKeys(q.root, q.syms, <<>>, TRUE, strategy = ContainsKeyStrategy))

-----------------------------------------------------------------------------
(* Consistency and the scan.                                               *)

\* sexp_gin_triconsistent on a row whose entries are exact (every check is
\* GIN_TRUE or GIN_FALSE): FALSE if a key is absent, TRUE if the single
\* query key is present, MAYBE otherwise.
Triconsistent(qkeys, rowKeys) ==
    CASE ~(qkeys \subseteq rowKeys)    -> "FALSE"
      [] Cardinality(qkeys) = 1        -> "TRUE"
      [] OTHER                         -> "MAYBE"

\* The operator a strategy stands for.
Operator(strategy, x, q) ==
    IF strategy = ContainsStrategy THEN SexpContains(x, q) ELSE SexpContainsKey(x, q)

Live == {r \in Rows : rows[r].st = "ok"}

\* The rows an index scan returns: GIN_TRUE outright, GIN_MAYBE rechecked.
IndexScan(q, strategy) ==
    LET qk == ExtractQuery(q, strategy)
    IN  {r \in Live : \/ Triconsistent(qk, entries[r]) = "TRUE"
                      \/ /\ Triconsistent(qk, entries[r]) = "MAYBE"
                         /\ Operator(strategy, rows[r].v, q)}

\* The rows a sequential scan returns.
SeqScan(q, strategy) == {r \in Live : Operator(strategy, rows[r].v, q)}

-----------------------------------------------------------------------------
(* The table.                                                              *)

GinInit ==
    /\ rows = [r \in Rows |-> RowNull]
    /\ entries = [r \in Rows |-> {}]

\* INSERT or UPDATE: sexp_in parses the literal; PostgreSQL then stores
\* as the new row version's index entries the keys sexp_gin_extract_value
\* gives it (that maintenance is the server's, not the extension's).
WriteRow(r, d) ==
    /\ ~ParseFails(d)
    /\ rows' = [rows EXCEPT ![r] = Ok(Parse(d))]
    /\ entries' = [entries EXCEPT ![r] = ExtractValue(Parse(d))]

\* DELETE (with the dead entries vacuumed): PostgreSQL's, no code of the
\* operator class runs.
DeleteRow(r) ==
    /\ rows[r].st = "ok"
    /\ rows' = [rows EXCEPT ![r] = RowNull]
    /\ entries' = [entries EXCEPT ![r] = {}]

GinNext ==
    \E r \in Rows :
        \/ \E d \in RowInputs : WriteRow(r, d)
        \/ DeleteRow(r)

GinSpec == GinInit /\ [][GinNext]_ginVars

Queries == {Parse(d) : d \in QueryInputs}

-----------------------------------------------------------------------------
(* Properties.                                                             *)

\* An index scan for @> returns every row the operator accepts whose keys
\* add_key did not cut at MAX_GIN_KEYS: below the cap no key of a
\* container is lost, so the query keys of every needle are among them.
GinContainsComplete ==
    \A q \in Queries :
        \A r \in SeqScan(q, ContainsStrategy) :
            Cardinality(entries[r]) < MaxGinKeys => r \in IndexScan(q, ContainsStrategy)

\* An index scan answers exactly what a sequential scan does, for @> and
\* @>> alike: it misses no row the operator accepts (the query keys of
\* every needle are among the entries of every row holding it), and it
\* returns no row the operator rejects (section 4.8: a single present key
\* is enough to skip the recheck).
GinIndexExact ==
    \A q \in Queries, s \in Strategies : IndexScan(q, s) = SeqScan(q, s)

=============================================================================
