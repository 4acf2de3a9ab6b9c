# TLA+ models of pg_sexp

pg_sexp is a PostgreSQL extension that stores S-expressions in a compact
binary format (v6) and offers equality, hashing, list access, structural
containment (`@>`), key-based containment (`@>>`), pattern matching (`@~`)
and a GIN operator class over them. This directory holds TLA+ modules that
model the extension's C code, the TLC configurations that check them, and
`PROJECT.json`, which maps every modelled definition to the source lines it
translates.

## The system's parts and how they interact

| Part | Source | What it does |
|---|---|---|
| Parser | `src/unnamed/part_004` (sexp_parser.c), `src/src/sexp_debug.h` | Turns text into a v6 value. It interns symbols into a per-value table in order of first occurrence, writes small-int and short-string encodings, and writes small lists (≤ 4 children, inline count) or large lists (count, structural hash, SEntry table). It enforces `SEXP_MAX_DEPTH`. |
| Element operations | `src/src/pg_sexp.c` | `sexp_car`/`head`, `sexp_cdr`, `sexp_nth` and `sexp_length`. Extracted elements keep the parent's whole symbol table. `sexp_cdr` rewrites the rest of a list and gives a large result a placeholder hash. |
| Equality and hash | `pg_sexp.c`, `sexp_debug.h` | `sexp_equal` (`elements_equal_recursive`) and `sexp_hash` (`sexp_element_hash`). The hash reads the stored hash of a large list. |
| Bloom signature | `pg_sexp.c`, `sexp_debug.h` | A 64-bit signature of a value's element hashes plus list counts. `@>` and `@>>` reject early with it. |
| `@>` | `pg_sexp.c` | `sexp_contains`: the Bloom reject, then `contains_fast_scan` with first-byte and SEntry-type filters and `atom_compare_direct`. |
| `@>>` | `pg_sexp.c` | `sexp_contains_key`: the Bloom reject, then `contains_key_search`, `key_contains_recursive` and `element_key_matches`. |
| GIN opclass | `src/src/sexp_gin.c`, `src/sql/pg_sexp--0.1.0.sql` | Extracts atom, list-head and pair keys from stored values and from queries, and decides with `triconsistent` whether a row is returned, rechecked or skipped. |
| Matcher | `src/unnamed/part_003` | `@~` and `sexp_find` with the `_`, `_*`, `?name` and `??name` wildcards. |
| Varint codec | `src/src/sexp_debug.h` | `encode_varint`, `decode_varint`, `varint_size` and zigzag: the encoding of integers, symbol indices and lengths. |
| Text output | `src/src/sexp_io.c`, `pg_sexp.c` | `sexp_out`/`output_element`: a value printed as text, floats with `%.17g`, strings escaped. |
| send/recv and the binary read path | `pg_sexp.c`, `src/src/sexp_io.c` | `sexp_send` hands the client the stored bytes; `sexp_recv` stores whatever bytes it gets, unchecked. `sexp_out` (`sexp_to_cstring`, `output_element`), `sexp_typeof` and the type predicates (`sexp_get_type_packed`) read stored bytes through `init_read_state_internal`. |

A SQL statement calls the input function (the parser), then operations on the
resulting values. Every value a statement sees was written either by the
parser or by `cdr`/`car`/`nth`/`sexp_find`. Equality, hashing, both
containments, the matcher and the GIN extractors must agree on all of those values, whichever writer produced
them. That agreement is what the models check.

## Modules

The modules are layered, each EXTENDing the previous one:

```
SexpValue ─► SexpOps ─► SexpHash ─► SexpContains ─┬─► SexpSession ─► MCSexpSession
            SexpOps ─► SexpMatch ─────────────────┤        │
SexpReference (specification semantics) ──────────┘        ├─► SexpSessionRefinement ─► MCSexpSessionRefinement
                      SexpReference ─► SexpAbstractSession ┘     (INSTANCE ... WITH)
SexpCodec ─► SexpText (with SexpValue) ─► SexpTextSession (with SexpSession) ─► MCSexpText
                                      SexpContains ─► SexpGin ─► MCSexpGin
                              SexpText ─► SexpBytes ─► SexpNavigate (with SexpOps) ─► SexpWire ─► MCSexpWire
```

- **SexpValue.** Parser input is a *Datum*, i.e. already tokenised text. A
  value is `[syms, root]`: the symbol table and the root element. An element
  records its tag, its encoded content, its small/large layout and, for a
  large list, the stored hash.
  - The parser is written as operators, one per C function: `ParseValue`
    (`sexp_parse_value_with_hash`), `ParseList`, `ParseKids` (its element
    loop), `ParseString`, `ParseNumberOrSymbol` and `Intern`
    (`intern_symbol`).
  - Each of them returns the element, the symbol table that follows it, and
    the hash the C function returns.
  - Hashes are injective terms over exactly the inputs the code hashes. The
    model therefore finds no collision the code could not have, and a
    difference it finds is real.
  - `DecodeElem` reads a value back as a Datum, which is what `output_element`
    prints.
- **SexpOps.** `ElementsEqual`, `SexpEqual`, `Car`, `Cdr` (with `CdrList` and
  `CdrDummyHash`), `Nth` and `Length`. A result is `ok`, `absent` (the C
  function returns NULL) or `error` (ereport).
- **SexpHash.** `ElementHash`, `SexpHashOf`, `ElementBloom` and
  `BloomMayContain`. A Bloom signature is the set of hash terms whose bits it
  sets, so "may contain" is set inclusion.
- **SexpContains.** `AtomCompareDirect`, `ContainsFastScan`, `SexpContains`,
  `ElementKeyMatches`, `KeyContainsRecursive`, `SearchChild`,
  `ContainsKeySearch` and `SexpContainsKey`, with the C type filters.
- **SexpMatch.** `PatternKind` (`is_pattern_symbol`), `ElementsMatch`,
  `MatchElements` (the list loop, where a rest token must be last),
  `SexpMatch`, and `FindPatternRecursive`/`FindInKids`/`SexpFindFirst`. The
  element found keeps the expression's whole symbol table.
- **SexpReference.** What the specification says the operators mean:
  `SemEqual`, `SemContains`, `SemContainsKey`, `SemMatch` and
  `SemFindFirst`. `SemContainsKey` is a first-come, scan-and-consume key
  match. `SemFindFirst` takes the first subtree in pre-order. These are
  checked against the code's operators. They are not mapped to code.
- **SexpSession.** A SQL session as a state machine.
  - **State.** `reg`, the registers holding columns and expression results,
    and `lastError`.
  - **Actions.**
    - `SexpIn` is `sexp_in`.
    - `CarFunc`, `HeadFunc`, `CdrFunc`, `NthFunc` and `FindFunc` are the SQL
      wrappers `sexp_car_func` and the others, down to `sexp_find_func`.
    - `Store` is how a wrapper returns: NULL for absent; an error aborts the
      statement and leaves every register unchanged.
  - **Properties.** The invariants quantify over every pair of values held,
    so they cover every value the writers can produce.
- **SexpGin.** A table of rows with its GIN entries.
  - **Actions.**
    - `WriteRow` is INSERT/UPDATE: `sexp_in`, then `sexp_gin_extract_value`
      in the same step.
    - `DeleteRow` is DELETE, with the entries vacuumed.
  - **Operators.**
    - `ExtractKeys`/`ExtractKids` are `extract_keys_recursive_impl` and
      `extract_query_keys_recursive`.
    - `ExtractValue` and `ExtractQuery` are the support functions.
    - `Triconsistent` is `sexp_gin_triconsistent` on exact entries.
  - **Scans.** `IndexScan` is what an index scan returns: GIN_TRUE outright,
    GIN_MAYBE after the recheck. `SeqScan` is what a sequential scan returns.
- **SexpCodec.** `EncodeVarint`, `DecodeVarint` (its one-byte fast path,
  the loop, the overflow break and the truncated case), `VarintSize`,
  `ZigzagEncode`/`ZigzagDecode` and `SignedVarint` (`write_signed_varint`).
  The width is the constant `IntBits`, 64 in the code. Every shift, cast and
  OR is taken modulo `2^IntBits`, so the wrap-around happens at the model's
  width.
- **SexpText.** The character level of the parser and the printer.
  - **Reading.** `ReadText` is `sexp_parse`, on a TLA+ string. Then come
    `SkipWhitespace` (with `;` comments), `ReadValue`, `ReadKids` (the
    `parse_list` loop), `ReadString` (escapes and both errors) and
    `ReadAtom`.
  - **Numbers.** `ScanFlags`, the scan loop of `parse_number_or_symbol`,
    decides between number and symbol. `Strtoll` saturates at
    INT64_MIN/INT64_MAX. `Strtod` names a float by its exact decimal. A read
    gives the Datum that `SexpValue`'s `Parse` then writes.
  - **Printing.** `OutputElement` is `output_element` character by
    character. It uses the small-int bits less the bias, the zigzag varint
    read back through `SexpCodec`, `FormatG17` for `%.17g`, the
    invalid-symbol marker, `EscapeString`, and one space between the elements
    of a list. `SexpOut` is `sexp_out`.
- **SexpTextSession.** The session with text literals.
  - **Actions.** `SexpInText` is `sexp_in` on a text. Its errors, in order:
    `invalid_text_representation` from the scanner, then the depth limit.
    `TextCast` is `v::text::sexp`: `sexp_out`, then `sexp_in` on the result.
    Every action of `SexpSession` is kept.
  - **History variable.** `source` records the text a register was last
    read from. Nothing reads it except the property on integer literals.
- **SexpAbstractSession.** What the specification promises a session:
  - registers hold contents (Datums), with no symbol table, layout or hash;
  - `AParse`, `ACar`, `ACdr`, `ANth` and `AFind` are sections 4.2, 4.7 and
    4.9 on contents;
  - "absent" stores NULL and an error aborts the statement;
  - a history variable `stmt` records the last statement and its arguments.
- **SexpSessionRefinement.** `SexpSession` with the same history variable
  `stmt`, set by every action. `Abs == INSTANCE SexpAbstractSession WITH areg
  <- AbsRegs` maps each register to `Decode` of its value (NULL to `<<>>`).
  The property `ImplementsAbstract` is the abstract specification.
  - **Why `stmt` is needed.** Without it, a NULL the code wrongly returns
    could be explained by another statement that rightly returns NULL (`nth
    5` instead of `nth 0`). The refinement would then miss such a bug.
- **SexpBytes.** The v6 format as bytes. `Bytes` is what `sexp_parse`
  writes for a value: the version byte 6, the symbol table (varint count,
  each symbol's varint length and bytes), then `ElemBytes` of the root:
  every tag byte, small-int and short-string data bits, varints, floats as
  their 8 IEEE bytes, small lists (`0xE0|count`, varint payload size) and
  large lists (`0xE0`, uint32 count, uint32 hash, the SEntry table built by
  `SEntries`/`SEntryBytes`). The list hash is abstracted to four zero bytes,
  which the reader skips.
  - The read path is total over *any* byte sequence: `InitReadState`
    (version byte, `SEXP_CHECK_VERSION`, symbol loop), `ReadElem`
    (`output_element`) with `ReadListKids`, `ToCstring` (`sexp_to_cstring`),
    `ReadType`/`Typeof` (`sexp_read_type` through `sexp_get_type_packed`).
  - A result records whether a guarded read stopped at the end (`short`) and
    whether an unguarded one went past it (`past`: `data[0]` of an empty
    value, a symbol's bytes, a float's memcpy, a large list's count).
    `Outcomes` turns an unguarded read past the end into a choice between
    text and the version error, the outcomes the build can produce.
- **SexpNavigate.** List access on the stored bytes, for any bytes a
  register holds: `SkipElement` (`skip_element`: a small list by its
  payload-size varint, a large one by its SEntry table and then each
  element), `ListHeader` (`decode_list_header`), `CarFast`
  (`decode_list_car_fast`, with its own varint-skipping loop
  `SkipVarintBytes`), `ElementBounds` (`get_element_bounds`: SEntry offsets
  from the data start, the last element ending at the end of the value)
  and `ExtractElement` (`extract_element_fast`: the parent's version and
  symbol table copied, then the element's bytes). `SexpCarBytes`,
  `SexpNthBytes` and `SexpLengthBytes` are `sexp_car`, `sexp_nth` and
  `sexp_length` built on them. A read past the end is flagged `past` and
  reads 0.
- **SexpWire.** A session over the binary I/O functions. Variables:
  `stored` (each register's varlena or NULL), `origin` (a history variable:
  the value whose bytes the register holds, or `NoValue`), `wire` (the bytea
  the client last got) and `out` (the last read and its result). Actions:
  `SexpIn`, `SexpSend`, `SexpRecv`, `SexpOutCall` and `SexpTypeCall` (for
  `sexp_typeof` and the six predicates), `SexpCarCall` (car and head),
  `SexpNthCall` and `SexpLengthCall`, on the bytes through `SexpNavigate`.
  A car or nth result's `origin` is what `SexpOps`' tree-level `Car` or
  `Nth` gives on the source's origin, so the round-trip property also
  checks every chain of extractions. After a read past the end a result
  may also be an error (`NavOutcomes`). The client is the fault model: it
  sends back what it got, the same under version byte 7, and, when
  `Truncation` holds, any proper prefix (a cut COPY BINARY file).
- **MCSexpSession / MCSexpGin / MCSexpText / MCSexpSessionRefinement / MCSexpWire.** The
  literals TLC enumerates.

## Runs

| Run | Expect | Checks | Shows |
|---|---|---|---|
| `session_core` (MCSexpSession.cfg) | pass | TypeOK, EqualIsSemantic, SymbolTableIndependent, CarCdrIdentity, ContainsSound, ContainsImpliesContainsKey, BloomSound, MatchIsSemantic | Holds over every value sexp_in/car/head/cdr/nth/sexp_find can build (listed below), patterns with `_`, `_*`, `?x`, `??r` and a rest token not last included. |
| `cdr_hash` | violation | HashConsistent | The cdr of a six-element list equals the parsed five-element list but stores hash 0, so `sexp_hash` differs (pg_sexp.c:1221). This breaks the hash opclass. |
| `depth_limit` | violation | DepthLimit | A list nested exactly MAX_DEPTH deep parses. The specification says it errors. |
| `containment_semantic` | violation | ContainmentIsSemantic | `@>` and `@>>` are not the containments of sections 4.5 and 4.6 on decoded contents. `(k 0.0) @> -0.0` is false: floats are compared with memcmp, while `=` says they are equal (pg_sexp.c:1674). `(k a b) @>> (k a a)` is true because container tail elements are not consumed (pg_sexp.c:2601). `(+ 1 2 3) @>> (+ 2 1)` is false because the Bloom count signature rejects it, though the code's own comment says it is true (pg_sexp.c:2877). |
| `gin_core` (MCSexpGin.cfg) | pass | GinContainsComplete | Through inserts, updates and deletes, with `MAX_GIN_KEYS` scaled to 6, the index finds every row `@>` accepts whose keys `add_key` did not cut. |
| `gin_exact` | violation | GinIndexExact | An index scan with its recheck is not a sequential scan. A single present query key gives GIN_TRUE without recheck, so row `a` is returned for `(a a)` (sexp_gin.c:1103). The `@>>` query `(a)` needs LIST_HEAD(a), but a stored pair `(a b)` has only a PAIR key, so the row is missed (sexp_gin.c:789). |
| `text_io` (MCSexpText.cfg) | pass | TextRoundTripPointFloats, CodecRoundTrip | Covers `sexp_in` on texts (comments, escapes, integers past the small-int range, nesting, malformed texts), the text cast and every session operation. Every value whose floats print with a point prints and reparses to an equal value. The varint/zigzag codec round-trips over the whole scaled int64 range. |
| `text_roundtrip` | violation | TextRoundTrip | `%.17g` prints the float `1.0` as `1`, which reparses as an integer. Section 8.1 says `parse(print(v)) = v`. |
| `literals` | violation | NumericLiteralsAsGrammar | Numeric literals are not read as the numbers of the section 4.9 grammar. `128` is stored as 127 (INT64_MAX at 8 bits) because `strtoll` saturates and errno is not checked; TLC prints this trace. `1e3` is read as a symbol. |
| `refinement` (MCSexpSessionRefinement.cfg) | pass | ImplementsAbstract | Every `sexp_in`, car, head, cdr, nth and `sexp_find` step is the statement of the specification on contents. It gives the specified value, NULL or error. |
| `wire` (MCSexpWire.cfg) | pass | WireTypeOK, BinaryRoundTrip, TruncatedVarintInBounds, NavigationAgreesWithTree | A value `sexp_parse` wrote, held directly or after `sexp_send` and `sexp_recv`, keeps exactly its bytes (section 8.2, recv(send(v)) = v); `sexp_out` reads them to the last byte and prints what the tree printer prints, and `sexp_typeof` names the root's type. `decode_varint`, started anywhere in a stored value and cut anywhere, never moves past the cut (section 3.3). `sexp_car`, `sexp_nth` at positions -1 to 7 and `sexp_length`, navigating the bytes of every value reachable by chains of car and nth, give the tree-level result, with the bytes `sexp_parse` writes for the element under the parent's symbol table (section 4.2 and the extraction fast path of section 5). `sexp_length` of an atom is 1, as the code (pg_sexp.c:1325), section 4.3 and end-to-end scenario 5 of section 8 say; the usage manual appended to sexp_io.c (line 510) says `sexp_length('atom'::sexp)` raises an error, so that manual line is wrong about the code. |
| `wire_truncated` (MCSexpWire_Truncated.cfg) | violation | CorruptionFailsLoudly | `sexp_recv` accepts a bytea cut to zero bytes, and `sexp_out` prints it as `()` after reading the version byte past the end (sexp_io.c:89, 263). The shortest trace is sexp_in, sexp_send, a receive of the empty prefix and sexp_out: bytes that no parse and no car or nth extraction writes (`Encodings` holds both). Sections 3 and 7 require a data-corruption error there. |

`session_core` checks the following:

- the v6 layout is kept;
- `=` is the semantic equality, whatever symbol table a value carries;
- `=`, `@>`, `@>>` and `@~` give the same answer on a car/cdr/nth/sexp_find
  result as on the same value reparsed;
- `car`, `cdr`, `nth` and `length` agree;
- `@>` accepts only real subtrees;
- `@>` implies `@>>`;
- the Bloom reject never drops a subtree.

`session_core` also checks that `@~` is the match of section 4.7 over
expressions and patterns (`_`, `_*`, `?x`, `??r`, a rest token not last) and everything
car/cdr/nth/sexp_find builds from them. It also checks that `sexp_find`
returns the first pre-order match, or NULL.

Every property of a passing run has a mutant in `PROJECT.json`: a plausible
bug in a mapped definition, written just before it, that TLC finds. Examples
are the cdr small/large threshold off by one, symbols compared by index, the
cdr copy loop starting late, and value extraction dropping pair keys.

## Bounds and why they are enough

- **`SmallListMax = 4` and `ShortStringMax = 31`.** These are the real values.
  The literals include lists of 5 and 6 children, so a cdr result is small in
  one case and large in the other. They also include a 32-character string.
- **Integers.** The literals 15, 16, -16 and -17 straddle the small-int range.
- **`MaxDepth = 3` in the session runs** (1000 in the code). The depth check
  compares a counter with a constant, so its behaviour at the boundary is the
  same for any limit. The literals nest to 2, 3 and 4.
- **Registers.** Two registers are enough for every operation to read one
  value and write another. With them, the operations build every sublist of
  the literals: cdr of cdr, car of cdr, and so on.
- **Rows.** Three rows let updates and deletes interleave. They give 343
  reachable tables.
- **`MaxGinKeys`.** It is 1024 in the code (the specification's `MAX_KEYS`
  is 2048). `gin_core` scales it to 6, the way `MaxDepth` is scaled: the
  cap is a counter compared with a constant. At 6 the user document
  `(user (name "alice") (age 30))`, with 8 keys, is cut and the other
  documents (at most 4 keys) are not.
  - `GinContainsComplete` is stated for rows below the cap. Stated for all
    rows it fails: a query needing one of the cut keys misses the document. The index
    thus misses rows past the cap. The specification sets the cap itself,
    so this is a gap in its property 6, and `PROJECT.json` lists it as a
    hazard.
  - Tested by hand, a cap checked one key early (`>= MaxGinKeys - 1`)
    violates `GinContainsComplete`.
  - `gin_exact` keeps the real cap, so its traces are the two findings.
- **Floats.** The session runs use only `0.0`, `-0.0` and `1.5`. IEEE
  equality on these literals differs from byte equality only at the zeros.
  - A float is named by its exact decimal value. `Strtod` and `FormatG17`
    are exact on the literals used, which have at most 17 significant digits.
  - The text runs add `1.0`, `-0.25`, `-0.0` and `100000000000000000.0`
    (1e17). These cover the `%f` form, the `%e` form and the zeros of
    `%.17g`.
- **`IntBits = 8` in the text runs** (64 in the code). At this width INT64_MAX
  is 127. The literals `127`, `128`, `-128` and `-129` sit at both edges of
  `strtoll`, and `-129` and `300` take multi-byte varints.
  - `CodecRoundTrip` checks every value of the range and every byte
    pattern's decode.
  - The codec's control (the byte loop, the 7-bit groups and the overflow
    break) is the same at every width. Its behaviour at the edges is
    therefore what it is at 64 bits.
- **Texts.** The text inputs hold a comment, every escape, a string past the
  short-string limit, nesting to 3 and 4, blank and `nil` inputs, and five
  malformed texts (each parser error).
- **The wire runs** use one register (two registers read the same bytes and
  take about 18 times as long), `IntBits = 8` and four literals: a mixed six-element list with an
  escaped string, a float, a small and a large integer and a nested list; a
  32-character (long) string; `((3 x) () -0.0)`, whose first child is a small list that `skip_element` steps over by its size varint (pg_sexp.c:786) to reach the siblings; and NIL. A large list needs
  more than 4 children, and the mixed literal's root has 6, so both list
  layouts and the SEntry table are read. `TruncatedVarintInBounds` tries
  every start position of every stored value and every cut within the
  `MaxVarintBytes` bytes a varint can read. `NthArgs = {0, 1, 5}` reach
  the first, a middle and the last child of the large list, and
  `NavProbe = -1..7` probes positions below, inside and past every list.
- **The refinement run** uses eight literals: an atom of each kind, a small
  list, a large list whose cdr is large, NIL, and nestings 2 and 4. The
  nesting-3 literal is left out because `depth_limit` already shows that the
  code accepts it where the specification rejects it. With it, the
  refinement would fail on that known difference.

## Fairness

None is assumed, and no liveness property is stated. Every operation is a
synchronous function call that runs to completion within one statement. There
are no threads, callbacks or waits in the extension, so nothing must
eventually happen beyond a call returning. Runs that pass check deadlock
freedom: some statement is always possible.

## Not modelled

- **Byte offsets in the session modules.** `SexpSession` and `SexpGin` see
  elements as a tree; the byte layout, the SEntry table and the binary read
  path are modelled in `SexpBytes` and checked against the tree printer by
  the `wire` run. The list hash bytes are zeros there (the hash is a term in
  `SexpHash`), so the reader's skipping of them is checked but not their
  value.
- **`sexp_hash_extended`.** It mixes a seed into the structural hash. With
  hashes as terms, equal values hash equally for every seed by
  construction; a model would check nothing `cdr_hash` does not.
- **Bytes beyond the end of a value.** What an unguarded read past the end
  finds is not modelled; `Outcomes` lets it give text or the version error.
- **`nan`/`inf` printing.** No literal of the model overflows `strtod`.
- **Error class ordering.** For a text that is both too deep and malformed,
  the model does not tell apart which of the two errors is raised first.
- **Capture extraction in the matcher.** `add_capture` is compiled out, and
  captures behave as wildcards, which is how they are modelled.
- **`sexp_gin_consistent`'s boolean path and the strategy-8 (`<@`) branches.** The boolean path always asks for a recheck. The `<@` branches are unreachable: the operator class declares only operators 7 and 9.
- **The benchmark and test scripts.**
