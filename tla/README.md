# A verification of cildec

cildec reads .NET images: the PE container, the ECMA-335 metadata inside it, and
the CIL of method bodies. It is a sequential library over a byte slice: no
threads, no I/O, no persistent state. What makes it hard is that every number
it acts on was written by somebody else. It promises (`src/src/lib.rs:15-33`)
that no input makes it fail other than by an error, that it never loops without
progress, that permissive parsing records each deviation it accepts, and that
strict parsing rejects them. This project states such promises about the parts
that have state and loops, checks them with TLC on small instances, and proves
all but the liveness ones with TLAPS for every value of the constants.

## The system

| Component | Code under `src/src` | State it keeps | Operations | Modules |
|-|-|-|-|-|
| table stream | `tables/mod.rs`, `tables/coded.rs`, `token.rs` | row counts, layout of each table, sortedness mask, diagnostics | `parse`, `row_bytes`, `raw_column` | `TableStream` |
| sorted-key lookup | `tables/lookup.rs`, `tables/mod.rs`, `tables/coded.rs` | the sortedness mask, search bounds | `verify_sortedness`, `rows_with_key`, `rows_for_parent` and the calls built on them | `KeyIndex`, `SortedLookup`, `ParentLookup` |
| list columns | `tables/lookup.rs`, `tables/mod.rs` | bisection bounds, iterator positions | `list_range`, `owner_of_list` and wrappers, `resolve_indirection`, `row`, the row iterators | `ListOwner`, `MemberRows` |
| instruction streams | `il/mod.rs`, `body.rs` | iterator offset and fuse, prefixes being folded | `InstructionIter::next`, `FoldedIter::next`, `is_instruction_boundary` | `ForwardScan`, `InstructionStream` |
| method bodies | `body.rs` | reader position, clauses, raw sections, diagnostics | `parse_with` | `MethodBody` |
| exception tables | `body.rs` | loop indices | `validate_handlers` | `HandlerTable` |
| signatures | `signature.rs` | position, depth, whether a PINNED is open | six parsers over one recursive descent | `SignatureParser` |
| PE container | `pe.rs` | sections, directories | `parse_with`, `rva_to_offset`, `rva_available`, `rva_slice`, `cli_header`, `metadata` | `PeImage` |
| metadata root | `metadata.rs` | stream directory, chosen streams | `parse_at` | `MetadataRoot` |
| heaps | `heaps.rs` | iterator position | `bytes`, `get`, `get_at`, the iterators | `ForwardScan`, `HeapScan` |
| compressed integers | `compressed.rs` | none | `read_u32`, `read_i32`, `write_u32` | in `HeapScan` |
| row schemas | `tables/rows.rs`, `tables/coded.rs`, `token.rs`, `tables/lookup.rs` | none | declarations | `RowSchema` |
| names | `display.rs` | recursion depth, the type a walk has come to | `type_def`, `type_ref`, `token`, `type_`, signatures | `ParentLookup`, `Names` |
| byte cursor | `reader.rs` | position | reads, `seek`, `align_to` | in the guards of its users |
| opcode table | `il/table.rs`, `il/mod.rs` | none | generated constants, `from_bytes`, `canonical_of` | `OpcodeTable` |
| errors | `error.rs`, `lib.rs` | none | data | not modelled |

How they interact: `PeImage` finds the CLI header and hands a byte range to
`Metadata::parse_at`, which walks the stream directory and hands the table
stream to `Tables::parse`. The parse computes the geometry of every table from
numbers the stream states, verifies the sort keys, and leaves behind a mask of
tables that may be searched by bisection. Later calls trust both: a row access
trusts the layout, a keyed lookup trusts the mask, a list lookup trusts that
the columns of the owner table ascend, falling back to a scan when they do not.
A `MethodDef` row gives an RVA, `rva_rest` the bytes, `MethodBody` the code
and the exception clauses; the iterators decode the code, and
`validate_handlers` checks clauses against the code.

What is hard, and at which line, is listed under `hazards` in `PROJECT.json`:
decisions taken once and trusted later (the mask, the layouts), clamps that
must keep later tables consistent, arithmetic at the edges of unsigned types,
iterators called again after an error, and chains whose continuation the image
decides.

What makes each component correct:

- *table stream*: rows exist, tables are disjoint, columns tile rows, indexes
  are wide enough, a clamp is reported;
- *sorted-key lookup*: the mask is exact and every answer complete, sorted or
  not; it terminates;
- *keyed calls*: what is returned for a token is what that token owns;
- *list columns*: owner and range are inverse, on disordered columns too; a
  member is read where it is stored, once;
- *instruction streams*: spans tile the code, prefixes belong to the
  instruction they modify, an error is final, reading ends;
- *method bodies*: clauses come back as their writer wrote them, under either
  reading of `DataSize`; the chain ends;
- *exception tables*: accepted exactly if sound, in terms of the sets of
  offsets covered;
- *signatures*: depth is balanced, allocation bounded by the bytes left, what
  a writer wrote is what is read;
- *PE container*: the RVA functions agree with one mapping;
- *metadata root*: truncation ends the list, first name wins;
- *heaps*: iteration progresses, and yields what `get` yields;
- *names*: cyclic rows end a name, never a call; different signatures read
  differently.

## The modules

**`TableStream`** is `Tables::parse` with `column_width`, `small_row_limit` and
the reads of `verify_sortedness`. Its loops are the code's: one action per
iteration. `ReadHeader`, `SkipAbsent`/`ReadCount`, `ReadExtraData` read the
header; `LayoutColumn` is the inner loop over the columns of a table;
`PlaceTable` is the clamp, with a disjunct for "fits", "rejected" and
"clamped", and the store of the layout; `SkipReserved` stands for the reserved
slots that `TableId::ALL` leaves out; `VerifyTable` is one table of
`verify_sortedness`, whose comparison of keys is left open there and is
`SortedLookup`'s subject. Bytes are counted, not stored. The schema, the `*Ptr`
relation and the keyed tables are constants, so the proofs hold for every
schema, the real one included; the width of an index flips at `NarrowRows`
(2^16 in the code). Numbers that the code keeps in fixed-width integers are
naturals here: `count * row_size` is computed in 64 bits (`tables/mod.rs:261`),
and `ColumnsTile` shows that a column's offset fits its byte.

**`KeyIndex`** is the abstract specification of a keyed lookup: a fixed column,
questions and complete ascending answers. **`SortedLookup`** is
`verify_sortedness` for one table followed by any number of `rows_with_key`
calls, one action per loop iteration; `RefinesKeyIndex` maps its program counter to the
index's phase. A row count below `MaxU32` is assumed: the stream would have to
be larger than 8 GiB to state more rows than the index type holds.

**`ParentLookup`** extends it with the calls built on `rows_with_key`. `ForParent`
is `rows_for_parent`, `first_row_with_key` under the `*_of` wrappers, and
`generic_params`; `ForRid` the wrappers keyed by a RID; each starts the
search of `SortedLookup`, whose loop runs as `LookupStep`, and `Return` is what the
call does with the rows. `NestedRow` is the scan of `nested_types`. `WalkRound`,
`WalkOutwards`, `WalkStop` and `WalkedOut` are a round of `Names::type_def` and its
three ends; a round makes a lookup of its own. `decode` and `encode` are the coded
index's, with the truncation of `Token::new`; the properties read a table
backwards, decoding each row's key, where the code encodes the argument. A wrapper that
reads one more column of the row it found returns, here, the row.

**`ListOwner`** is `list_range` and `owner_of_list` for one owner table, one
action per iteration of the bisection and of the scan behind it. The target may
have a `*Ptr` table, whose row count then limits the runs
(`logical_row_count`). `0` stands for `None`.

**`MemberRows`** extends it with the reads: a client takes the owners in turn,
reads every RID of each range through `row`, which `resolve_indirection` sends
through the `*Ptr` table; or it reads the table with `iter` or
`iter_indirect`. Logical and physical RIDs have one type in the code; the model
has the one place that maps them, and `MembersPartition` notices a map
applied twice or not at all.

**`ForwardScan`** is the abstract specification of an iterator over bytes that
may end, fail once, or take an item of at least one byte. It counts the items, so
that an item without progress is not a stutter. `InstructionStream` and
`HeapScan` implement it. **`InstructionStream`** has the three readers of
code: `Raw*` is `InstructionIter::next`, `Fold*` one iteration of the loop in
`FoldedIter::next` with `apply_prefix` and `check_prefix_targets`, `Boundary*`
the walk of `is_instruction_boundary`. A code is a map from the offsets a
linear decode reaches to the opcode, operand shape and size found there; the
opcode sets of the prefix rules are the code's. Offsets are taken modulo
`OffsetLimit`, 2^32 in the code, so the guard against wrapping is really
exercised. A single instruction is assumed smaller than `OffsetLimit`, which
excludes a `switch` of 2^30 targets or more. Operand values that steer nothing are left out.

**`OpcodeTable`** is data: all 219 rows of `OPCODE_INFO`, in runs of opcodes that
share their facts, the order of `ALL_OPCODES`, both decoders, `from_bytes`,
`canonical_of` and the implied operands. The source keeps the same opcodes in
five lists and indexes one with a position in another; four assumptions, which
TLC evaluates with `instruction_stream`, say how they fit: decoding a row's
bytes gives the row back and reserved bytes none; canonical forms are canonical
and have the behaviour of the forms they stand for; an implied operand exists exactly
where a short form drops one; flow, prefix and operand facts agree.

**`MethodBody`** is `parse_with` and `parse_sections`. Offsets and sizes are the
code's; the content of a section is reduced to its header (kind bits and
`DataSize`) and to whether a clause's kind is legal. A body records where its
writer put the clauses, which is what `ClausesRecovered` compares against, and the
chain of sections they are in. No action looks at either; of an intact body the
model only takes that its clauses are of defined kinds. What
is read at an offset where no writer put a header is any of `AnySection`.

**`HandlerTable`** is `validate_handlers`: `CheckOwn` is the body of the outer
loop up to the inner one, `CheckPair` an iteration of the inner loop. Ends
saturate at `OffsetMax`. Its properties are stated over sets of offsets, so
that the interval arithmetic of the code is checked against something else than
itself.

**`SignatureParser`** is the recursive descent of `signature.rs`. Its call stack
is an explicit agenda of goals, innermost first: entering a function pushes what
it will do, returning pops, a `for` loop over a declared count is the goal
`Each`. One action is one call, one return or one read; the action names are the
functions' where there is one (`type_token`, `bounded_count`, `local_var`,
`method_sig_inner`, ...). The parser never looks back, so of the blob only its
length and the byte at the position exist, and the next byte is any byte there
is: a run covers every blob over `Bytes`. Of a parsed type only its constructor
is kept, which is all later code asks about.

**`Names`** renders what it parses, and tokens: pure recursive functions through a
graph of rows, with the depth the code carries. A text is a sequence of symbols.
What must hold of it is stated as assumptions, which TLC evaluates with
`signature_parser`: a `TypeRef` is named with all its scopes or as `Table[rid]`;
the cap only takes away from a name; modifier lists read like the nests they
stand for; and signatures, slots and shapes the parser tells apart are rendered
differently.

**`PeImage`** is `PeImage::parse_with` (headers and data directories in one
action, then one section per action, clamped or rejected), and the pure functions
behind it: `rva_to_offset`, `rva_available`, `rva_slice`, `mapped_size`,
`contains_rva`, then `cli_header` and `metadata` as the step `Locate`. An image is
what its header fields say.

**`MetadataRoot`** is `Metadata::parse_at`. `ReadRoot` reads up to the stream
count; `ListStream`, `RejectEntry` and `EndDirectory` are the three outcomes of an
iteration of the directory loop; `TakeStream`, `SkipDuplicate` and
`RejectDuplicate` those of the dispatch loop; `ParseTables` calls
`Tables::parse`, which is `TableStream`'s subject, as a step that may fail.

**`HeapScan`** has the four heaps' random access as operators and one action per
iterator, one step per `next`. `Get` and the iterators are separate code in the
source and separate definitions here. Lengths are compressed integers, written to
a variable `Radix` (256 in the code, 8 in the run) so that all three encoded
widths fit a small heap: the thresholds are the code's with the radix for 256.
`read_i32` is a pure function beside `read_u32`; no iterator uses it. The count of a
`#GUID` heap is not truncated to 32 bits (`heaps.rs:305`): such a heap would be larger
than 64 GiB.

**`RowSchema`** is data: table numbers, the columns of all 53 tables, coded index
kinds, sort keys, the `*Ptr` relation, and the column numbers and tables the typed
wrappers pass to the general lookups. What the code takes for granted about this
data is stated as five named assumptions, which TLC evaluates whenever
`parent_lookup` runs: tables have between one and `MAX_COLUMNS` columns, tag bits
fit the tag lists exactly, a sort key is an index column of the kind its keys are
encoded with, `*Ptr` tables redirect to the table that names them, and every
wrapper names the column it means. It is what the constants of `TableStream`
stand for.

`*Proofs` modules hold the theorems of one or two components; `MC*` modules supply
constants for TLC.

## The runs

| Run | Instance | Shows |
|-|-|-|
| `table_stream` | 4 slots, one reserved; a `*Ptr` table, its target, a keyed table with coded and simple index columns; 4 row counts around the width threshold of 4; stream lengths 23, 24, 26 ... 60; both heap widths | the layouts are consistent with the stream and each other |
| `table_stream_clamp` | the same | a clamp can *raise* the row count of a later table (below) |
| `parent_lookup` | tables of up to 3 rows, strict or not, declared sorted or not: with a coded key, every column over 4 raw values, among them one of no table and one too wide for a token; with a RID key, every column of two types, nested in each other, themselves, nothing or no type | the mask is exact, disorder is never silent, lookups implement `KeyIndex`, calls return what their argument owns, names follow the nesting, every call returns |
| `member_rows` | every list column of up to 3 owners over raw values 0..4, targets of up to 3 rows, `*Ptr` tables that permute, repeat, miss or overrun them | owner and range are inverse, the bisection ends, every row is read once, no read leaves its table |
| `instruction_stream` | every sequence of up to 4 of 10 instructions, whole or one byte short, offsets modulo 20 | items are a scan of the code, with the prefixes that are theirs; boundaries agree; an error is final; reading ends; `OpcodeTable` |
| `method_body` | up to 2 sections of up to 2 clauses, small and fat, with either reading of `DataSize`; cut short at 4 places; arbitrary chains in up to 60 bytes; headers of every kind in up to 20 bytes | clauses are recovered, disjoint, and the chain ends |
| `handler_table` | tables of up to 2 handlers, offsets and lengths in {0, 1, 2, 4}, code of 4 or 6 bytes, `OffsetMax` 6 | accepted exactly if sound |
| `signature_parser` | every blob of up to 7 bytes over 22 byte values that double as element types, conventions, counts and integer prefixes; recursion limit 2; all six entry points | depth is nesting, reservations are backed by bytes, a sentinel is not counted, a PINNED type is rejected exactly inside another PINNED type, the parse ends; `Names`, for 3 hops, regions of 3 `TypeRef`s and 9 other rows, types two deep |
| `pe_image` | up to 2 sections with raw ranges in, across and behind the end of the file, mapped ranges apart, overlapping or at the last RVA; files cut at 4 lengths; short and absent headers | translation and slices agree with one mapping, the metadata region is in the file |
| `metadata_root` | every directory of up to 3 streams over 5 names (two for the table slot, one overlong), cut at 18 lengths that end in every field of an entry | the list is the longest readable prefix, the first name wins, strict parsing accepts conforming roots only |
| `metadata_root_cut` | the same | a cut in a name's padding fails the parse instead of ending the list (below) |
| `heap_scan` | every heap of each kind of up to 5 bytes over 5 byte values, and heaps written with up to 3 entries of one-, two- and four-byte lengths, bare or with garbage behind; radix 8, offsets below 40, token offsets below 16 | iterators yield what was written and what random access returns, and always advance; signed integers are rotated back in every width |

The bounds are small because the properties are about neighbours and edges: a
table of three rows has runs at both ends and in the middle, disorder between
neighbours and between distant rows, odd and even bisection intervals, and a
cycle of two types with a row left over; a permutation of three rows need not be
its own inverse, so a `*Ptr` table applied twice shows; two
sections have a predecessor to overlap and a chain to continue; two handlers
are all a pairwise check looks at; four instructions hold two prefixes, a
target and something after it; three tables hold one that is clamped, one
before and one after; seven bytes reach the recursion limit of 2 with a count, an
item and a sibling left, and hold a PINNED inside and one behind another; three
streams hold a duplicate and something between. `CHECK_DEADLOCK FALSE` is set where
the modelled function returns and nothing remains to do.

**Fairness.** The code is sequential and blocks on nothing, so a loop that can
take another iteration takes it: weak fairness of the steps of the running
function (`Step`, or all of `Next` where the client is a loop that reads to the
end, and in `SignatureParser`, which is one call). Callers need never call again:
starting a lookup is not fair.

### What the violated runs show

- `table_stream_clamp`. After the first table that does not fit,
  `tables/mod.rs:262` sends every later non-empty table through the clamp, and
  the clamped count (`tables/mod.rs:271-275`) is whatever still fits, not the
  smaller of that and the stated count. TLC shows a table stated to have one
  row that ends with two. The rows exist and overlap nothing
  (`RowsInStream`, `TablesDisjoint` hold), a diagnostic was pushed, but
  `row_count` is more than the stream says.
- `metadata_root_cut`. `metadata.rs:122-123` says a truncated directory ends the
  list rather than the parse. When the cut falls between the NUL of a stream's
  name and the end of its padding, the seek at `metadata.rs:158` fails the whole
  permissive parse, and the streams already found are lost.

Other places where a comment says more than the code does, met while modelling
and not worth a run each:

- `body.rs:7-8` promises that `parse` succeeds as soon as header and code are
  readable; a clause of undefined kind or a section header cut short fails it
  (`body.rs:454`, `body.rs:381-392`).
- `lib.rs:33-34` says permissive parsing records each deviation; a section table
  cut off by the end of the file is shortened silently (`pe.rs:275`), and so is a
  stream directory (`metadata.rs:125-136`).
- `signature.rs:193-195` calls a sentinel anywhere but in a vararg call site an
  error; `signature.rs:856-862` accepts it whatever the calling convention.
- `signature.rs:6-8` calls a nested `PINNED` an error. `local_var` reads the `PINNED`
  of a local itself without setting `pinned_seen` (`signature.rs:804-808`) and then
  rejects only a type that is itself `PINNED` (`signature.rs:816`), so the local
  signature `07 01 45 0F 45 08` (`PINNED PTR PINNED I4`) is accepted.
  `NestedPinnedRejected` is therefore about a `PINNED` read as a type: it is rejected
  exactly inside the type of another one. That none is accepted inside a pinned local
  either does not hold of the code; `PinLocal` and `CheckLocal` have it as it is.
- `signature.rs:6-8` also calls a missing sentinel an error; nothing requires one, and
  a vararg signature without it is accepted (`signature.rs:855-868`).
- `tables/lookup.rs:123-124` says `sort_key_for` is `None` when the table cannot be
  keyed by that token; for a table keyed by a RID it is the token's RID, whatever
  table the token is of (`tables/lookup.rs:128`). `ParentLookup` has it as it is.
- `tables/coded.rs:121` decodes a coded index to a token; a RID of 2^24 or more is
  truncated there (`token.rs:250-254`), so such a row decodes to a token whose
  `rows_for_parent` does not list it. `CallsExact` is stated up to these rows.
- `il/mod.rs:285-290` says `canonical` leaves "roughly 100" operations; it leaves 176.
- `display.rs:6` prints types "in ILAsm style", but an array of one dimension without
  bounds like a vector of its elements (`ShapesToldApart`). And `MAX_DEPTH` bounds how
  deep a name goes, not how often it branches: a `TypeSpec` that names others twice
  is written out once per path.
- `signature.rs:324` says a parameter's type is `Void` only on a return type;
  `param` (`signature.rs:779-789`) builds one for any parameter.

## What is proved

Every invariant, action property and refinement of the passing runs is a theorem, for every
value of the constants that the `ASSUME` of its module allows. A proof goes through
one inductive invariant (`Inv`; `ValidateInv` for the exception tables and `RootInv`
for the metadata root) with `Init => Inv` and `Inv /\ [Next]_vars => Inv'`, one case
per action; the property follows from it. Where one component extends another, and
for the two pairs read from the same bytes (the instructions and the exception table
of a method, the metadata root and its heaps), the theorems share a module; each
component keeps its own specification and invariant there.

- `ParentLookupProofs`, on `SortedLookup`: the type invariant, `SortedBitExact`,
  `ProbesInTable`, `LookupComplete`, `DisorderHandled` and the refinement of
  `KeyIndex`. The properties are not inductive alone: the invariant adds that the
  rows before `rid` ascend while verifying, that every row left of `lo` is below the
  key and every row from `hi` on is not while searching, and that `out` lists
  exactly the matches among the rows already visited. On `ParentLookup`: `ParentSpec
  => Spec`, so all of that holds of the lookups the calls make;
  `EncodeInvertsDecode`: of the raw keys a token can carry, only a token's encoding
  decodes to it; with it and `LookupComplete`, `CallsExact` for tables of any size,
  any coded kind and token; and `NameFollowsNesting` for every `NestedClass` table.
  The invariant adds that the key searched for is the argument's, that the rows
  looped over by `nested_types` have been taken, and that a name has one part for
  each round made.
- `MemberRowsProofs`, on `ListOwner`: the type invariant, `BisectionInTable`, `OwnerExact`,
  `BisectionSuffices`, `RangeIsLogical`. The invariant adds that `candidate` is the
  last probed owner at or before the member and what that means for the columns on
  both sides of the bounds when they ascend, and that the scan has passed no owner
  of the member. On `MemberRows`: `MemberSpec => Spec`; `WalksStayInside` and
  `MembersPartition` for tables of any size. The invariant says how far a walk has
  come: the physical rows read are the images of the logical ones behind it, and
  ranges of successive owners meet.
- `TableStreamProofs`: all five safety properties for every schema of at most nine
  columns per table, every stream and every stated count. `Inv` describes how far
  the two nested layout loops have come (columns before `column` tile the first
  `offset` bytes), where placed tables lie relative to `cursor`, and that row counts
  equal stated counts as long as no clamp was diagnosed.
- `MethodCodeProofs`, on `InstructionStream`: `BoundaryExact`, `PrefixesAreTheirs`
  and the refinement of `ForwardScan`, for every code of any length and opcodes. Its
  invariant has four parts. `Steady`: the iterator stands in front of an
  instruction, at the end, or is fused, and everything it has passed decodes.
  `Asked`: the walk has not passed the offset asked about. `Folding`: the prefixes
  pending are the opcodes between `first_offset` and `offset`, each there once; that
  they are a set loses nothing, because `apply_prefix` rejects a repetition.
  `GivenSoFar`: the items are instructions with the prefixes in front of them, an
  error is the last of them, and, unless the iterator has wrapped, they account for
  every byte up to the pending prefixes, which is what the refinement needs. On
  `HandlerTable`: `AcceptedIsSound` and `RejectedIsFaulty` for any number of
  handlers. Three lemmas relate the arithmetic to sets of offsets: `AloneIsSound`,
  `OverlapIsNoNesting`, and `SaturationIsHarmless`, which is why comparing with a
  handler not yet validated never invents an overlap.
- `MethodBodyProofs`: `ClausesApart` for every body, intact or not: what has been
  read ends at or before where the next clause or section begins, and nothing in the
  chain moves back. `ClausesRecovered` for every intact body: a second invariant,
  `Recovering`, keeps the parser at one of the writer's chunks with exactly the
  clauses before it read. It rests on `SizeIsRecovered`: whether a `DataSize` has
  the header in it or not, the arithmetic of `parse_sections` finds the size that
  was written, because four less than whole clauses are never whole clauses.
- `PeImageProofs`: `TranslationBacked`, `SlicesAreMapped`, `RegionInFile`, and that
  every section kept has its raw range in the file (`SectionsInFile`), for every
  file and section table, with overlapping sections and ranges up to `MaxRva`. The
  state machine only fills the table; the work is in the pure functions, which all
  take the first section that maps an RVA. `LeastNumber` gives that there is one.
- `SignatureParserProofs`: `DepthIsNesting`, `EveryItemTakesAByte`,
  `SentinelSplits` and `NestedPinnedRejected`, for every blob, entry point and
  recursion limit. A step replaces the innermost goal by those of the call it enters
  (`Replaces`). Three conditions on the new goals are shown of each action and shown
  to be enough once: frames are added or removed one at a time and `depth` with them
  (`Balanced`); what does not take a byte leaves a goal that will (`Feeding`); an
  `unpin` goal is added only where the flag was clear, together with the frame of the
  PINNED type, and taken only by resetting it (`Pinning`). `Inv` says the same of the
  whole agenda; `PinsPaired`, that an `unpin` goal stands directly before its frame,
  is what ties the flag to the PINNED types under way.
- `MetadataProofs`, on `MetadataRoot`: `ListIsLongestPrefix`, `FirstNameWins`,
  `StrictIsConforming` and `DataIsStatedOrReported`, for directories of any length
  and regions that end anywhere. Where entry *n* stands is a recursive function;
  that it satisfies its own equation (`EntryAtFollows`) is shown first, by existence
  and uniqueness of its approximations. `RootInv` then says that the reader stands
  at entry `Len(streams) + 1` or at the end of the region, whichever is lower; that
  streams are as their entries state, a name cut off only at the end; that heaps and
  tables are the first of their names among the streams seen, and every other is
  reported; and what a strict parse has let pass. On `HeapScan`:
  `IterationAgrees` (with its parts) and the refinement of `ForwardScan` for
  every heap, `SignedIsRotated` for all three widths and any `Radix` the assumption
  allows, `WrittenIsRead` for every intact heap. Iterators and random access are
  related entry by entry (`Found`); a `#Strings` iterator has covered every byte
  behind it; the invariant of an intact heap (`Recovering`) is that the position is
  where the writer put the next entry.

`TypeOK`, `ProbesInTable`, `LookupComplete`, `BisectionInTable`, `RangeIsLogical`,
`SectionsInFile`, `DataIsStatedOrReported` and `EntryAtFollows`
are theorems and appear in no run of their own: the runs check the properties that
imply or need them.

**Assumptions.** The `ASSUME`s are types and shapes, and hold of anything a file can
contain, with these exceptions. Row counts are below `MaxU32` and an instruction is
smaller than `OffsetLimit` (see the modules). A code's map is that of a linear
decode (`CodesAssumption`): entries do not overlap and one follows another. An
image's section table has at least the entries that are read. A body or a heap
marked `intact` is as its writer laid it out (`Intact`: chunks or entries in order,
each where the previous one ends); only `ClausesRecovered` and `WrittenIsRead` use
that, and no action looks at the writer's layout, `chain` and `starts`.

**Only model-checked.** Liveness (`CallsReturn`, `OwnerTerminates`, `ReadingEnds`,
both `ParseEnds`), which needs fairness and `ENABLED`, out of the prover's reach.
The assumptions of `RowSchema` and `OpcodeTable` are facts about fixed data and are
evaluated, not proved; so are those of `Names`, whose functions are recursive.
Nothing is proved by an induction rule over an operator, which the provers cannot
instantiate: where a proof needs one, it takes a least counterexample
(`LeastNumber`) or the induction is the invariant's.

## What is not modelled, and the plan

Not modelled: error types, the byte cursor (its moves are guards of the models
that read), `RowCursor` and the typed rows (they read the columns `RowSchema` lists,
in order), the spelling of names, tests, fuzzing and tools. Values that steer
nothing (`max_stack`, versions, branch targets) are left out of the models. `usize`
overflow in reader arithmetic is out: positions are bounded by the input's length.

`PeImage`, `MetadataRoot` and `TableStream` are not composed into one machine: what
one hands to the next is a byte range (`RegionInFile`, then the stream lengths
`MetadataRoot` clamps to it, then the stream length `TableStream` takes as a
constant), and their product would repeat the three runs at a multiple of
their size without a step of one that another can disturb.

Next:

1. Three hazards have no property: a clause that fails the body (`body.rs:454`),
   a section table shortened in silence (`pe.rs:275`), and how much is reserved for
   the targets of a switch (`il/mod.rs:537`). The first two, like the PINNED of a
   local, are what the code does against what a comment says, listed above.
2. Theorems across components: what `Locate` hands to the metadata root, and the
   root to the table stream, as a statement about the ranges they share.
3. That what is rejected is faulty, which `RejectedIsFaulty` says of exception
   tables, for the PE container and the metadata root.
