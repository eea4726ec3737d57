# pos2-chip: a TLA+ verification project

pos2-chip is a proof of space: a *plotter* builds three tables out of `2^k` hashed
x values and keeps the last one as a sorted list of proof fragments in a file; a
*prover* reads the fragments a challenge selects and searches them for *quality
chains*; a *solver* recovers the x values behind a chain; a *validator* accepts or
refuses what they return. This directory holds TLA+ models of the parts of it whose
correctness depends on order, on shared memory or on boundaries, TLC runs that check
them on small instances, and proofs that TLAPS checks for every instance.

Paths below are relative to `src/` and, unless they start with `crates/`, to
`src/src/`.

## 1. Inventory

| Component | State it keeps | Operations | Where |
|---|---|---|---|
| Table construction | candidate spans of a group, thread ranges, the shared output cursor, the output span | `construct` of tables 1–3, `find_candidates_prefixes`, `make_splits_simple`, `find_pairs_into`, `handle_pair_into` | `plot/TableConstructorGeneric.hpp`, `common/ParallelForRange.hpp` |
| Radix sort | two buffers that take turns, one count table per thread | `RadixSort::sort`, `ParallelRadixSort::sortByKey` | `plot/RadixSort.hpp`, `solve/ParallelRadixSort.hpp` |
| Plot memory layout | one buffer of 32 blocks, reused by every phase | `xs()`, `t1()`, `t2()`, `t3()` | `plot/PlotLayout.hpp` |
| Plotting pipeline | the table just built and where it lies | `Plotter::run` | `plot/Plotter.hpp` |
| Chain search, validation | the explicit search stack, running hashes | `find_links`, `passes_fast_filter`, `validate`, `selectChallengeSets` | `pos/Chainer.hpp`, `pos/ProofCore.hpp` |
| Provers | fragments read, chains found | `Prover::prove`, `GroupProver::prove` | `prove/Prover.hpp` |
| Plot group file | header, chunk index, chunk bodies of bit fields | `writeData`, `readChunk`, `readProofsInRange` | `plot/PlotFile.hpp`, `common/Utils.hpp`, `common/BitReader.hpp` |
| Single plot file | header cache, chunk offsets | `writeData`, `readData`, `getProofFragmentsInRange` | `plot/PlotFile.hpp`, `plot/ChunkCompression.hpp` |
| Chunk index coding (gsz) | none | encode and decode the sizes of the chunks | `plot/ChunkCompression.hpp` |
| Solver | candidate lists per table, filled by threads, one atomic counter, one mutex | `solve`: hash, filter, sort, match tables 1 to 3, multiply out | `solve/Solver.hpp` |
| Proof validator | none | `validate_full_proof`, the fragment codec and its cipher | `pos/ProofValidator.hpp`, `pos/ProofFragment.hpp`, `pos/FeistelCipher.hpp` |
| Arenas | a bump pointer, marks | allocate, rewind, deallocate | `plot/LayoutPlanner.hpp` |
| Progress | atomics for state, table and fraction, polled by other threads | `on_event`, `snapshot` | `plot/Progress.hpp` |
| C and Rust interface | caller's buffers | pass-through; a two-pass buffer protocol | `api.cpp`, `crates/chik-pos2/src/lib.rs` |
| Parameters and hashing | none | pure functions | `pos/ProofParams.hpp`, `pos/ProofHashing.hpp`, ... |
| Tools; entropy coder | none | command lines; vendored FSE | `tools/`, `src/lib/fse` |

**Interaction.** `Plotter::run` asks `PlotLayout` for the spans of a phase, gives them
to a table constructor, and each constructor ends with a `RadixSort` between the
output span and the sort buffer; the returned span tells where the result is.
Constructors and sorts start threads through `parallel_for_range`, which joins all of
them before it returns; threads share the output span and its atomic cursor, or a
buffer without locks. Progress sinks are callbacks that can cancel: a *begin* event
returns whether to go on. The plot's fragments go to a file; a prover reads ranges of
it, and `Chainer` searches. `Chainer::validate` and the searching code are written
separately and have to agree.

**Hard behaviours.** Threads that append through one counter and must not throw;
unlocked writes to computed positions; a run of equal keys cut between two threads;
memory that is used again while part of it is still needed; two buffers that swap
roles; cancellation in the middle of a pipeline that goes on with empty data; bit
fields that straddle machine words; a search and a check that are written twice; files
whose header is patched after the body was written. `PROJECT.json` lists these
hazards line by line, each with the properties that would catch it or the reason why
none does yet.

**What makes each component correct**

* Table construction: every matching pair of the previous table is stored exactly
  once, or the table is refused because they do not fit, or cancelled.
* Radix sort: the result is the input, sorted stably by the masked key, and its
  threads never write the same place.
* Layout and pipeline: nothing is overwritten before its last read.
* Chain search: exactly the chains the validator accepts, each once.
* Plot group file: what is read is what was written, per plot and per range.
* Plot files on disk: a reader never returns a chunk that was not written, wherever
  the writer stopped, and finds every chunk of a complete file.
* Solver: the full proofs it finds are exactly those that exist, and the one it returns
  is accepted by the validator.
* Codecs (chunks of a plot file, chunk index, compact proofs): what is decoded is what
  was encoded, and only what the code means to refuse is refused.
* Buffers across the C interface: an answer shows nothing that was not written, and
  nothing of a file that is gone.
* Minor scratch: every group gives back what it took.
* Progress: a poll is never ahead of the run, what was stored last is what the run is
  doing, and the bar does not go back.

## 2. Modules

### TableMatch, TableSpec, TableBuild (table construction)

`TableMatch` has the pure part: what matches (`IsMatch`, `Matches`, from
`validate_match_info_pairing` and `pairing_t1..3`), how the candidates of a group are
found in the previous table (`CandidatePrefixes`), how the hashed left candidates are
sorted (`StableSort`), and how `make_splits_simple` gives ranges to threads
(`LeftSplits` moves a cut back to the first entry of its run of equal targets,
`RightSplits` finds the same cut on the right side by a lower bound). Hashes are the
constant functions `TargetOf` and `Pairable`.

`TableBuild` is `construct` with its threads. The coordinator is `phase`, the left
section `sl`, the match key `mk`, the spans `lc` and `rc` and the ranges `rng`:
`BeginTable`, `BeginSection` (with cancellation), `SkipGroup`, `BeginGroup` (start
threads), `JoinGroup`, `EndSection`, `Finish` (overflow check, sort or throw). Each
worker has a program counter and its two indices: `Advance`, `EnterRun` and `Exhaust`
are the branches of the merge loop in `find_pairs_into`; `Filter` rejects a pairing,
`Reserve` is the `fetch_add` on the cursor, `Store` the write after it, as two
actions, so that other threads come between; `LeaveRun` ends a run of equal targets on
the right. `reserved` is a history variable: what each slot was reserved for.

`TableSpec` is the promise: pairings are collected one at a time, only matching ones
and none twice, and the table ends complete, refused (too many) or abandoned.
`TableBuild` implements it by `wanted <- Matches(prev)`, `pairs <- Range(reserved)`,
and `status` from `phase`.

### RadixSort

One model for `RadixSort::sort` and `ParallelRadixSort::sortByKey`, which differ in
how many bits the last pass masks (`lastRadix`). `src` says which buffer is the
source; a pass counts digits per thread (`StartCount`, `Count`, one item per step),
the joined counts become offsets (`MergeCounts`, `PrefixOffset`), every thread moves its
items to the other buffer (`Move`, one item per step), and `EndPass` swaps. An item
carries its origin (`from`), which is how stability is stated. Two forms are chosen for
the proofs: `Weight` is a function, and the prefix sum is the size of a set of counted
items (`SumOfCounts`), so that no recursive operator is needed.

### PlotLayout, Plotter

`PlotLayout` is the table of blocks of `plot/PlotLayout.hpp` with its numbers: 32
blocks, where each table's output, sort buffer and scratch begin, entries of 2, 3, 4
and 2 words. `Plotter` is `Plotter::run` over a memory in which each word carries the
name of the last write, so a stale or destroyed read is visible. Section pairs and
match keys are steps, but the threads of a group are not (`TableBuild` has them):
`HashLeft` writes the scratch (and throws when two copies and the split arrays behind
them, `SplitNeeds`, do not fit, as the arena does: a section of exactly the maximum throws
when more than one thread searches), `FindPairs` appends any number of pairings, `Sort` leaves the result in the
buffer that the parity of the passes says, `Place` is the copy out of the output place
between two tables, and every `begin` event whose answer the code looks at may cancel. `minor` is the bump pointer of the
minor scratch: a table's prefix counts are allocated at its begin, every group takes a
marker, its sort allocates, and the group's end rewinds (`EndGroup`); a sort that does
not fit throws (`HashLeft`, `SortThrows`).

`PlotterRun` composes `Plotter` with its progress sink: each step is the `Plotter` step
and what it does to the scopes. `scopes` is the stack of open `ScopedEvent`s; `Scoped`
leaves some, enters others, and leaves again, by a return or an exception alike
(`Entering`, `Leaving` send the events).
`fraction`, `state` and `shown` are what `AtomicProgressSink` holds. `Manners` says
which begin events a sink refuses that `run` does not ask about.
An event makes several relaxed stores and a poll from another thread three loads, so a
poll is no step: `past` keeps the fields after every event so far, those within one step
(`Passed`) included, and each load of a poll may return any store of its field
(`Loads`). No event stores a field twice, so `past` has every value a field ever had. This takes the fields apart completely; it
leaves out, and `SnapshotTrue` does not need, that successive loads of one field by one
thread do not go back in its stores.

### Chainer, Qualities

One behaviour is one call of `GroupProver::prove`, or of `Prover::prove` with
`Grouped = FALSE`. `FragmentList` reads the selected ranges as the file class does
(`GroupFileRead` uses the inclusive `isInRange`, `PlotFileRead` the comparison of
`getProofFragmentsInRange`); `Kept` is the elements of a list at chosen positions, in
order. `SeedSet`, `RecordChain` and `ExtendChain` are the loops of `find_links` over its
explicit stack (`Pushed` is what one turn pushes: the `Entry` of each fragment whose
`Mixed` hash passes the filter), `NextPlot` goes to the next plot of the group.
`Validates` is `Chainer::validate`, with the starting sets it recovers from the first
fragment (`StartSets`) and its recomputation of the hashes. The chain hash is a
constant function, the round keys and the challenge's set choices are constants.

`Qualities` puts the search behind the library's border: `get_qualities_for_challenge`
of the Rust crate guesses a capacity, `CallReturns` is `qualities_for_challenge` of
`api.cpp` (copies what fits, reports all), `Retry` grows the buffer and asks again, of
a file that may have been replaced or removed meanwhile, `Accept` sets the length of
the answer. A place of the buffer that nothing was written to holds `Garbage`.

### Feistel, ProofValidator

Pure modules. `Feistel` is the cipher (`feistel_round`, `Encrypt`, `Decrypt`) over two
halves of `K` bits, with exclusive or and round keys as constants. `ProofValidator`
has the matching rules (`InfosMatch`, `Pairs`), `validate_table_1_pair` to
`validate_full_proof` and the fragment codec. The metadata that the code hashes, k or
2k bits of it, stands for the x values below it, and is modelled by their tuple.

### Solver

One behaviour is one `solve` of a quality string. `HashX1` hashes the wanted ranges
under each match key and sorts; `FilterChunk` is one thread of `filterX2Candidates`
(a part that fills is a failure, even exactly; `HitsOf` walks the ring of hashes taken
`PrefetchDist` values ahead); `JoinFilter` throws or compacts, sorts
and finds the sections (`SectionBound`, the probing loops of
`computeSectionBoundaries`). In table 1 each thread joins sections: `EnterSection`,
`Scan`, `PairUp` (takes a slot by `fetch_add`; a slot too many ends the process),
`Store`, `EndRun`. In table 2 the groups come one after the other, threads do one left
entry per step and append under the mutex (`MatchLeft`, with the reduced-hash `Bucket`).
`MatchT3` and `Construct` are sequential. `SortedOrders` leaves open how `std::sort`
orders equals. Lists are written in closed form where the proofs speak of them: the
entries of a list with an index of a set (`Those`, `InOrder`), the place of an entry in a
sorted list by how many come before it (`SortedByHash`), the product of two groups by
quotient and remainder.

### BitFields, ChunkCodec (plot group file)

`BitFields` is `BitWriter` and `BitReader` (`ReadBits`, `ReadUnary`, their refusals) at
a width that is a constant. `ChunkCodec` writes one chunk of a group, delta by delta
(`SkipRepeat`, `EncodeDelta`, `EndEncode`), and reads it back, field by field
(`LoadField`, `TakeLowBits`, `TakeUnary`, `EndDecode`), then places the fragments into
plots (`Place`, `EndPlace`). The entropy coder is external: it gives back what it was
given, in as many bytes or one more (`CompressedSizes`), and no result for one or two
fragments, upon which the writer throws (`EndEncode`, `Throw`). The code base
writes groups of one plot only but reads any: for several plots the writer stacks them
the way `readChunk` unpacks them.

### Codecs (plot file chunks, chunk index, compact proofs)

Three encodings as jobs, each written value by value and read back. `"stub"`:
`ChunkCompressor` splits deltas into a byte for the entropy coder and a stub that
`PackStub`/`UnpackStub` put into a byte stream. `"sizes"`: `gsz_encode`/`gsz_decode`,
sign, remainder and unary quotient of a chunk size against the expected one.
`"proof"`: `compact_bits`/`expand_bits` of the Rust crate, one turn of the inner loop a
step; the proof that is expanded comes from outside (`Receive`): as sent, with its
padding set, or without its last byte.

### PlotFiles (both file classes)

The file is measured in parts: `size` of them are on disk, `indexAt` is the group
header's `chunk_index_offset`, `table` the offset table of a single plot; 0 is the
placeholder in both. The writer (`WriteHeader`, `WritePlaceholder`, `WriteBody`,
`PatchHeader`, `WriteIndexPart`, `PatchOffset`) may stop between any two parts, by an
exception, a full disk or the end of its process. A reader may come at any time:
`OpenGroupFile` keeps what it saw in `info`, `ReadHeader` and `ReadOffsets` fill the
cached `offsets`, `ReadBody` reads at the cached offset, and an object whose stream
has failed stays so (`failed`). `late` is a history variable: was the file complete
when the object was made? A part is read whole or as garbage; what is in it belongs to
`ChunkCodec` and gsz. A name is written once: nothing in the code base writes a
plot over another one.

## 3. Runs

| Run | What it asks | Bounds |
|---|---|---|
| `table_build` | types, the slot protocol, a dense output, each match exactly once, no slot overwritten, the refinement of `TableSpec`, termination | 3 threads, 2 match keys, 3 targets, up to 4 left × 4 right candidates in a group, an empty table; tables with fewer, exactly and more than 7 pairings for 7 slots |
| `radix_sort` | no two writers of a place, stability pass by pass, the result | 3 threads, 2 passes of base 3, last pass 3 or 2 digits, 0 to 5 items |
| `plotter` | live input, live scratch, readable results, empty after cancellation, scratch given back, polls that are never ahead and end true, a bar that advances, end | 4 sections of 2 or 3 entries, 2 match keys, three rows of pass counts, cancellation anywhere, sinks that refuse events, loads of any store of a field, splits of a group that take no word or one, a minor scratch of 7 that one sort exceeds |
| `qualities` | the search's chains = the validator's, without repetition; an exact answer over the retry; it returns | 32 fragments in 8 ranges, 2 sets, chains of 4, groups of 1 and 2 plots, 8 challenges; capacity 11 or 12, which challenges leave, fill and exceed |
| `chunk_codec` | read = written, in step, nothing refused | 16-bit fields, 2 low bits, chunks of 64 values, 1 to 3 plots |
| `codecs` | read = written; a proof's bits are what is expanded; refusals only for the code's reasons | 4-bit bytes, 16-bit words and fields, up to 3 values (6 for chunks) at both ends of each width |
| `solver` | table 1's matches each once; the proofs exactly those that exist; the answer validates | 16 x values, 4 sections, 2 match keys, 2 threads, two fragments; calls with no, one and two proofs per fragment, a full part, a match too many |
| `plot_files` | only what was written is returned; a complete file is readable | both classes, 3 chunks, an index in 2 pieces |
| `range_end`, `sparse_chunk`, `open_unfinished`, `section_bounds` | the findings below | |

**Why the bounds are enough.** *Tables*: a cut between threads matters only relative to
runs of equal targets; with three targets and four candidates, all sorted sequences
of length 3 and 4 are tried, so every cut falls before, inside and after a run on
either side, ranges are empty or not, and there are fewer candidates than threads.
Three threads compete for the last slots, which some inputs leave free, some fill
exactly and some exceed. Later groups check that the cursor carries over. *Radix sort*: 0, 1, 2, 4 and 5 items on 3 threads give empty,
equal and longer last chunks; keys agree and differ in each digit, and one has bits
above the narrow last mask. *Plotter*: the layout is proportional to
`max_section_pairs`, so three entries per section already meet every block edge; four
yields per pair overflow. The minor scratch of 7 holds the prefix counts and a group's
sort, and the sorts of small k, but not the longest one. *Chains*: the hash passes about a quarter of the links, so
chains die at every depth and some survive; fragments repeat and end their ranges. A file that is replaced between the two passes
has more, as many or fewer chains. *Solver*: every x value is in one of four ranges, so
two fragments share ranges and every call reads a group more than once; the threads'
share of 16 values in granules of 3 leaves the last one more; parts, slots and buckets
are met empty, half full and full. *Other codecs*: widths below, at and above that of a byte, and
values at both ends of each, put every cut where it can fall.
*Codec*: fragments are on both sides of the first two thresholds and at both ends;
with 16-bit fields each delta takes 3 to 8 or more bits and straddles fields. *Files*:
three chunks have a first, a middle and a last; two index pieces can be cut short.

**Bounds by name.** `Capacity`, `Threads`, `MatchKeys`, `Targets`, `Metas`
(TableBuild); `Threads`, `Radix`, `Passes`, `LastRadixes` (RadixSort); `MaxSection`,
`SectionSizes`, `Yields`, `NumXs`, `MinorSize`, `PrefixNeed`, `ThreadCounters`,
`LeftPasses` (Plotter); `AllocShare`, `Manners` (PlotterRun); `Links`, `NumSets`,
`NumRanges`, `RangeSize`, `Words` (Chainer); `MinRoom`, `RoomPerPlot` (Qualities);
`K`, `HalfXs`, `Threads`, `Granule`, `PrefetchDist`, `MaxPerThread`, `MaxMatches`, `Coarse`, `Reduce`,
`Asked` (Solver); `FieldBits`, `LowBits`, `RangePerChunk` (ChunkCodec); `ByteBits`,
`WordBits`, `FieldBits`, `Jobs` (Codecs); `Chunks`, `IndexParts` (PlotFiles).
No counter needs a bound besides these: all of them are bounded by their loops.

**Assumptions on data.** The plotter run takes sections between two thirds of the
maximum and the maximum, because the layout is dimensioned for the almost even sections that the
hash gives. With sections down to one third of it, TLC finds input overwritten before
it is read (`LiveInput`); the code compares only the total number of pairings, at the
end of a table. It is a hazard in `PROJECT.json`. The solver run likewise takes calls
whose sections its probing finds; `section_bounds` is one whose sections it does not.
The sizes of the minor scratch are in units of about 4 KB, the counts of one pass: the
code's 2 MB and 8 KB per thread are scaled so that one sort does not fit. Asserts are
taken to be compiled in.

**Fairness.** `TableBuild` assumes weak fairness of the coordinator and of each
worker: `parallel_for_range` joins real threads, which the operating system runs, and no
worker waits for another. In `PlotterRun` and `Qualities` weak fairness of the whole
step says only that the calling thread goes on. `RadixSort`, `ChunkCodec`, `Codecs` and `Solver`
state no fairness: in each of them every step brings the call forward, and no state is
met twice on the way, so the absence of deadlock already shows that calls end.
`PlotFiles` has none either: a writer may stop for good. No liveness property rests on strong fairness, nor on a
choice being made: cancellation is never assumed to come or to stay away.

**Deadlock** is checked in every run: a finished call stutters explicitly, and a file can always
be read again.

## 4. What is proved

Eight modules hold proofs: `ExtremaLemmas` (the extrema of sets of naturals and
pairs), `TableBuildProofs` (splits and candidates, the threaded construction, and that it
finds everything), `RadixSortProofs`, `PlotterProofs` (the run in
shared memory, and what its sink shows), `QualitiesProofs` (the chain search, and the
harvester's question on top of it), `PlotFilesProofs`, `SolverProofs` (the cipher, the
fragment codec, and that what the solver returns is right) and `SolverCompleteProofs`
(that it finds everything, once), which rests on it.

**Table construction**

* `SplitsCoverOnce`: for sorted left and right candidates and any number of threads, the ranges
  that `make_splits_simple` hands out cover every pair of positions with equal targets
  exactly once, lie within the spans, and are no more than the threads. It rests on
  `LeftSplitsCut` (cuts begin runs), `RunStartBegins` and `RightSplitLowerBound` (the
  binary search's result is the lower bound of the cut's target).
* `TypeCorrect`, `SlotsProtected`, `OutputDense`: `Spec => []TypeOK`,
  `[]SlotProtocol`, `[]DenseOutput`, for any number of threads, any capacity, any
  sorted previous tables; and `NothingOverwritten`: `Spec => StoredOnce`.
* `EveryMatchFound`: `Spec => []EveryMatchOnce`: a finished table holds each pairing of
  its predecessor once, whatever the threads do; and `BuildRefinesTableSpec`:
  `Spec => ImplementsTableSpec`.

**Sorting**

* `Sorts` and `WritesApart`: `[]SortedResult` and `[]PlacesApart`, for any number of
  threads, any radix, any number of passes and any keys.

**Plotting**

* `SortedTablesKept`, `CandidatesKept`: `[]ResultKept` and `[]LeftCopyKept`, for every
  section size, alignment, number of passes and scratch. Nothing is asked of how evenly
  the sections are filled: a table that does not fit its place throws before it is sorted.
* `InputKept`: `[]LiveInput`, *if sections are filled evenly*. Table 2 is the one that needs
  it: its output of four words an entry takes sixteen blocks, and its input begins at block
  14. `Even` is what the walk then asks: a section has at least two thirds of `MaxSection`,
  so section 0 covers the two blocks that are overwritten, and a pair of sections puts out at
  most 7/4 of `MaxSection`, so the output gets there only in the last two pairs, which no
  longer read section 0. The other tables need no evenness.
* `CancelledIsEmpty`, `GroupsReturnScratch`: `[]CancelledMeansEmpty`, `[]ScratchReturned`.
* `SinkOnlyWatches`: a run with a sink is a run of `Plotter`, whatever the sink refuses; with
  it the results above are of `RunSpec`. `RunTypes`, `PollsTellTruth` and `BarOnlyAdvances`:
  `[]RunTypeOK`, `[]SnapshotTrue` and `BarAdvances`, for any sink in `Manners`.

**Searching and answering**

* `ProversSound`: `Spec => []FoundValidates`: each chain recorded is one that the
  validator, which knows neither starting set nor hash, accepts. It holds for both
  file classes, for `ValidatorAgrees` over both passes of a question too.
* `NoChainMissed`, `NoChainRepeated`: the search of a plot group records every chain of
  the plots' fragments that the validator accepts, and none twice. Both have the
  hypothesis `Grouped`: the single plot file does miss chains (finding 1), and reads
  equal fragments as often as they are stored.
* `AnswersExactly`: the vector that the harvester gets holds these chains, none twice and
  no memory that was not written, whatever capacity was guessed, and is complete unless
  the file was replaced meanwhile. Again for plot groups.

**Files**

* `NothingElseReturned`, `CompleteCanBeRead`: `[]OnlyWrittenChunks` and
  `[]CompleteReadable` for any number of chunks and index parts.

**Cipher and fragments**

* `DecryptInvertsEncrypt`, `EncryptInvertsDecrypt`: for every plot, every width and every
  block, decrypting gives back what was encrypted, and the other way round.
  `BackUndoesForward` is the reason (and `ForwardUndoesBack`):
  a round leaves one half as it is, the word mixed in depends on that half only, and
  the exclusive or takes it out again. That everything stays within `K` bits is
  `MixedStays`.
* `FragmentKeepsBits`: the solver reads from a fragment exactly the upper halves of x1,
  x3, x5 and x7 that it was made from, in their order. This is why `HashX1` hashes
  the right ranges; it holds for even k only, and the code refuses an odd one
  (`api.cpp:142`).
* `FragmentOfBits`: x values whose upper halves are those encode to the fragment.

**Solving**

* `AnswersValidate`: `Spec => []AnswerValidates`: the full proof a caller gets for a chain
  of the plot is one the validator accepts, and its quality string is the one asked for.
  It holds for any hashes, filters and parameters, however the threads interleave and
  however `std::sort` orders equals; also where sections are not found (finding 4),
  which costs proofs but makes no false ones.
* `SolverTypes`: `Spec => []TypeOK`, with the limits of a thread's part and of table 1.
* `SlotsStoredOnce`, `SlotsWithoutGaps`: of the slots that table 1's threads take from one
  counter, none is stored twice, and none is empty when the threads have been joined.
* `CandidatesComplete`: the lists that table 1 joins are sorted and hold every candidate of
  the wanted ranges once, however many threads fill their parts in whatever order.
* `SectionsFound`: the comment on `computeSectionBoundaries` (finding 4) is true of exactly
  the searches in which no section of several entries begins before the place at which
  the probing starts (`SectionsReached`, a condition on the two lists alone).
* `MatchesFoundOnce`: `Spec /\ []BoundsFindSections => []MatchesOnce`, and
  `ProofsFoundOnce`: `Spec /\ []BoundsFindSections => []ProofsExact`: where the sections are
  divided right, table 1 has every pair of the wanted ranges once, and the search returns
  every full proof that exists for the quality string once, and nothing else. No more
  is assumed of hashes, filters, numbers of threads or their interleaving. The hypothesis
  is needed, since the code has finding 4; it is an invariant of the instance of the run
  `solver`. `MatchesFoundIfReached` and `ProofsFoundIfReached` put `SectionsReached` in its
  place.

**The argument of the slots of table construction.** `SlotProtocol` is not inductive by itself: that a held slot is
reserved for its holder's *candidate* needs the candidate to be an entry of the spans,
and so needs the worker's indices to lie within its range while it holds one. The
inductive invariant is `IInv == TypeOK /\ GroupInv /\ WorkerInv /\ SlotProtocol`:
`GroupInv` says that inside a group the spans are sorted sequences of candidates and
the ranges lie within them (from `SplitsCoverOnce` and the lemmas on
`StableSort` and `CandidatePrefixes`); `WorkerInv` that workers run only then and
inside their ranges. `InitInv` and one lemma per conjunct (`TypeStep`, `GroupStep`,
`WorkerStep`, `SlotStep`) give `Invariance`. The only steps that touch the protocol are
`Reserve` (`ReserveKeepsProtocol`: the new slot is above every held one) and `Store`
(`StoreKeepsProtocol`: the holder's slot is no one else's).
`OutputDense` follows because no worker is storing outside a group; `NothingOverwritten`
because the slot of a storing worker is still empty.

**The argument of completeness.** `FoundInv` says what has been reserved at each
moment: the pairings of the groups that are done, and in the running group, of each
range, what lies before its worker's place. `MergeInv` says why nothing is left behind:
left entries below a worker's index are smaller than every right entry still to
come, and a run begins at the first entry of its key. That needs
`SpansExact` (the spans are the candidates of this group, each entry once), and
`SplitsCoverOnce` joins the ranges to the whole group. `ExactInv` is their conjunction
with `IInv`. A step of `TableSpec` is then a `Reserve` whose pairing passes, since the
pairing was not reserved before; all the others stutter.

**The argument of the sort.** `IInv == TypeOK /\ DataOK /\ Counted /\ Moved /\
SortedResult`. `Counted` ties a thread's row to the digits of what it has read; `Moved`
says that an offset is the *number of items that belong before* the next item of its
digit. `PlacesBijective` shows that this number is a permutation of the positions in which
the items are stable in their digit. `SumOfSizes` and `MergedCounts` show that the prefix
sums of the joined counts are these numbers at the start of the moves.
`PlacesApart` follows: two items that are about to be moved have two places. `NextDigit`
and `PassSorts` take the order by the digits below a pass to the order by one more.

**The argument of the memory.** `IInv == TypeOK /\ PhaseInv /\ PlaceInv /\ LeftInv /\
EmptyInv /\ ScratchInv /\ ResultKept`. `Layout` turns the table of blocks into inequalities
between places, from `AlignUpAtLeast` and `BlockHolds` for every alignment. `PlaceInv` says
that a sorted table fits its place and that the table before lies in its sort buffer (or is
empty), so writes can be told apart from reads by their places (`SpanWords`, `FoundGoesOut`).
`EmptyInv` follows a cancellation through the later tables: of an empty table nothing comes.
For `LiveInput`, `YieldInv` bounds what the pairs of the walk have put out so far,
`HashingSpares` and `FindingSpares` show that what is written then is no section the walk
still needs, and `SectionZeroIsPast` that the last two pairs do not read section 0.

**The argument of the sink.** `ScopeInv` says which scopes are open in each phase (plot, table,
then section and match key, or the sort) and of which table and key they are, so what
leaving them sends is known; `ViewInv` how far the bar is: between the table's base and
the match keys that are behind. `Leaving` and `Entering` are recursive, but over at most
four scopes, so `LeavingOne` and `EnteringFew` unfold them by an explicit function.
`SinkOver` covers all exceptions at once: whatever is open, the plot's scope is left last.
For polls, `PastInv` says of every value ever stored that it is not ahead (`Behind`: the
fraction at most what `Reached` allows, no later table, finished only in the end).
`Reached` never goes down in a step (`Onward`), so old stores stay behind (`StillBehind`);
the stores of the step itself are covered scope by scope (`LeavingStays`,
`EnteringStays`, `PassedStays`).

**The argument of the search.** An entry of the stack holds a hash that was passed along
from link to link, the validator starts anew from the finished chain. `StackInv` closes
the gap: each entry carries the hash that the validator computes for every chain
beginning with its fragments (`HashesAgree`; the two sides bracket the exclusive or
differently), its links pass the filters, and its fragments come from the plot.
For completeness, `CompleteInv`: an acceptable chain is recorded, or an entry of the
stack is a prefix of it, or its set is not seeded yet, or its plot not reached. For
uniqueness, `OnceInv`: no entry of the stack is a prefix of another or of a recorded
chain, which needs that starting sets do not share fragments (`SetsApart`) and that the
list of a group is without repetitions (`GroupFileReads`). The question adds
`AnswerInv`, what the buffer holds after each pass, and `RoomInv`: the second pass over
the same file has room for all its chains.

**The argument of the solver.** The invariant follows what each list is worth. `IInv ==
CallOK /\ MappingOK /\ CandidatesOK /\ SlotsOK /\ WorkersOK /\ GroupsOK /\ TwoOK /\ EndOK`.
An x1 candidate has the match info that some key asks of its partner (`GoodX1`), an x2
candidate its own (`GoodX2`, from `HitsFound`: at every turn the ring holds the hashes of the
next `PrefetchDist` values, so that a hit has the hash of its own x). Where the two agree
and the filter passes, the pair is one the validator accepts (`PairFound`: `InfoParts` takes a
match info apart again). So every stored slot is a `GoodMatch`; `WorkersOK` adds that each
slot below the counter is stored or held by one thread. A group has matches of its x range
only (`GroupsGood`), and the x range of every place of the quality string is found again
among the unique ones (`UniqueHasEach`). Two matches that `LocalOut` joins make a valid four of
two ranges (`FourFound`), two fours that `T3Of` lets through a proof of the four ranges of a
fragment, so by `FragmentOfBits` of the fragment itself (`T3Good`), and the products of these
are proofs fragment by fragment (`ChosenGood`, `FullGrows`), which `ValidateFullProof` cuts
and accepts (`FullValidates`). `HitsOf`, `PartsOf` and `Chosen` are recursive functions:
`PrimitiveRecursion` and `BoundedRecursion` construct the functions they are, from
`Inductive`, the least counterexample once more.

**The argument that the solver misses nothing.** `OnceEach(list, set)` says that a list
has every element of a set once; each stage takes it from the lists before to the next.
The filter's parts are `OnceEach` of what their thread's x values deserve, and joined,
sorted and compacted they are all candidates (`ListsInv`). Sorted lists divided right
into sections are joined by one merge per thread. `MergeOK` says for each thread which
pairs of entries it is *past*: every such pair has a slot (`Complete`), every slot has the pair
some thread is past (`FromPair`), and no two slots have the same pair (`Apart`), since no two
threads are given the same section; that a step only goes past entries without a partner
follows from the order of the lists. `SlotsAre` collects this in
`CInv` when the threads are joined. With `GroupsExact` each group of table 1 is all
matches of one range. In table 2, `TwoExact` has what the threads' shares have found up to
each thread's place (`HalfTwo`), since the bucket of the reduced hash loses no equal hash
(`KeyOfJoined`); a finished group is all fours of two ranges. `EndExact` continues by products:
`Product` of complete groups is complete (`ProductOnce`), every proof of a fragment can be cut into
two fours of its ranges (`EightParts`), and every full proof into a proof for each
fragment (`FullJoins`, `ChosenOnce`). `DInv` is the conjunction of the last three. At the end
`ProofsAre` and `FromIsFull` show that the set the property builds from the validator
alone, fragment by fragment from the last, is the set of full proofs that `EndExact`
builds from the first.

**The argument of the files.** `IInv == TypeOK /\ WriterInv /\ PatchedInv /\ InfoInv /\
OffsetsInv /\ OnlyWrittenChunks`. What a reader has cached outlives the moment it was
read, so the invariant must say that each cached number is either still the placeholder
or true for good: `PatchedInv` says this of the file (nothing is patched before all bodies
are on disk), `InfoInv` and `OffsetsInv` of the object.

**Assumptions used.** `MatchAssumption` (at least one match key, hashes that are
functions into the targets) and `BuildAssumption` (at least one thread, sorted tables
of entries, `NoPair` not a pairing); `RadixAssumption` (numbers not 0, keys that are
numbers); `LayoutAssumption` (sizes are numbers, the alignment not 0),
`PlotterAssumption` (numbers; at least one match key and one prefix count) and
`RunAssumption`; `Even`, a hypothesis of `InputKept` alone, which the run's instance meets;
`ChainerAssumption` (the ranges divide evenly among the sets and fit the words,
the rolls choose ranges), Chainer's `XorAssumption` (it stays within the words and may be bracketed
anew) and `GroupAssumption` (plots are sorted, each plot has round keys);
`QualitiesAssumption` (the first guess is not 0, memory that was not written holds no
chain); `FilesAssumption`; for the fragments `KeyAssumption` (round keys of `K` bits),
`TurnAssumption` (a rotation is shorter than `K`), `XorAssumption` (exclusive or stays
within `K` bits and undoes itself) and `ValidatorAssumption`; for the solver also
`HashAssumption` (match infos have k bits and targets theirs), `SolverAssumption` (numbers
that are not 0; a call asks for a plot and a list of blocks) and `PrefetchAssumption`. TLC evaluates all of them
on the runs' values. No theorem assumes anything of the hash functions but where their
values lie.

**Only model-checked.** `ChunkCodec` and `Codecs`, whose bit fields are powers of two, of which
the provers know no law, and whose lists are folds. And every liveness property (`Ends` of
the plotting run among them): fairness and ENABLED are out of the prover's reach. Where a
proof needs what a recursive function computes (`Kept`, `Weight`, the validator's hashes)
the modules argue by the least counterexample instead of an induction theorem, since those take an operator as parameter, which no prover here can
instantiate.

## 5. Findings

1. **`range_end`** (`plot/PlotFile.hpp:368`). `getProofFragmentsInRange` drops a
   fragment equal to the range's end, though ranges are inclusive
   (`pos/ProofParams.hpp:198`). `Prover::prove` misses chains the validator accepts.
2. **`sparse_chunk`** (`plot/PlotFile.hpp:648`). With k = 18 the quotient of a delta
   can reach 92 in a chunk whose fragments all lie at its end: the assertion on that
   line fails, and in a release build the shift before it is undefined. The run uses
   the true constants; plots of that size are nearly empty only in tests.
3. **`open_unfinished`** (`plot/PlotFile.hpp:501`). `PlotGroupFile::open` compares the
   index offset with the file's size, and the placeholder 0 passes. A file whose writer
   stopped before the header was patched opens, and its header is decoded as an index.
   `OnlyWrittenChunks` therefore excepts objects of that kind.
4. **`section_bounds`** (`solve/Solver.hpp:1114`). The comment says that the scan
   backward goes on until it drops below the section, and then steps forward to its
   first entry. The loop stops at the section's last entry. Where a section lies
   before its ideal index altogether, its boundary is its last entry, and the others
   are never matched. The hash makes sections nearly even, so real lists rarely get there.

Also seen:

* `RadixSort.hpp:22` says that the vector is sorted in place, `:158` that the sorted data
  is copied back; `sort` returns the other span instead, and its callers rely on that
  (`ResultKept`).
* `ChunkCompressor::compress` looks for errors of the entropy coder only, not for its
  results 0 (not smaller) and 1 (all alike); `ChunkCompression.hpp:208` says that
  `decompress` takes what `compress` produced, but it refuses such chunks, and empty
  ones (`RefusedOnlyFor` lists these reasons).
* `AtomicProgressSink` reports a run that threw as finished: the end event of the outer
  scope is sent on the way out, and no code sends `EventKind::Error` (`SnapshotTrue` says
  what is shown).
* `PlotEnd` stores the state before the fraction (`plot/Progress.hpp:260`), and a poll loads
  its fields separately: it can show *finished* with a bar that is not full, or the table of one moment with
  the bar of another. It is behind the run then, never ahead, and the next polls show the
  last stores.

## 6. Not modelled, and why

* Hashing and the parameters: values, taken as constants. Nothing here depends on which
  pseudo-random function they are; the properties hold for the instances' functions,
  the theorems for any.
* FSE: vendored; `tools/`: printing and arguments over the parts above.
* Builds with `RETAIN_X_VALUES*`: for tests, with other entry sizes.
* The planner of `LayoutPlanner.hpp`: sums and alignments, whose results are the numbers
  of `PlotLayout`. The console sink only prints.
* Of the solver: parts of fewer x values than the prefetching ring holds, for which the
  loop's bound wraps (`:1266`; excluded by `PrefetchAssumption`).
* `hardware_concurrency() == 0`, a range narrower than a chunk (`plot/PlotFile.hpp:983`
  then reports a plot without fragments), sections in the layout that are less even than
  `Even` (section 4 says what the layout bears): hazards without a property.
* `create_plot`, `derive_plot_id` and `plot_group_read_info` of the interface pass arguments on.

## 7. Plan

Order of work; each step ends with its runs and mutants.

1. `TableSpec`, `TableMatch`, `TableBuild` and their proofs (done).
2. `RadixSort`, `PlotLayout`, `Plotter`, `Chainer`, `BitFields`, `ChunkCodec`, `PlotFiles`
   (done).
3. `Codecs`, `Qualities`, `PlotterRun` with the minor scratch, `Feistel`, `ProofValidator`,
   `Solver` (done), and the cipher's proofs (done).
4. Proofs of `EveryMatchOnce`, `ImplementsTableSpec`, `RadixSort`, `PlotLayout`, `Plotter`,
   `PlotterRun`, `PlotFiles`, `Chainer`, `Qualities` and `Solver` (done).
5. Proofs left. `ChunkCodec`: `ReadsWhatWasWritten`, whose bit fields need lemmas on powers of
   two; `Codecs`: the padding of the compact proof.

## 8. Running

    tlc -workers 2 -config TableBuild.cfg MCTableBuild
    tlc -workers 2 -config Solver.cfg MCSolver
    for m in ExtremaLemmas TableBuildProofs RadixSortProofs SolverProofs \
             PlotterProofs QualitiesProofs PlotFilesProofs SolverCompleteProofs; do
      tlapm $m.tla
    done

The runs in `PROJECT.json` name each module, its configuration and what is expected.
