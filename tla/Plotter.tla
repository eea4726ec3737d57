------------------------------- MODULE Plotter -------------------------------
(***************************************************************************)
(* Plotter::run: the x values and tables 1, 2 and 3 built one after the    *)
(* other in the shared memory of PlotLayout.  A word of memory carries the *)
(* name of what was written there last, so reading an entry that a later   *)
(* write has reached is visible.  A table is built section pair by section *)
(* pair and match key by match key (TableBuild has the threads of one      *)
(* group): hashing copies the left section to the target scratch, pairing  *)
(* reads that copy and the right section while it appends to the output.   *)
(*                                                                         *)
(* A progress sink may cancel at the begin events that are looked at.      *)
(***************************************************************************)
EXTENDS PlotLayout

CONSTANTS
  MatchKeys,      \* get_num_match_keys, alike for all tables here
  NumXs,          \* 2^k
  SectionSizes,   \* how many entries a section may get
  Yields,         \* how many pairings a section pair may hold
  PassCounts,     \* for each k considered: how many passes does sorting table t take?
  MayCancel,      \* does the sink ever cancel?
  MinorSize,      \* minor_scratch_bytes
  PrefixNeed,     \* the counts and prefixes of a table
  ThreadCounters, \* what a sort takes for its threads; each pass takes one more
  LeftPasses,     \* the passes of the sort of a group's left candidates
  SplitNeeds,     \* words the splits of a group may take: none with one thread
  Blank           \* content of memory that was never written

ASSUME PlotterAssumption ==
  /\ MatchKeys \in Nat \ {0} /\ NumXs \in Nat
  /\ SectionSizes \subseteq Nat /\ Yields \subseteq Nat
  /\ PassCounts \subseteq [Tables -> Nat] /\ MayCancel \in BOOLEAN
  /\ MinorSize \in Nat /\ PrefixNeed \in Nat \ {0}
  /\ ThreadCounters \in Nat /\ LeftPasses \in Nat
  /\ SplitNeeds \subseteq Nat /\ SplitNeeds # {}

VARIABLES
  passes,     \* the passes of this run's sorts
  phase,      \* what run is doing
  table,      \* the table it is working on
  pairs,      \* max_pairs of the layout that was allocated
  mem,        \* the name of the last write to each word
  prev,       \* the previous table: where it is and the size of its sections
  walk,       \* section pairs done in this table
  mk,         \* match keys done in this pair
  yield,      \* pairings of this section pair that are yet to be found
  cursor,     \* out_count
  result,     \* the table just sorted: where it is and how long
  cancelled,  \* history: has the construction of a table been cancelled?
  minor,      \* off_ of the minor scratch: how much of it is handed out
  mark        \* the marker a group took

vars == <<passes, phase, table, pairs, mem, prev, walk, mk, yield, cursor, result,
          cancelled, minor, mark>>

NoTable == [at |-> 0, sizes |-> [s \in Sections |-> 0]]
Empty   == [at |-> -1, len |-> 0]        \* a default-constructed span

Final == {"plotted", "empty", "thrown"}

Init ==
  /\ passes \in PassCounts
  /\ phase = "plot" /\ table = 0
  /\ pairs = 0
  /\ mem = [u \in Memory |-> Blank]
  /\ prev = NoTable
  /\ walk = 0 /\ mk = 0 /\ yield = 0 /\ cursor = 0
  /\ result = Empty
  /\ cancelled = FALSE
  /\ minor = 0 /\ mark = 0

-----------------------------------------------------------------------------
Total(sizes) == sizes[0] + sizes[1] + sizes[2] + sizes[3]

\* Entries lo .. hi-1 of a span are written, each word with the entry's name.
Write(m, at, t, lo, hi, name) ==
  [u \in DOMAIN m |-> IF u \in Cells(at, t, lo, hi)
                      THEN <<name, t, (u - at) \div Words(t)>> ELSE m[u]]

Intact(at, t, lo, hi) ==
  \A u \in Cells(at, t, lo, hi) : mem[u] = <<"sorted", t, (u - at) \div Words(t)>>

\* The walk over the sections: (3,0), (0,2), (2,1), (1,3).
Order      == <<3, 0, 2, 1, 3>>
LeftOf(p)  == Order[p + 1]
RightOf(p) == Order[p + 2]

\* First entry of a section of the previous table, and the end of it.
SectionFirst(s) == Total([q \in Sections |-> IF q < s THEN prev.sizes[q] ELSE 0])
SectionEnd(s)   == SectionFirst(s) + prev.sizes[s]

\* do_allocate on the minor scratch; a cancelled layout has none of it.
MinorHolds(used, need) == used + need <= (IF pairs = 0 THEN 0 ELSE MinorSize)

\* What RadixSort::sort allocates and never gives back by itself.
SortNeed(n) == ThreadCounters + n

\* PlotBegin: cancelled, run returns an empty PlotData.
BeginPlot ==
  /\ phase = "plot"
  /\ phase' \in IF MayCancel THEN {"alloc", "empty"} ELSE {"alloc"}
  /\ UNCHANGED <<passes, table, pairs, mem, prev, walk, mk, yield, cursor, result, cancelled, minor, mark>>

\* AllocationBegin: cancelled, the layout has no room at all and run goes on.
Allocate ==
  /\ phase = "alloc"
  /\ pairs' \in IF MayCancel THEN {0, MaxPairs} ELSE {MaxPairs}
  /\ phase' = "table"
  /\ UNCHANGED <<passes, table, mem, prev, walk, mk, yield, cursor, result, cancelled, minor, mark>>

\* TableBegin of any table, cancelled: it returns an empty span.
CancelTable ==
  /\ phase = "table" /\ MayCancel
  /\ result' = Empty
  /\ cancelled' = TRUE
  /\ phase' = "sorted"
  /\ UNCHANGED <<passes, table, pairs, mem, prev, walk, mk, yield, cursor, minor, mark>>

\* XsConstructor::construct, up to the sort.
GenerateXs ==
  /\ phase = "table" /\ table = 0
  /\ IF pairs < NumXs
       THEN phase' = "thrown" /\ UNCHANGED <<mem, cursor>>
       ELSE /\ mem' = Write(mem, OutAt, 0, 0, NumXs, "raw")
            /\ cursor' = NumXs
            /\ phase' = "sort"
  /\ UNCHANGED <<passes, table, pairs, prev, walk, mk, yield, result, cancelled, minor, mark>>

\* The minor scratch is emptied and the prefix counts are allocated in it; a
\* layout without room throws here.
BeginTable ==
  /\ phase = "table" /\ table > 0
  /\ walk' = 0 /\ cursor' = 0
  /\ IF MinorHolds(0, PrefixNeed)
       THEN phase' = "section" /\ minor' = PrefixNeed
       ELSE phase' = "thrown" /\ minor' = 0
  /\ UNCHANGED <<passes, table, pairs, mem, prev, mk, yield, result, cancelled, mark>>

LeftCount  == prev.sizes[LeftOf(walk)]
RightCount == prev.sizes[RightOf(walk)]

BeginSection ==
  /\ phase = "section"
  /\ mk' = 0
  /\ yield' \in IF LeftCount > 0 /\ RightCount > 0 THEN Yields ELSE {0}
  /\ phase' = "group"
  /\ UNCHANGED <<passes, table, pairs, mem, prev, walk, cursor, result, cancelled, minor, mark>>

\* Mutant of CancelSection: the result of the table before is used again.
CancelSectionStale ==
  /\ phase = "section" /\ MayCancel
  /\ cancelled' = TRUE
  /\ phase' = "sorted"
  /\ UNCHANGED <<passes, table, pairs, mem, prev, walk, mk, yield, cursor, result, minor, mark>>

\* SectionBegin, cancelled: the table is given up with what it has.
CancelSection ==
  /\ phase = "section" /\ MayCancel
  /\ result' = Empty
  /\ cancelled' = TRUE
  /\ phase' = "sorted"
  /\ UNCHANGED <<passes, table, pairs, mem, prev, walk, mk, yield, cursor, minor, mark>>

\* Mutant of SkipGroup: does not stop at the last match key.
SkipGroupUnbounded ==
  /\ phase = "group"
  /\ mk < MatchKeys - 1 \/ yield = 0
  /\ mk' = mk + 1
  /\ UNCHANGED <<passes, phase, table, pairs, mem, prev, walk, yield, cursor, result, cancelled, minor, mark>>

\* A group without candidates on one side; a single key may have none on the
\* right when the section has some.
SkipGroup ==
  /\ phase = "group" /\ mk < MatchKeys
  /\ mk < MatchKeys - 1 \/ yield = 0
  /\ mk' = mk + 1
  /\ UNCHANGED <<passes, phase, table, pairs, mem, prev, walk, yield, cursor, result, cancelled, minor, mark>>

\* The left candidates are hashed into the scratch and sorted there, with a
\* second array of the same length behind the first, and its counters go to
\* the minor scratch.  Behind both arrays comes what make_splits_simple needs,
\* when there is more than one thread; either arena throws when it is full.
HashLeft ==
  /\ phase = "group" /\ mk < MatchKeys
  /\ LeftCount > 0 /\ RightCount > 0
  /\ mark' = minor
  /\ \E splits \in SplitNeeds :
       IF \/ 2 * LeftCount * Words(table - 1) + splits > TargetBlocks(table) * Block
          \/ ~MinorHolds(minor, SortNeed(LeftPasses))
         THEN phase' = "thrown" /\ UNCHANGED <<mem, minor>>
         ELSE /\ mem' = Write(mem, TargetAt(table), table - 1, 0, 2 * LeftCount, "left")
              /\ minor' = minor + SortNeed(LeftPasses)
              /\ phase' = "find"
  /\ UNCHANGED <<passes, table, pairs, prev, walk, mk, yield, cursor, result, cancelled>>

\* The pairings of the group; those past the end of the output are dropped.
FindPairs(n) ==
  /\ phase = "find"
  /\ n <= yield /\ (mk = MatchKeys - 1 => n = yield)
  /\ yield' = yield - n
  /\ mem' = IF cursor >= pairs THEN mem
            ELSE Write(mem, OutAt, table, cursor, Min({cursor + n, pairs}), "raw")
  /\ cursor' = cursor + n
  /\ phase' = "join"
  /\ UNCHANGED <<passes, table, pairs, prev, walk, mk, result, cancelled, minor, mark>>

\* Mutant of EndGroup: the match key does not move on.
EndGroupAgain ==
  /\ phase = "join"
  /\ minor' = mark
  /\ phase' = "group"
  /\ UNCHANGED <<passes, table, pairs, mem, prev, walk, mk, yield, cursor, result, cancelled, mark>>

\* Mutant of EndGroup: the counters of the sort are not given back.
EndGroupKept ==
  /\ phase = "join"
  /\ mk' = mk + 1
  /\ phase' = "group"
  /\ UNCHANGED <<passes, table, pairs, mem, prev, walk, yield, cursor, result, cancelled, minor, mark>>

\* The scratch is rewound to the marker of the group.
EndGroup ==
  /\ phase = "join"
  /\ mk' = mk + 1
  /\ minor' = mark
  /\ phase' = "group"
  /\ UNCHANGED <<passes, table, pairs, mem, prev, walk, yield, cursor, result, cancelled, mark>>

EndSection ==
  /\ phase = "group" /\ mk = MatchKeys
  /\ walk' = walk + 1
  /\ phase' = IF walk' < 4 THEN "section"
              ELSE IF cursor > pairs THEN "thrown" ELSE "sort"
  /\ UNCHANGED <<passes, table, pairs, mem, prev, mk, yield, cursor, result, cancelled, minor, mark>>

\* post_construct_span empties the minor scratch first, the x values' sort
\* takes it as it is.  The counts of a pass are allocated when it begins: a sort
\* that is out of scratch throws, at the latest before its last pass.
ScratchLeft == IF table = 0 THEN minor ELSE 0

Odd == passes[table] % 2 = 1

\* Mutant of Sort: takes the result to be in the sort buffer whatever the
\* number of passes.
SortAlwaysTmp ==
  /\ phase = "sort" /\ MinorHolds(ScratchLeft, SortNeed(passes[table]))
  /\ LET older == IF Odd THEN OutAt ELSE TmpAt(table)
         final == IF Odd THEN TmpAt(table) ELSE OutAt
     IN  mem' = Write(Write(mem, older, table, 0, cursor, "raw"),
                      final, table, 0, cursor, "sorted")
  /\ result' = [at |-> TmpAt(table), len |-> cursor]
  /\ minor' = ScratchLeft + SortNeed(passes[table])
  /\ phase' = "sorted"
  /\ UNCHANGED <<passes, table, pairs, prev, walk, mk, yield, cursor, cancelled, mark>>

\* The two buffers take turns; after an odd number of passes the result is
\* in the sort buffer, and the other one holds an older order.
Sort ==
  /\ phase = "sort" /\ MinorHolds(ScratchLeft, SortNeed(passes[table]))
  /\ LET older == IF Odd THEN OutAt ELSE TmpAt(table)
         final == IF Odd THEN TmpAt(table) ELSE OutAt
     IN  /\ mem' = Write(Write(mem, older, table, 0, cursor, "raw"),
                         final, table, 0, cursor, "sorted")
         /\ result' = [at |-> final, len |-> cursor]
  /\ minor' = ScratchLeft + SortNeed(passes[table])
  /\ phase' = "sorted"
  /\ UNCHANGED <<passes, table, pairs, prev, walk, mk, yield, cursor, cancelled, mark>>

SortThrows ==
  /\ phase = "sort" /\ ~MinorHolds(ScratchLeft, SortNeed(passes[table]))
  /\ minor' = ScratchLeft
  /\ phase' = "thrown"
  /\ UNCHANGED <<passes, table, pairs, mem, prev, walk, mk, yield, cursor, result, cancelled, mark>>

\* Before the next table: a result that is in the output place is copied, with
\* the rest of that span, to the sort buffer.  How its entries fall into
\* sections is known by then.
Place ==
  /\ phase = "sorted" /\ table < 3
  /\ mem' = IF result.at = OutAt
              THEN [u \in Memory |->
                      IF u \in Cells(TmpAt(table), table, 0, pairs)
                      THEN mem[u - TmpAt(table) + OutAt] ELSE mem[u]]
              ELSE mem
  /\ \E sizes \in [Sections -> SectionSizes \cup {0}] :
       /\ Total(sizes) = result.len
       /\ (result.len > 0 => \A s \in Sections : sizes[s] \in SectionSizes)
       /\ prev' = [at |-> IF result.at = OutAt THEN TmpAt(table) ELSE result.at,
                   sizes |-> sizes]
  /\ table' = table + 1
  /\ phase' = "table"
  /\ UNCHANGED <<passes, pairs, walk, mk, yield, cursor, result, cancelled, minor, mark>>

\* The proof fragments are copied out of the sorted table 3.
CopyOut ==
  /\ phase = "sorted" /\ table = 3
  /\ phase' = "plotted"
  /\ UNCHANGED <<passes, table, pairs, mem, prev, walk, mk, yield, cursor, result, cancelled, minor, mark>>

Stopped == phase \in Final /\ UNCHANGED vars

Next ==
  \/ BeginPlot \/ Allocate \/ CancelTable \/ GenerateXs
  \/ BeginTable \/ BeginSection \/ CancelSection \/ SkipGroup \/ HashLeft
  \/ \E n \in 0 .. yield : FindPairs(n)
  \/ EndGroup \/ EndSection \/ Sort \/ SortThrows \/ Place \/ CopyOut \/ Stopped

Spec == Init /\ [][Next]_vars

-----------------------------------------------------------------------------
\* Type correctness.
TypeOK ==
  /\ passes \in PassCounts
  /\ phase \in Final \cup {"plot", "alloc", "table", "section", "group", "find",
                          "join", "sort", "sorted"}
  /\ table \in Tables /\ pairs \in {0, MaxPairs}
  /\ DOMAIN mem = Memory
  /\ DOMAIN prev = {"at", "sizes"} /\ prev.sizes \in [Sections -> Nat]
  /\ walk \in 0 .. 4 /\ mk \in 0 .. MatchKeys /\ yield \in Nat /\ cursor \in Nat
  /\ DOMAIN result = {"at", "len"} /\ result.len \in Nat
  /\ cancelled \in BOOLEAN
  /\ minor \in 0 .. MinorSize /\ mark \in 0 .. MinorSize

InTable == phase \in {"section", "group", "find", "join"}

(***************************************************************************)
(* Nothing that is still to be read is overwritten: while a table is built *)
(* every section that a later step of the walk hashes or pairs holds the   *)
(* previous table, although output, scratch and input share blocks.        *)
(***************************************************************************)
LiveInput ==
  InTable /\ walk < 4 =>
    \A p \in walk .. 3 : \A s \in {LeftOf(p), RightOf(p)} :
      Intact(prev.at, table - 1, SectionFirst(s), SectionEnd(s))

(***************************************************************************)
(* The hashed left candidates stay in the scratch while the output of      *)
(* their group is written.                                                 *)
(***************************************************************************)
LeftCopyKept ==
  phase = "join" =>
    \A u \in Cells(TargetAt(table), table - 1, 0, 2 * LeftCount) : mem[u][1] = "left"

(***************************************************************************)
(* A sorted table can be read in full where its span says it is, also      *)
(* after the copy out of the output place.                                 *)
(***************************************************************************)
ResultKept ==
  /\ phase = "sorted" => Intact(result.at, table, 0, result.len)
  /\ phase = "table" /\ table > 0 => Intact(prev.at, table - 1, 0, Total(prev.sizes))

(***************************************************************************)
(* Cancelling the construction of any table leaves nothing to plot: run    *)
(* goes on with empty tables and never returns a part of a plot.           *)
(***************************************************************************)
CancelledMeansEmpty ==
  phase = "plotted" /\ cancelled => result.len = 0

(***************************************************************************)
(* Groups leave the minor scratch as they found it, also a group that is   *)
(* skipped: whenever the next group begins, the scratch ends exactly where *)
(* the prefix counts of this table end, so a table cannot run out of it    *)
(* in a late group nor write over its own prefixes.                        *)
(***************************************************************************)
ScratchReturned == phase = "group" => minor = PrefixNeed

\* Plotting ends, with a plot, an empty result or an exception.
Ends == <>(phase \in Final)
=============================================================================
