---------------------------- MODULE PlotterProofs ----------------------------
(***************************************************************************)
(* Safety of the plotting run in memory whose blocks have several uses,    *)
(* for every size of a section and every alignment: a sorted table is      *)
(* where its span says, the hashed candidates of a group outlive its       *)
(* output, and, when sections are filled evenly enough, no section is      *)
(* overwritten before the walk has read it for the last time.              *)
(***************************************************************************)
EXTENDS PlotterRun, ExtremaLemmas

(***************************************************************************)
(* How even the sections have to be for the layout to hold: in table 2,    *)
(* whose output reaches into the first two blocks of its input, section 0  *)
(* must cover these blocks once the output gets there, and the first two   *)
(* pairs of sections must leave them alone.                                *)
(***************************************************************************)
Even ==
  /\ \A n \in SectionSizes : 2 * MaxSection <= 3 * n
  /\ \A n \in Yields : 4 * n <= 7 * MaxSection

AllEmpty(sizes) == \A s \in Sections : sizes[s] = 0

\* Where table, walk and match key stand in each phase.
PhaseInv ==
  /\ phase \in {"plot", "alloc"} => table = 0 /\ pairs = 0
  /\ InTable => table \in 1 .. 3 /\ walk \in 0 .. 3
  /\ phase \in {"find", "join"} => mk < MatchKeys

\* A sorted table, and the previous table of the one in work, fit their place.
PlaceInv ==
  /\ phase = "sort" => cursor <= pairs
  /\ phase = "sorted" => /\ result.len <= pairs
                         /\ result = Empty \/ result.at \in {OutAt, TmpAt(table)}
  /\ (phase = "table" /\ table > 0) \/ InTable =>
       /\ Total(prev.sizes) <= MaxPairs
       /\ AllEmpty(prev.sizes) \/ prev.at = TmpAt(table - 1)
       /\ AllEmpty(prev.sizes) \/ prev.sizes \in [Sections -> SectionSizes]

\* The hashed candidates of the running group are in the scratch.
LeftInv ==
  phase \in {"find", "join"} =>
    \A u \in Cells(TargetAt(table), table - 1, 0, 2 * LeftCount) :
      u \in Memory /\ mem[u][1] = "left"

\* Of an empty table nothing comes, and a cancelled table is empty.
EmptyInv ==
  /\ InTable /\ AllEmpty(prev.sizes) =>
       cursor = 0 /\ (phase # "section" => yield = 0) /\ phase \notin {"find", "join"}
  /\ cancelled =>
       /\ phase \notin {"plot", "alloc"} /\ (table = 0 => phase = "sorted")
       /\ phase = "sort" => cursor = 0
       /\ phase \in {"sorted", "plotted"} => result.len = 0
       /\ (phase = "table" /\ table > 0) \/ InTable => AllEmpty(prev.sizes)

\* The scratch between the groups of a table, and the marker in a group.
ScratchInv ==
  /\ phase \in {"section", "group"} => minor = PrefixNeed
  /\ phase \in {"find", "join"} => mark = PrefixNeed

\* What the pairs of sections done so far and the one in work can have put out.
YieldInv ==
  InTable => 4 * (cursor + (IF phase = "section" THEN 0 ELSE yield))
               <= 7 * MaxSection * (IF phase = "section" THEN walk ELSE walk + 1)

IInv ==
  /\ TypeOK /\ PhaseInv /\ PlaceInv /\ LeftInv /\ EmptyInv /\ ScratchInv /\ ResultKept

-----------------------------------------------------------------------------
(* The layout.                                                             *)

\* Rounding up does not lose anything.
LEMMA AlignUpAtLeast ==
  ASSUME NEW n \in Nat
  PROVE  AlignUp(n) \in Nat /\ n <= AlignUp(n)
<1>1. PlanAlign \in Nat \ {0}
  BY LayoutAssumption
<1> DEFINE b == n + PlanAlign - 1
           q == b \div PlanAlign
           r == b % PlanAlign
<1>2. b \in Nat
  BY <1>1
<1>3. b = (PlanAlign * q) + r /\ r \in 0 .. PlanAlign - 1 /\ q \in Nat
  BY <1>1, <1>2, SMT
<1>4. q * PlanAlign = PlanAlign * q /\ q * PlanAlign \in Nat
  BY <1>1, <1>3, SMT
<1>5. AlignUp(n) = q * PlanAlign
  BY DEF AlignUp
<1> HIDE DEF q, r
<1> QED BY <1>1, <1>3, <1>4, <1>5, SMT

\* A block holds MaxSection words, and so a quarter of a table of one word an entry.
LEMMA BlockHolds ==
  /\ MaxSection \in Nat /\ Block \in Nat /\ MaxSection <= Block
  /\ MaxPairs = 4 * MaxSection
<1>1. MaxSection \in Nat
  BY LayoutAssumption
<1>2. (MaxSection * MaxWords) \div 4 = MaxSection
  BY <1>1, SMT DEF MaxWords
<1>3. Block \in Nat /\ MaxSection <= Block
  BY <1>1, <1>2, AlignUpAtLeast DEF Block
<1>4. MaxPairs = 4 * MaxSection
  BY <1>1 DEF MaxPairs
<1> QED BY <1>1, <1>3, <1>4

\* The places of a table: in memory each, and its input and scratch apart from
\* each other and, but for the end of the output of table 2, from its output.
LEMMA Layout ==
  ASSUME NEW t \in Tables
  PROVE  /\ Words(t) \in 2 .. 4 /\ OutAt = 0
         /\ TmpAt(t) \in Nat
         /\ Words(t) * MaxPairs <= TmpAt(t)
         /\ TmpAt(t) + Words(t) * MaxPairs <= NumBlocks * Block
         /\ Words(t) * MaxPairs <= NumBlocks * Block
         /\ t > 0 => /\ TargetAt(t) \in Nat /\ TargetBlocks(t) * Block \in Nat
                     /\ TargetAt(t) + TargetBlocks(t) * Block <= NumBlocks * Block
                     /\ Words(t) * MaxPairs <= TargetAt(t)
                     /\ \/ TargetAt(t) + TargetBlocks(t) * Block <= TmpAt(t - 1)
                        \/ TmpAt(t - 1) + Words(t - 1) * MaxPairs <= TargetAt(t)
                     /\ t # 2 => Words(t) * MaxPairs <= TmpAt(t - 1)
                     /\ t = 2 => /\ TmpAt(t - 1) = 14 * Block
                                 /\ Words(t) = 4 /\ Words(t - 1) = 3
<1> USE BlockHolds DEF OutAt, TmpAt, TargetAt, OutBlock, NumBlocks
<1>1. CASE t = 0
  <2>1. Words(t) = 2 /\ TmpBlock(t) = 24
    BY <1>1 DEF Words, TmpBlock
  <2> QED BY <1>1, <2>1, SMT
<1>2. CASE t = 1
  <2>1. /\ Words(t) = 3 /\ TmpBlock(t) = 14 /\ TargetBlock(t) = 20 /\ TargetBlocks(t) = 4
        /\ Words(t - 1) = 2 /\ TmpBlock(t - 1) = 24
    BY <1>2 DEF Words, TmpBlock, TargetBlock, TargetBlocks
  <2> QED BY <1>2, <2>1, SMT
<1>3. CASE t = 2
  <2>1. /\ Words(t) = 4 /\ TmpBlock(t) = 16 /\ TargetBlock(t) = 26 /\ TargetBlocks(t) = 6
        /\ Words(t - 1) = 3 /\ TmpBlock(t - 1) = 14
    BY <1>3 DEF Words, TmpBlock, TargetBlock, TargetBlocks
  <2> QED BY <1>3, <2>1, SMT
<1>4. CASE t = 3
  <2>1. /\ Words(t) = 2 /\ TmpBlock(t) = 8 /\ TargetBlock(t) = 8 /\ TargetBlocks(t) = 8
        /\ Words(t - 1) = 4 /\ TmpBlock(t - 1) = 16
    BY <1>4 DEF Words, TmpBlock, TargetBlock, TargetBlocks
  <2> QED BY <1>4, <2>1, SMT
<1> QED BY <1>1, <1>2, <1>3, <1>4 DEF Tables

-----------------------------------------------------------------------------
(* Types, numbers and the scratch.                                         *)

\* The constants of a run are what they are taken for.
LEMMA ConstantTypes ==
  /\ MatchKeys \in Nat \ {0} /\ NumXs \in Nat
  /\ SectionSizes \subseteq Nat /\ Yields \subseteq Nat /\ MayCancel \in BOOLEAN
  /\ MinorSize \in Nat /\ PrefixNeed \in Nat \ {0}
  /\ ThreadCounters \in Nat /\ LeftPasses \in Nat
BY PlotterAssumption, Zenon

\* How many passes the sort of a table takes is a number.
LEMMA PassesAreNumbers ==
  ASSUME TypeOK
  PROVE  passes[table] \in Nat
<1>1. passes \in [Tables -> Nat]
  BY PlotterAssumption, Zenon DEF TypeOK
<1> QED BY <1>1 DEF TypeOK

\* The sections a walk goes over are sections.
LEMMA WalkedSections ==
  ASSUME NEW p \in 0 .. 3
  PROVE  LeftOf(p) \in Sections /\ RightOf(p) \in Sections
BY DEF LeftOf, RightOf, Order, Sections

\* While a table is built the walk stands at sections of the previous table.
LEMMA CountsAreNumbers ==
  ASSUME TypeOK, walk \in 0 .. 3
  PROVE  LeftCount \in Nat /\ RightCount \in Nat
BY WalkedSections DEF TypeOK, LeftCount, RightCount

\* Every step keeps the types.
LEMMA TypeStep ==
  ASSUME TypeOK, PhaseInv, [Next]_vars
  PROVE  TypeOK'
<1> USE ConstantTypes DEF TypeOK
<1>n. passes[table] \in Nat
  BY PassesAreNumbers
<1>m. \A k \in Nat : MinorHolds(minor, k) => minor + k \in 0 .. MinorSize
  BY DEF MinorHolds
<1>0. CASE UNCHANGED vars
  BY <1>0 DEF vars
<1>1. CASE BeginPlot
  BY <1>1 DEF BeginPlot, Final
<1>2. CASE Allocate
  BY <1>2, BlockHolds DEF Allocate, Final
<1>3. CASE CancelTable
  BY <1>3 DEF CancelTable, Empty, Final
<1>4. CASE GenerateXs
  <2>1. DOMAIN mem' = Memory
    BY <1>4 DEF GenerateXs, Write
  <2> QED BY <1>4, <2>1 DEF GenerateXs, Final
<1>5. CASE BeginTable
  BY <1>5 DEF BeginTable, MinorHolds, Final
<1>6. CASE BeginSection
  BY <1>6 DEF BeginSection, Final
<1>7. CASE CancelSection
  BY <1>7 DEF CancelSection, Empty, Final
<1>8. CASE SkipGroup
  BY <1>8 DEF SkipGroup, Final
<1>9. CASE HashLeft
  <2>1. DOMAIN mem' = Memory
    BY <1>9 DEF HashLeft, Write
  <2>2. SortNeed(LeftPasses) \in Nat
    BY DEF SortNeed
  <2>3. minor' \in 0 .. MinorSize
    BY <1>9, <2>2, <1>m DEF HashLeft
  <2> QED BY <1>9, <2>1, <2>3 DEF HashLeft, Final
<1>10. ASSUME NEW n \in 0 .. yield, FindPairs(n)
       PROVE  TypeOK'
  <2>1. DOMAIN mem' = Memory
    BY <1>10 DEF FindPairs, Write
  <2> QED BY <1>10, <2>1 DEF FindPairs, Final
<1>11. CASE EndGroup
  BY <1>11 DEF EndGroup, PhaseInv, Final
<1>12. CASE EndSection
  <2>1. walk \in 0 .. 3
    BY <1>12 DEF EndSection, PhaseInv, InTable
  <2> QED BY <1>12, <2>1 DEF EndSection, Final
<1>13. CASE Sort
  <2>1. DOMAIN mem' = Memory
    BY <1>13 DEF Sort, Write
  <2>2. ScratchLeft \in Nat /\ SortNeed(passes[table]) \in Nat
    BY <1>n DEF ScratchLeft, SortNeed
  <2>3. minor' \in 0 .. MinorSize
    BY <1>13, <2>2 DEF Sort, MinorHolds
  <2>4. DOMAIN result' = {"at", "len"} /\ result'.len = cursor
    BY <1>13 DEF Sort
  <2> QED BY <1>13, <2>1, <2>3, <2>4 DEF Sort, Final
<1>14. CASE SortThrows
  BY <1>14 DEF SortThrows, ScratchLeft, Final
<1>15. CASE Place
  <2>1. DOMAIN mem' = Memory
    BY <1>15 DEF Place
  <2>2. DOMAIN prev' = {"at", "sizes"} /\ prev'.sizes \in [Sections -> Nat]
    BY <1>15 DEF Place
  <2>3. table' \in Tables
    BY <1>15 DEF Place, Tables
  <2> QED BY <1>15, <2>1, <2>2, <2>3 DEF Place, Final
<1>16. CASE CopyOut
  BY <1>16 DEF CopyOut, Final
<1>17. CASE Stopped
  BY <1>17 DEF Stopped, vars
<1> QED BY <1>0, <1>1, <1>2, <1>3, <1>4, <1>5, <1>6, <1>7, <1>8, <1>9, <1>10, <1>11, <1>12,
           <1>13, <1>14, <1>15, <1>16, <1>17 DEF Next

\* Every step keeps the places of table, walk and match key.
LEMMA PhaseStep ==
  ASSUME TypeOK, PhaseInv, [Next]_vars
  PROVE  PhaseInv'
<1> USE ConstantTypes DEF TypeOK, PhaseInv, InTable
<1>0. CASE UNCHANGED vars
  BY <1>0 DEF vars
<1>1. CASE BeginPlot \/ Allocate \/ CancelTable \/ GenerateXs
  BY <1>1 DEF BeginPlot, Allocate, CancelTable, GenerateXs
<1>2. CASE BeginTable
  BY <1>2 DEF BeginTable, Tables
<1>3. CASE BeginSection \/ CancelSection \/ SkipGroup \/ HashLeft
  BY <1>3 DEF BeginSection, CancelSection, SkipGroup, HashLeft
<1>4. ASSUME NEW n \in 0 .. yield, FindPairs(n)
      PROVE  PhaseInv'
  BY <1>4 DEF FindPairs
<1>5. CASE EndGroup \/ EndSection
  BY <1>5 DEF EndGroup, EndSection
<1>6. CASE Sort \/ SortThrows \/ Place \/ CopyOut
  BY <1>6 DEF Sort, SortThrows, Place, CopyOut
<1>7. CASE Stopped
  BY <1>7 DEF Stopped, vars
<1> QED BY <1>0, <1>1, <1>2, <1>3, <1>4, <1>5, <1>6, <1>7 DEF Next

\* Groups give back what they took, so each begins behind the prefix counts.
LEMMA ScratchStep ==
  ASSUME TypeOK, ScratchInv, [Next]_vars
  PROVE  ScratchInv'
<1> USE ConstantTypes DEF TypeOK, ScratchInv
<1>0. CASE UNCHANGED vars
  BY <1>0 DEF vars
<1>1. CASE BeginPlot \/ Allocate \/ CancelTable \/ GenerateXs \/ BeginTable
  BY <1>1 DEF BeginPlot, Allocate, CancelTable, GenerateXs, BeginTable
<1>2. CASE BeginSection \/ CancelSection \/ SkipGroup \/ HashLeft
  BY <1>2 DEF BeginSection, CancelSection, SkipGroup, HashLeft
<1>3. ASSUME NEW n \in 0 .. yield, FindPairs(n)
      PROVE  ScratchInv'
  BY <1>3 DEF FindPairs
<1>4. CASE EndGroup \/ EndSection
  BY <1>4 DEF EndGroup, EndSection
<1>5. CASE Sort \/ SortThrows \/ Place \/ CopyOut
  BY <1>5 DEF Sort, SortThrows, Place, CopyOut
<1>6. CASE Stopped
  BY <1>6 DEF Stopped, vars
<1> QED BY <1>0, <1>1, <1>2, <1>3, <1>4, <1>5, <1>6 DEF Next

-----------------------------------------------------------------------------
(* Sections of the previous table.                                         *)

\* A table without entries has empty sections only.
LEMMA TotalOf ==
  ASSUME NEW sizes \in [Sections -> Nat]
  PROVE  Total(sizes) \in Nat /\ (Total(sizes) = 0 <=> AllEmpty(sizes))
<1>1. sizes[0] \in Nat /\ sizes[1] \in Nat /\ sizes[2] \in Nat /\ sizes[3] \in Nat
  BY DEF Sections
<1>2. AllEmpty(sizes) <=> (sizes[0] = 0 /\ sizes[1] = 0 /\ sizes[2] = 0 /\ sizes[3] = 0)
  BY DEF Sections, AllEmpty
<1>3. Total(sizes) = sizes[0] + sizes[1] + sizes[2] + sizes[3]
  BY DEF Total
<1>4. Total(sizes) \in Nat
  BY <1>1, <1>3
<1>5. ASSUME Total(sizes) = 0
      PROVE  sizes[0] = 0 /\ sizes[1] = 0 /\ sizes[2] = 0 /\ sizes[3] = 0
  <2>1. sizes[0] + sizes[1] + sizes[2] + sizes[3] = 0
    BY <1>3, <1>5, Zenon
  <2> DEFINE a == sizes[0]
             b == sizes[1]
             c == sizes[2]
             d == sizes[3]
  <2>2. a \in Nat /\ b \in Nat /\ c \in Nat /\ d \in Nat /\ a + b + c + d = 0
    BY <1>1, <2>1, Zenon
  <2> HIDE DEF a, b, c, d
  <2>3. a = 0 /\ b = 0 /\ c = 0 /\ d = 0
    BY <2>2
  <2> QED BY <2>3, Zenon DEF a, b, c, d
<1>6. ASSUME sizes[0] = 0, sizes[1] = 0, sizes[2] = 0, sizes[3] = 0
      PROVE  Total(sizes) = 0
  BY <1>3, <1>6
<1> QED BY <1>2, <1>4, <1>5, <1>6, Zenon

\* The sizes a table may turn out to have are numbers.
LEMMA SizesAreNumbers ==
  ASSUME NEW sizes \in [Sections -> SectionSizes \cup {0}]
  PROVE  sizes \in [Sections -> Nat]
<1>1. SectionSizes \cup {0} \subseteq Nat
  BY ConstantTypes
<1> QED BY <1>1

\* Sections lie one behind the other within the table, behind all of section 0.
LEMMA SectionsInTable ==
  ASSUME prev.sizes \in [Sections -> Nat], NEW s \in Sections
  PROVE  /\ SectionFirst(s) \in Nat /\ SectionEnd(s) \in Nat
         /\ SectionFirst(s) <= SectionEnd(s) /\ SectionEnd(s) <= Total(prev.sizes)
         /\ s # 0 => prev.sizes[0] <= SectionFirst(s)
<1> DEFINE z == prev.sizes
           f == [q \in Sections |-> IF q < s THEN z[q] ELSE 0]
<1>1. /\ z[0] \in Nat /\ z[1] \in Nat /\ z[2] \in Nat /\ z[3] \in Nat /\ s \in {0, 1, 2, 3}
  BY DEF Sections
<1>2. /\ f[0] = IF 0 < s THEN z[0] ELSE 0
      /\ f[1] = IF 1 < s THEN z[1] ELSE 0
      /\ f[2] = IF 2 < s THEN z[2] ELSE 0
      /\ f[3] = IF 3 < s THEN z[3] ELSE 0
  BY DEF Sections
<1>3. SectionFirst(s) = f[0] + f[1] + f[2] + f[3]
  BY DEF SectionFirst, Total
<1>4. SectionEnd(s) = SectionFirst(s) + z[s]
  BY DEF SectionEnd
<1> HIDE DEF f
<1>5. SectionFirst(s) = IF s = 0 THEN 0 ELSE IF s = 1 THEN z[0]
                        ELSE IF s = 2 THEN z[0] + z[1] ELSE z[0] + z[1] + z[2]
  BY <1>1, <1>2, <1>3
<1>6. Total(z) = z[0] + z[1] + z[2] + z[3]
  BY DEF Total
<1> HIDE DEF z
<1>7. /\ SectionFirst(s) \in Nat /\ SectionEnd(s) \in Nat
      /\ SectionFirst(s) <= SectionEnd(s) /\ SectionEnd(s) <= Total(z)
      /\ s # 0 => z[0] <= SectionFirst(s)
  BY <1>1, <1>4, <1>5, <1>6
<1> QED BY <1>7 DEF z

\* An empty table is paired to nothing, and a cancelled table counts as empty to the end.
LEMMA EmptyStep ==
  ASSUME TypeOK, PhaseInv, EmptyInv, [Next]_vars
  PROVE  EmptyInv'
<1> USE ConstantTypes DEF TypeOK, EmptyInv, InTable, Empty
<1>a. walk \in 0 .. 3 /\ AllEmpty(prev.sizes) => LeftCount = 0 /\ RightCount = 0
  BY WalkedSections DEF AllEmpty, LeftCount, RightCount
<1>0. CASE UNCHANGED vars
  BY <1>0 DEF vars, AllEmpty
<1>1. CASE BeginPlot \/ Allocate \/ CancelTable
  BY <1>1 DEF BeginPlot, Allocate, CancelTable, PhaseInv, AllEmpty
<1>2. CASE GenerateXs
  BY <1>2 DEF GenerateXs, AllEmpty
<1>3. CASE BeginTable \/ CancelSection
  BY <1>3 DEF BeginTable, CancelSection, AllEmpty, PhaseInv
<1>4. CASE BeginSection
  BY <1>4, <1>a DEF BeginSection, AllEmpty, PhaseInv, LeftCount, RightCount
<1>5. CASE SkipGroup
  BY <1>5 DEF SkipGroup, AllEmpty
<1>6. CASE HashLeft
  <2>1. ~ AllEmpty(prev.sizes)
    BY <1>6, <1>a DEF HashLeft, PhaseInv
  <2> QED BY <1>6, <2>1 DEF HashLeft, AllEmpty
<1>7. ASSUME NEW n \in 0 .. yield, FindPairs(n)
      PROVE  EmptyInv'
  BY <1>7 DEF FindPairs, AllEmpty
<1>8. CASE EndGroup
  BY <1>8 DEF EndGroup, AllEmpty
<1>9. CASE EndSection
  BY <1>9 DEF EndSection, AllEmpty, PhaseInv
<1>10. CASE Sort
  BY <1>10 DEF Sort, AllEmpty
<1>11. CASE SortThrows \/ CopyOut
  BY <1>11 DEF SortThrows, CopyOut, AllEmpty
<1>12. CASE Place
  <2>1. PICK sizes \in [Sections -> SectionSizes \cup {0}] :
          Total(sizes) = result.len /\ prev'.sizes = sizes
    BY <1>12 DEF Place
  <2>2. sizes \in [Sections -> Nat]
    BY SizesAreNumbers
  <2>3. phase' = "table" /\ cancelled' = cancelled /\ table' > 0 /\ phase = "sorted"
    BY <1>12 DEF Place, Tables
  <2>4. cancelled => AllEmpty(prev'.sizes)
    BY <2>1, <2>2, <2>3, TotalOf
  <2> QED BY <2>3, <2>4 DEF AllEmpty
<1>13. CASE Stopped
  BY <1>13 DEF Stopped, vars, AllEmpty
<1> QED BY <1>0, <1>1, <1>2, <1>3, <1>4, <1>5, <1>6, <1>7, <1>8, <1>9, <1>10, <1>11, <1>12,
           <1>13 DEF Next

\* A sorted table and its successor's input stay within their places.
LEMMA PlaceStep ==
  ASSUME TypeOK, PhaseInv, PlaceInv, [Next]_vars
  PROVE  PlaceInv'
<1> USE ConstantTypes DEF TypeOK, PlaceInv, InTable
<1>0. CASE UNCHANGED vars
  BY <1>0 DEF vars, AllEmpty, TmpAt, Total
<1>1. CASE BeginPlot \/ Allocate \/ CancelTable
  BY <1>1, BlockHolds DEF BeginPlot, Allocate, CancelTable, PhaseInv, Empty
<1>2. CASE GenerateXs
  BY <1>2, BlockHolds DEF GenerateXs
<1>3. CASE BeginTable
  BY <1>3 DEF BeginTable, AllEmpty, TmpAt, Total
<1>4. CASE BeginSection \/ SkipGroup \/ HashLeft
  BY <1>4 DEF BeginSection, SkipGroup, HashLeft, AllEmpty, TmpAt, Total
<1>5. CASE CancelSection
  BY <1>5, BlockHolds DEF CancelSection, Empty
<1>6. ASSUME NEW n \in 0 .. yield, FindPairs(n)
      PROVE  PlaceInv'
  BY <1>6 DEF FindPairs, AllEmpty, TmpAt, Total
<1>7. CASE EndGroup
  BY <1>7 DEF EndGroup, AllEmpty, TmpAt, Total
<1>8. CASE EndSection
  BY <1>8, BlockHolds DEF EndSection, AllEmpty, TmpAt, Total
<1>9. CASE Sort
  <2>1. /\ result'.len = cursor /\ result'.at \in {OutAt, TmpAt(table)}
        /\ phase' = "sorted" /\ pairs' = pairs /\ table' = table /\ cursor <= pairs
    BY <1>9 DEF Sort
  <2> QED BY <2>1 DEF OutAt, TmpAt
<1>10. CASE SortThrows \/ CopyOut
  BY <1>10 DEF SortThrows, CopyOut
<1>11. CASE Place
  <2>1. PICK sizes \in [Sections -> SectionSizes \cup {0}] :
          /\ Total(sizes) = result.len
          /\ result.len > 0 => \A s \in Sections : sizes[s] \in SectionSizes
          /\ prev' = [at |-> IF result.at = OutAt THEN TmpAt(table) ELSE result.at,
                      sizes |-> sizes]
    BY <1>11 DEF Place
  <2>2. /\ phase = "sorted" /\ phase' = "table" /\ table' = table + 1
    BY <1>11 DEF Place
  <2>3. prev'.sizes = sizes /\ sizes \in [Sections -> Nat]
    BY <2>1, SizesAreNumbers
  <2>4. Total(sizes) <= MaxPairs
    BY <2>1, <2>2, BlockHolds
  <2>5. AllEmpty(sizes) \/ sizes \in [Sections -> SectionSizes]
    <3>1. CASE result.len > 0
      BY <2>1, <3>1
    <3>2. CASE result.len = 0
      BY <2>1, <2>3, <3>2, TotalOf
    <3> QED BY <3>1, <3>2
  <2>6. AllEmpty(sizes) \/ prev'.at = TmpAt(table)
    <3>1. CASE result = Empty
      BY <2>1, <2>3, <3>1, TotalOf DEF Empty
    <3>2. CASE result # Empty
      BY <2>1, <2>2, <3>2
    <3> QED BY <3>1, <3>2
  <2>7. table' - 1 = table
    BY <2>2 DEF Tables
  <2>8. Total(prev'.sizes) <= MaxPairs
    BY <2>3, <2>4
  <2>9. AllEmpty(prev'.sizes) \/ prev'.at = TmpAt(table' - 1)
    BY <2>3, <2>6, <2>7
  <2>10. AllEmpty(prev'.sizes) \/ prev'.sizes \in [Sections -> SectionSizes]
    BY <2>3, <2>5
  <2> QED BY <2>2, <2>8, <2>9, <2>10 DEF AllEmpty, TmpAt, Total
<1>12. CASE Stopped
  BY <1>12 DEF Stopped, vars, AllEmpty, TmpAt, Total
<1> QED BY <1>0, <1>1, <1>2, <1>3, <1>4, <1>5, <1>6, <1>7, <1>8, <1>9, <1>10, <1>11, <1>12
        DEF Next

-----------------------------------------------------------------------------
(* Words of memory.                                                        *)

\* A write changes its own words and no other.
LEMMA WrittenWord ==
  ASSUME NEW m, NEW at, NEW t, NEW lo, NEW hi, NEW name, NEW u \in DOMAIN m
  PROVE  /\ DOMAIN Write(m, at, t, lo, hi, name) = DOMAIN m
         /\ u \in Cells(at, t, lo, hi) =>
              Write(m, at, t, lo, hi, name)[u] = <<name, t, (u - at) \div Words(t)>>
         /\ u \notin Cells(at, t, lo, hi) => Write(m, at, t, lo, hi, name)[u] = m[u]
BY DEF Write

\* Spans grow with the number of their entries; a whole table is the largest.
LEMMA SpanWords ==
  ASSUME NEW t \in Tables, NEW a \in Nat, NEW b \in Nat, a <= b
  PROVE  /\ a * Words(t) \in Nat /\ b * Words(t) \in Nat
         /\ a * Words(t) <= b * Words(t)
         /\ b <= MaxPairs => b * Words(t) <= Words(t) * MaxPairs
<1>1. Words(t) \in {2, 3, 4}
  BY Layout
<1>2. MaxPairs \in Nat
  BY BlockHolds
<1>3. \A w \in {2, 3, 4}, n \in Nat :
        /\ a * w \in Nat /\ b * w \in Nat /\ a * w <= b * w
        /\ b <= n => b * w <= w * n
  OBVIOUS
<1> QED BY <1>1, <1>2, <1>3

\* A table in the output place or in its sort buffer is in memory.
LEMMA PlaceInMemory ==
  ASSUME NEW t \in Tables, NEW len \in Nat, len <= MaxPairs,
         NEW at \in {OutAt, TmpAt(t)}
  PROVE  Cells(at, t, 0, len) \subseteq Memory
<1>1. /\ len * Words(t) \in Nat /\ len * Words(t) <= Words(t) * MaxPairs
      /\ 0 * Words(t) = 0
  BY SpanWords, Layout
<1>2. /\ OutAt = 0 /\ TmpAt(t) \in Nat
      /\ TmpAt(t) + Words(t) * MaxPairs <= NumBlocks * Block
      /\ Words(t) * MaxPairs <= NumBlocks * Block
      /\ Words(t) * MaxPairs \in Nat /\ NumBlocks * Block \in Nat
  BY Layout, BlockHolds DEF NumBlocks
<1> DEFINE w == len * Words(t)
           r == Words(t) * MaxPairs
           n == NumBlocks * Block
<1> HIDE DEF w, r, n
<1>3. at + 0 * Words(t) = at /\ at \in Nat /\ at + w <= n
  BY <1>1, <1>2 DEF w, r, n
<1>4. at .. at + w - 1 \subseteq 0 .. n - 1
  BY <1>1, <1>2, <1>3 DEF w, n
<1> QED BY <1>3, <1>4 DEF Cells, Memory, w, n

-----------------------------------------------------------------------------
(* Sorted tables and hashed candidates.                                    *)

\* A sort leaves its result in the buffer that the number of its passes says.
LEMMA SortedIsThere ==
  ASSUME TypeOK, PlaceInv, Sort
  PROVE  Intact(result.at, table, 0, result.len)'
<1> DEFINE older == IF Odd THEN OutAt ELSE TmpAt(table)
           final == IF Odd THEN TmpAt(table) ELSE OutAt
           under == Write(mem, older, table, 0, cursor, "raw")
<1>1. /\ mem' = Write(under, final, table, 0, cursor, "sorted")
      /\ result'.at = final /\ result'.len = cursor /\ table' = table
  BY DEF Sort
<1>2. /\ table \in Tables /\ cursor \in Nat /\ cursor <= MaxPairs
      /\ final \in {OutAt, TmpAt(table)} /\ DOMAIN mem = Memory
  BY BlockHolds DEF TypeOK, PlaceInv, Sort
<1>3. DOMAIN under = Memory
  BY <1>2 DEF Write
<1> HIDE DEF final, under
<1>4. \A u \in Cells(final, table, 0, cursor) :
        mem'[u] = <<"sorted", table, (u - final) \div Words(table)>>
  BY <1>1, <1>2, <1>3, PlaceInMemory, WrittenWord
<1> QED BY <1>1, <1>4 DEF Intact, Cells

\* The copy out of the output place is as good as what was copied.
LEMMA PlacedIsThere ==
  ASSUME TypeOK, PlaceInv, ResultKept, Place
  PROVE  Intact(prev.at, table - 1, 0, Total(prev.sizes))'
<1> DEFINE len == result.len
<1>1. /\ phase = "sorted" /\ table \in Tables /\ table' - 1 = table
      /\ Total(prev'.sizes) = len /\ len \in Nat /\ len <= pairs /\ pairs <= MaxPairs
      /\ pairs \in Nat /\ DOMAIN mem = Memory
  BY BlockHolds DEF TypeOK, PlaceInv, Place, Tables
<1>2. Intact(result.at, table, 0, len)
  BY <1>1 DEF ResultKept
<1>3. CASE result.at # OutAt
  <2>1. mem' = mem /\ prev'.at = result.at
    BY <1>3 DEF Place
  <2> QED BY <1>1, <1>2, <2>1 DEF Intact, Cells
<1>4. CASE result.at = OutAt
  <2>1. /\ mem' = [u \in Memory |-> IF u \in Cells(TmpAt(table), table, 0, pairs)
                                      THEN mem[u - TmpAt(table) + OutAt] ELSE mem[u]]
        /\ prev'.at = TmpAt(table)
    BY <1>4 DEF Place
  <2>2. ASSUME NEW u \in Cells(TmpAt(table), table, 0, len)
        PROVE  mem'[u] = <<"sorted", table, (u - TmpAt(table)) \div Words(table)>>
    <3>1. u \in Memory
      <4>1. len <= MaxPairs
        BY <1>1, BlockHolds
      <4> HIDE DEF len
      <4> QED BY <1>1, <2>2, <4>1, PlaceInMemory
    <3>2. /\ 0 * Words(table) = 0 /\ TmpAt(table) \in Nat /\ OutAt = 0
          /\ len * Words(table) \in Nat /\ pairs * Words(table) \in Nat
          /\ len * Words(table) <= pairs * Words(table)
      BY <1>1, Layout, SpanWords
    <3>3. u \in TmpAt(table) .. TmpAt(table) + len * Words(table) - 1
      BY <2>2, <3>2 DEF Cells
    <3>4. u \in Cells(TmpAt(table), table, 0, pairs)
      BY <3>2, <3>3 DEF Cells
    <3>5. u - TmpAt(table) + OutAt = u - TmpAt(table)
      BY <3>2, <3>3
    <3>6. u - TmpAt(table) \in Cells(OutAt, table, 0, len)
      BY <3>2, <3>3 DEF Cells
    <3>7. mem[u - TmpAt(table)]
            = <<"sorted", table, (u - TmpAt(table) - OutAt) \div Words(table)>>
      BY <1>2, <1>4, <3>6 DEF Intact
    <3>8. u - TmpAt(table) - OutAt = u - TmpAt(table)
      BY <3>2, <3>3
    <3> QED BY <2>1, <3>1, <3>4, <3>5, <3>7, <3>8
  <2> QED BY <1>1, <2>1, <2>2 DEF Intact, Cells
<1> QED BY <1>3, <1>4

\* An empty span has no words.
LEMMA NothingToRead ==
  ASSUME NEW t \in Tables
  PROVE  Cells(-1, t, 0, 0) = {}
<1>1. 0 * Words(t) = 0
  BY Layout
<1> QED BY <1>1 DEF Cells

\* Every step keeps sorted tables where their spans say.
LEMMA ResultStep ==
  ASSUME TypeOK, PhaseInv, PlaceInv, ResultKept, [Next]_vars
  PROVE  ResultKept'
<1>0. CASE UNCHANGED vars
  BY <1>0 DEF vars, ResultKept, Intact, Cells, Total
<1>1. CASE BeginPlot \/ Allocate \/ GenerateXs \/ BeginTable
  BY <1>1 DEF BeginPlot, Allocate, GenerateXs, BeginTable, ResultKept, PhaseInv
<1>2. CASE CancelTable \/ CancelSection
  <2>1. phase' = "sorted" /\ result' = Empty /\ table' = table /\ table \in Tables
    BY <1>2 DEF CancelTable, CancelSection, TypeOK
  <2>2. Cells(result'.at, table', 0, result'.len) = {}
    BY <2>1, NothingToRead DEF Empty
  <2> QED BY <2>1, <2>2 DEF ResultKept, Intact, Cells
<1>3. CASE BeginSection \/ SkipGroup \/ HashLeft
  BY <1>3 DEF BeginSection, SkipGroup, HashLeft, ResultKept
<1>4. ASSUME NEW n \in 0 .. yield, FindPairs(n)
      PROVE  ResultKept'
  BY <1>4 DEF FindPairs, ResultKept
<1>5. CASE EndGroup \/ EndSection
  BY <1>5 DEF EndGroup, EndSection, ResultKept
<1>6. CASE Sort
  BY <1>6, SortedIsThere DEF Sort, ResultKept
<1>7. CASE SortThrows \/ CopyOut
  BY <1>7 DEF SortThrows, CopyOut, ResultKept
<1>8. CASE Place
  BY <1>8, PlacedIsThere DEF Place, ResultKept
<1>9. CASE Stopped
  BY <1>9 DEF Stopped, vars, ResultKept, Intact, Cells, Total, Final
<1> QED BY <1>0, <1>1, <1>2, <1>3, <1>4, <1>5, <1>6, <1>7, <1>8, <1>9 DEF Next

\* What hashing writes, if it does not throw, fits in the scratch, whatever room the
\* splits take behind it.
LEMMA HashingWrites ==
  ASSUME TypeOK, PhaseInv, HashLeft
  PROVE  \/ phase' = "thrown" /\ mem' = mem
         \/ /\ ~ (2 * LeftCount * Words(table - 1) > TargetBlocks(table) * Block)
            /\ mem' = Write(mem, TargetAt(table), table - 1, 0, 2 * LeftCount, "left")
<1> DEFINE w    == 2 * LeftCount * Words(table - 1)
           room == TargetBlocks(table) * Block
           new  == Write(mem, TargetAt(table), table - 1, 0, 2 * LeftCount, "left")
           tight == ~MinorHolds(minor, SortNeed(LeftPasses))
<1>1. table \in 1 .. 3 /\ table \in Tables /\ walk \in 0 .. 3
  BY DEF PhaseInv, InTable, HashLeft, Tables
<1>2. w \in Nat
  <2>1. table - 1 \in Tables /\ 2 * LeftCount \in Nat
    BY <1>1, CountsAreNumbers DEF Tables
  <2> QED BY <2>1, SpanWords
<1>3. room \in Nat
  BY <1>1, Layout, BlockHolds
<1>4. \E splits \in SplitNeeds : IF w + splits > room \/ tight
                                 THEN phase' = "thrown" /\ UNCHANGED <<mem, minor>>
                                 ELSE mem' = new
  BY DEF HashLeft
<1>5. SplitNeeds \subseteq Nat
  BY PlotterAssumption, Zenon
<1> HIDE DEF w, room, new, tight
<1>6. (phase' = "thrown" /\ mem' = mem) \/ (~(w > room) /\ mem' = new)
  BY <1>2, <1>3, <1>4, <1>5
<1> QED BY <1>6 DEF w, room, new

\* The scratch of a table holds the candidates and their second array, or HashLeft throws.
LEMMA HashedIsThere ==
  ASSUME TypeOK, PhaseInv, HashLeft, phase' = "find"
  PROVE  LeftInv'
<1> DEFINE at == TargetAt(table)
           w  == 2 * LeftCount * Words(table - 1)
           n  == NumBlocks * Block
<1>1. /\ table \in 1 .. 3 /\ table \in Tables /\ walk \in 0 .. 3 /\ DOMAIN mem = Memory
      /\ ~ (w > TargetBlocks(table) * Block)
      /\ mem' = Write(mem, at, table - 1, 0, 2 * LeftCount, "left")
      /\ table' = table /\ LeftCount' = LeftCount
  <2>1. phase' # "thrown"
    OBVIOUS
  <2>2. /\ table \in 1 .. 3 /\ table \in Tables /\ walk \in 0 .. 3 /\ DOMAIN mem = Memory
        /\ table' = table /\ LeftCount' = LeftCount
    BY DEF TypeOK, PhaseInv, InTable, HashLeft, LeftCount, Tables
  <2> QED BY <2>1, <2>2, HashingWrites
<1>2. /\ at \in Nat /\ TargetBlocks(table) * Block \in Nat
      /\ at + TargetBlocks(table) * Block <= n /\ n \in Nat
  BY <1>1, Layout, BlockHolds DEF NumBlocks
<1>3. /\ w \in Nat /\ 0 * Words(table - 1) = 0
  <2>1. table - 1 \in Tables /\ 2 * LeftCount \in Nat
    BY <1>1, CountsAreNumbers DEF Tables
  <2> QED BY <2>1, Layout, SpanWords
<1>4. Cells(at, table - 1, 0, 2 * LeftCount) = at .. at + w - 1
  BY <1>2, <1>3 DEF Cells
<1> HIDE DEF w, at, n
<1>5. at .. at + w - 1 \subseteq 0 .. n - 1
  BY <1>1, <1>2, <1>3
<1>6. \A u \in Cells(at, table - 1, 0, 2 * LeftCount) : u \in Memory /\ mem'[u][1] = "left"
  <2> SUFFICES ASSUME NEW u \in Cells(at, table - 1, 0, 2 * LeftCount)
               PROVE  u \in Memory /\ mem'[u][1] = "left"
    OBVIOUS
  <2>1. u \in Memory
    BY <1>4, <1>5 DEF Memory, n
  <2>2. mem'[u] = <<"left", table - 1, (u - at) \div Words(table - 1)>>
    BY <1>1, <2>1, WrittenWord
  <2> QED BY <2>1, <2>2
<1>7. Cells(TargetAt(table), table - 1, 0, 2 * LeftCount)'
        = Cells(at, table - 1, 0, 2 * LeftCount)
  BY <1>1 DEF at, Cells, TargetAt
<1> QED BY <1>6, <1>7 DEF LeftInv

\* The pairings of a group go to words of the output place of their table.
LEMMA FoundGoesOut ==
  ASSUME TypeOK, PhaseInv, NEW k \in 0 .. yield, FindPairs(k), NEW u \in Memory, mem'[u] # mem[u]
  PROVE  /\ u < Words(table) * MaxPairs
         /\ u < (cursor + k) * Words(table)
<1> DEFINE top == Min({cursor + k, pairs})
<1>1. /\ table \in 1 .. 3 /\ table \in Tables /\ DOMAIN mem = Memory
      /\ cursor \in Nat /\ pairs \in Nat /\ pairs <= MaxPairs /\ k \in Nat
  BY BlockHolds DEF TypeOK, PhaseInv, InTable, FindPairs, Tables
<1>2. mem' = Write(mem, OutAt, table, cursor, top, "raw")
  BY DEF FindPairs
<1>3. top \in Nat /\ top <= cursor + k /\ top <= pairs
  BY <1>1, MinPair
<1> HIDE DEF top
<1>4. u \in Cells(OutAt, table, cursor, top)
  BY <1>1, <1>2, WrittenWord
<1>5. /\ OutAt = 0 /\ cursor * Words(table) \in Nat /\ top * Words(table) \in Nat
      /\ top * Words(table) <= Words(table) * MaxPairs
      /\ (cursor + k) * Words(table) \in Nat
      /\ top * Words(table) <= (cursor + k) * Words(table)
      /\ Words(table) * MaxPairs \in Nat
  <2>1. top <= MaxPairs /\ cursor + k \in Nat
    BY <1>1, <1>3, BlockHolds
  <2>2. Words(table) * MaxPairs \in Nat
    BY <1>1, Layout, BlockHolds
  <2> QED BY <1>1, <1>3, <2>1, <2>2, Layout, SpanWords
<1>6. u < top * Words(table)
  BY <1>4, <1>5 DEF Cells
<1>7. u \in Nat
  BY BlockHolds DEF Memory, NumBlocks
<1> QED BY <1>5, <1>6, <1>7

\* Every step keeps the hashed candidates of the running group.
LEMMA LeftStep ==
  ASSUME TypeOK, PhaseInv, LeftInv, [Next]_vars
  PROVE  LeftInv'
<1>0. CASE UNCHANGED vars
  BY <1>0 DEF vars, LeftInv, Cells, TargetAt, LeftCount
<1>1. CASE BeginPlot \/ Allocate \/ CancelTable \/ GenerateXs \/ BeginTable
  BY <1>1 DEF BeginPlot, Allocate, CancelTable, GenerateXs, BeginTable, LeftInv
<1>2. CASE BeginSection \/ CancelSection \/ SkipGroup
  BY <1>2 DEF BeginSection, CancelSection, SkipGroup, LeftInv
<1>3. CASE HashLeft
  <2>1. CASE phase' = "find"
    BY <1>3, <2>1, HashedIsThere
  <2>2. CASE phase' # "find"
    BY <1>3, <2>2 DEF HashLeft, LeftInv
  <2> QED BY <2>1, <2>2
<1>4. ASSUME NEW k \in 0 .. yield, FindPairs(k)
      PROVE  LeftInv'
  <2>1. /\ phase = "find" /\ table' = table /\ LeftCount' = LeftCount
        /\ table \in 1 .. 3 /\ table \in Tables /\ walk \in 0 .. 3
    BY <1>4 DEF FindPairs, LeftCount, PhaseInv, InTable, TypeOK
  <2> DEFINE C == Cells(TargetAt(table), table - 1, 0, 2 * LeftCount)
  <2>2. Cells(TargetAt(table), table - 1, 0, 2 * LeftCount)' = C
    BY <2>1 DEF Cells, TargetAt
  <2>3. \A u \in C : u \in Memory /\ mem[u][1] = "left"
    BY <2>1 DEF LeftInv
  <2>4. \A u \in C : u \in Nat /\ Words(table) * MaxPairs <= u
    <3>1. TargetAt(table) \in Nat /\ Words(table) * MaxPairs <= TargetAt(table)
          /\ 0 * Words(table - 1) = 0
      <4>1. table - 1 \in Tables
        BY <2>1 DEF Tables
      <4> QED BY <2>1, <4>1, Layout
    <3>2. 2 * LeftCount * Words(table - 1) \in Nat
      <4>1. table - 1 \in Tables /\ 2 * LeftCount \in Nat
        BY <2>1, CountsAreNumbers DEF Tables
      <4> QED BY <4>1, SpanWords
    <3>3. Words(table) * MaxPairs \in Nat
      BY <2>1, Layout, BlockHolds
    <3> QED BY <3>1, <3>2, <3>3 DEF Cells
  <2>5. ASSUME NEW u \in C PROVE mem'[u] = mem[u]
    <3>1. u \in Memory /\ u \in Nat /\ Words(table) * MaxPairs <= u
      BY <2>3, <2>4
    <3>2. Words(table) * MaxPairs \in Nat
      BY <2>1, Layout, BlockHolds
    <3> HIDE DEF C
    <3> QED BY <1>4, <3>1, <3>2, FoundGoesOut
  <2> HIDE DEF C
  <2> QED BY <2>1, <2>2, <2>3, <2>5 DEF LeftInv
<1>5. CASE EndGroup \/ EndSection
  BY <1>5 DEF EndGroup, EndSection, LeftInv
<1>6. CASE Sort \/ SortThrows \/ Place \/ CopyOut
  BY <1>6 DEF Sort, SortThrows, Place, CopyOut, LeftInv
<1>7. CASE Stopped
  BY <1>7 DEF Stopped, vars, LeftInv, Cells, TargetAt, LeftCount
<1> QED BY <1>0, <1>1, <1>2, <1>3, <1>4, <1>5, <1>6, <1>7 DEF Next

-----------------------------------------------------------------------------
(* The input of a table, for sections that are even.                       *)

\* Every step keeps the bound on what the pairs of sections have put out.
LEMMA YieldStep ==
  ASSUME Even, TypeOK, PhaseInv, YieldInv, [Next]_vars
  PROVE  YieldInv'
<1> USE DEF InTable
<1>a. /\ cursor \in Nat /\ yield \in Nat /\ walk \in 0 .. 4 /\ MaxSection \in Nat
      /\ 7 * MaxSection \in Nat
  BY BlockHolds DEF TypeOK
<1> DEFINE m == 7 * MaxSection
<1>b. \A w \in 0 .. 4 : m * w \in Nat /\ m * (w + 1) = (m * w) + m
  <2> HIDE DEF m
  <2> QED BY <1>a DEF m
<1>c. YieldInv <=> (InTable =>
        4 * (cursor + (IF phase = "section" THEN 0 ELSE yield))
          <= m * (IF phase = "section" THEN walk ELSE walk + 1))
  BY DEF YieldInv
<1>d. YieldInv' <=> (InTable' =>
        4 * (cursor' + (IF phase' = "section" THEN 0 ELSE yield'))
          <= m * (IF phase' = "section" THEN walk' ELSE walk' + 1))
  BY DEF YieldInv
<1>m. m \in Nat
  BY <1>a
<1> HIDE DEF m
<1>0. CASE UNCHANGED vars
  BY <1>0, <1>c, <1>d DEF vars
<1>1. CASE BeginPlot \/ Allocate \/ CancelTable \/ GenerateXs
  BY <1>1, <1>d DEF BeginPlot, Allocate, CancelTable, GenerateXs
<1>2. CASE BeginTable
  <2>1. m * 0 = 0
    BY <1>m
  <2> QED BY <1>2, <1>d, <2>1 DEF BeginTable
<1>3. CASE BeginSection
  <2>1. 4 * cursor <= m * walk
    BY <1>3, <1>a, <1>c DEF BeginSection
  <2>2. yield' \in Nat /\ 4 * yield' <= m
    <3>1. yield' \in Yields \cup {0}
      BY <1>3 DEF BeginSection
    <3>2. \A n \in Yields : n \in Nat /\ 4 * n <= m
      BY ConstantTypes DEF Even, m
    <3> QED BY <1>m, <3>1, <3>2
  <2>3. m * walk \in Nat /\ m * (walk + 1) = (m * walk) + m
    BY <1>a, <1>b
  <2>4. 4 * (cursor + yield') <= m * (walk + 1)
    <3> DEFINE before == m * walk
               after  == m * (walk + 1)
               gain   == yield'
    <3>1. /\ before \in Nat /\ after = before + m /\ 4 * cursor <= before
          /\ cursor \in Nat /\ gain \in Nat /\ 4 * gain <= m
      BY <1>a, <2>1, <2>2, <2>3, Zenon
    <3> HIDE DEF before, after, gain
    <3>2. 4 * (cursor + gain) = (4 * cursor) + (4 * gain)
      BY <3>1
    <3>3. 4 * (cursor + gain) <= after
      BY <1>m, <3>1, <3>2
    <3> QED BY <3>3 DEF after, gain
  <2>5. cursor' = cursor /\ walk' = walk /\ phase' = "group"
    BY <1>3 DEF BeginSection
  <2>6. 4 * (cursor' + (IF phase' = "section" THEN 0 ELSE yield'))
          <= m * (IF phase' = "section" THEN walk' ELSE walk' + 1)
    BY <2>4, <2>5
  <2> QED BY <1>d, <2>6
<1>4. CASE CancelSection \/ SkipGroup \/ HashLeft \/ EndGroup
  BY <1>4, <1>c, <1>d DEF CancelSection, SkipGroup, HashLeft, EndGroup
<1>5. ASSUME NEW k \in 0 .. yield, FindPairs(k)
      PROVE  YieldInv'
  <2>1. cursor' + yield' = cursor + yield /\ walk' = walk /\ phase = "find" /\ phase' = "join"
    BY <1>5, <1>a DEF FindPairs
  <2> QED BY <1>c, <1>d, <2>1
<1>6. CASE EndSection
  <2>1. 4 * (cursor + yield) <= m * (walk + 1)
    BY <1>6, <1>c DEF EndSection
  <2>2. 4 * cursor <= m * (walk + 1)
    BY <1>a, <1>b, <1>m, <2>1
  <2>3. walk' = walk + 1 /\ cursor' = cursor /\ phase' \in {"section", "thrown", "sort"}
    BY <1>6 DEF EndSection
  <2> QED BY <1>a, <1>d, <2>2, <2>3
<1>7. CASE Sort \/ SortThrows \/ Place \/ CopyOut
  BY <1>7, <1>d DEF Sort, SortThrows, Place, CopyOut
<1>8. CASE Stopped
  BY <1>8, <1>c, <1>d DEF Stopped, vars
<1> QED BY <1>0, <1>1, <1>2, <1>3, <1>4, <1>5, <1>6, <1>7, <1>8 DEF Next

\* The words of a section lie within the words of the previous table.
LEMMA SectionWords ==
  ASSUME TypeOK, PlaceInv, InTable, table \in 1 .. 3, NEW s \in Sections,
         ~ AllEmpty(prev.sizes),
         NEW u \in Cells(prev.at, table - 1, SectionFirst(s), SectionEnd(s))
  PROVE  /\ u \in Nat
         /\ TmpAt(table - 1) + SectionFirst(s) * Words(table - 1) <= u
         /\ u < TmpAt(table - 1) + Words(table - 1) * MaxPairs
<1>1. /\ prev.sizes \in [Sections -> Nat] /\ prev.at = TmpAt(table - 1)
      /\ Total(prev.sizes) <= MaxPairs /\ table - 1 \in Tables
  BY DEF TypeOK, PlaceInv, Tables
<1>2. /\ SectionFirst(s) \in Nat /\ SectionEnd(s) \in Nat
      /\ SectionFirst(s) <= SectionEnd(s) /\ SectionEnd(s) <= Total(prev.sizes)
  BY <1>1, SectionsInTable
<1>3. SectionEnd(s) <= MaxPairs
  <2>1. Total(prev.sizes) \in Nat
    BY <1>1, TotalOf
  <2> QED BY <1>1, <1>2, <2>1, BlockHolds
<1>4. /\ SectionFirst(s) * Words(table - 1) \in Nat /\ SectionEnd(s) * Words(table - 1) \in Nat
      /\ SectionEnd(s) * Words(table - 1) <= Words(table - 1) * MaxPairs
      /\ TmpAt(table - 1) \in Nat /\ Words(table - 1) * MaxPairs \in Nat
  <2>1. Words(table - 1) * MaxPairs \in Nat
    BY <1>1, Layout, BlockHolds
  <2> QED BY <1>1, <1>2, <1>3, <2>1, Layout, SpanWords
<1>5. u \in TmpAt(table - 1) + SectionFirst(s) * Words(table - 1)
              .. TmpAt(table - 1) + SectionEnd(s) * Words(table - 1) - 1
  BY <1>1 DEF Cells
<1> QED BY <1>4, <1>5

\* Hashing a left section overwrites no word of the previous table.
LEMMA HashingSpares ==
  ASSUME TypeOK, PlaceInv, PhaseInv, HashLeft, NEW s \in Sections,
         NEW u \in Cells(prev.at, table - 1, SectionFirst(s), SectionEnd(s)),
         ~ AllEmpty(prev.sizes), u \in Memory
  PROVE  mem'[u] = mem[u]
<1> DEFINE w == 2 * LeftCount * Words(table - 1)
<1>1. /\ table \in 1 .. 3 /\ table \in Tables /\ walk \in 0 .. 3 /\ InTable /\ DOMAIN mem = Memory
  BY DEF TypeOK, PhaseInv, InTable, HashLeft, Tables
<1>2. /\ u \in Nat /\ TmpAt(table - 1) <= u
      /\ u < TmpAt(table - 1) + Words(table - 1) * MaxPairs
  <2>1. /\ u \in Nat /\ TmpAt(table - 1) + SectionFirst(s) * Words(table - 1) <= u
        /\ u < TmpAt(table - 1) + Words(table - 1) * MaxPairs
    BY <1>1, SectionWords
  <2>2. SectionFirst(s) * Words(table - 1) \in Nat /\ TmpAt(table - 1) \in Nat
    <3>1. SectionFirst(s) \in Nat /\ table - 1 \in Tables
      BY <1>1, SectionsInTable DEF TypeOK, Tables
    <3> QED BY <3>1, SpanWords, Layout
  <2> QED BY <2>1, <2>2
<1>3. CASE mem' = mem
  BY <1>3
<1>4. CASE /\ ~ (w > TargetBlocks(table) * Block)
           /\ mem' = Write(mem, TargetAt(table), table - 1, 0, 2 * LeftCount, "left")
  <2>1. /\ TargetAt(table) \in Nat /\ TargetBlocks(table) * Block \in Nat
        /\ \/ TargetAt(table) + TargetBlocks(table) * Block <= TmpAt(table - 1)
           \/ TmpAt(table - 1) + Words(table - 1) * MaxPairs <= TargetAt(table)
        /\ TmpAt(table - 1) \in Nat /\ Words(table - 1) * MaxPairs \in Nat
        /\ 0 * Words(table - 1) = 0
    <3>1. table - 1 \in Tables
      BY <1>1 DEF Tables
    <3>2. Words(table - 1) * MaxPairs \in Nat
      BY <3>1, Layout, BlockHolds
    <3> QED BY <1>1, <3>1, <3>2, Layout
  <2>2. w \in Nat
    <3>1. table - 1 \in Tables /\ 2 * LeftCount \in Nat
      BY <1>1, CountsAreNumbers DEF Tables
    <3> QED BY <3>1, SpanWords
  <2>3. Cells(TargetAt(table), table - 1, 0, 2 * LeftCount)
          = TargetAt(table) .. TargetAt(table) + w - 1
    BY <2>1, <2>2 DEF Cells
  <2> HIDE DEF w
  <2>4. u \notin TargetAt(table) .. TargetAt(table) + w - 1
    BY <1>2, <1>4, <2>1, <2>2
  <2>5. u \notin Cells(TargetAt(table), table - 1, 0, 2 * LeftCount) /\ u \in DOMAIN mem
    BY <1>1, <2>3, <2>4
  <2>6. Write(mem, TargetAt(table), table - 1, 0, 2 * LeftCount, "left")[u] = mem[u]
    BY <2>5, WrittenWord
  <2> QED BY <1>4, <2>6
<1> QED BY <1>3, <1>4, HashingWrites

\* From the third pair of sections on, section 0 is not looked at.
LEMMA SectionZeroIsPast ==
  ASSUME NEW p \in 2 .. 3
  PROVE  LeftOf(p) # 0 /\ RightOf(p) # 0
BY DEF LeftOf, RightOf, Order

\* The pairings of a group overwrite no section that is still to be read.
LEMMA FindingSpares ==
  ASSUME Even, TypeOK, PlaceInv, PhaseInv, YieldInv, NEW k \in 0 .. yield, FindPairs(k),
         NEW p \in walk .. 3, NEW s \in {LeftOf(p), RightOf(p)},
         NEW u \in Cells(prev.at, table - 1, SectionFirst(s), SectionEnd(s)),
         ~ AllEmpty(prev.sizes), u \in Memory
  PROVE  mem'[u] = mem[u]
<1>1. /\ table \in 1 .. 3 /\ table \in Tables /\ walk \in 0 .. 3 /\ InTable /\ phase = "find"
      /\ table - 1 \in Tables /\ cursor \in Nat /\ yield \in Nat /\ k <= yield /\ k \in Nat
  BY DEF TypeOK, PhaseInv, InTable, FindPairs, Tables
<1>2. s \in Sections /\ p \in 0 .. 3
  BY <1>1, WalkedSections
<1> DEFINE f == SectionFirst(s)
<1>3. f \in Nat /\ (s # 0 => prev.sizes[0] <= f) /\ prev.sizes[0] \in Nat
  BY <1>2, SectionsInTable DEF TypeOK, Sections
<1>4. u \in Nat /\ TmpAt(table - 1) + f * Words(table - 1) <= u
  BY <1>1, <1>2, SectionWords
<1> HIDE DEF f
<1>5. f * Words(table - 1) \in Nat /\ TmpAt(table - 1) \in Nat
  BY <1>1, <1>3, SpanWords, Layout
<1>6. SUFFICES ASSUME mem'[u] # mem[u] PROVE FALSE
  OBVIOUS
<1>7. u < Words(table) * MaxPairs /\ u < (cursor + k) * Words(table)
  BY <1>6, FoundGoesOut
<1>8. CASE table # 2
  <2>1. Words(table) * MaxPairs <= TmpAt(table - 1) /\ Words(table) * MaxPairs \in Nat
    BY <1>1, <1>8, Layout, BlockHolds
  <2> QED BY <1>4, <1>5, <1>7, <2>1
<1>9. CASE table = 2
  <2>1. /\ TmpAt(table - 1) = 14 * Block /\ Words(table) = 4 /\ Words(table - 1) = 3
        /\ MaxSection \in Nat /\ Block \in Nat /\ MaxSection <= Block
        /\ MaxPairs = 4 * MaxSection
    BY <1>1, <1>9, Layout, BlockHolds
  <2>2. 14 * Block + f * 3 <= u /\ u < 4 * (4 * MaxSection) /\ u < (cursor + k) * 4
    BY <1>4, <1>7, <2>1
  <2>3. CASE walk \in 0 .. 1
    <3>1. 4 * (cursor + yield) <= 7 * MaxSection * (walk + 1)
      BY <1>1 DEF YieldInv
    <3>2. 7 * MaxSection * (walk + 1) <= 14 * MaxSection
      <4>1. walk = 0 \/ walk = 1
        BY <2>3
      <4> QED BY <2>1, <4>1
    <3>3. 7 * MaxSection * (walk + 1) \in Nat
      BY <1>1, <2>1
    <3>4. 4 * (cursor + yield) <= 14 * MaxSection
      BY <1>1, <2>1, <3>1, <3>2, <3>3
    <3> QED BY <1>1, <1>3, <1>4, <2>1, <2>2, <3>4
  <2>4. CASE walk \in 2 .. 3
    <3>1. s # 0
      <4>1. p \in 2 .. 3
        BY <1>2, <2>4
      <4> QED BY <4>1, SectionZeroIsPast
    <3>2. 2 * MaxSection <= 3 * prev.sizes[0]
      <4>1. prev.sizes \in [Sections -> SectionSizes]
        BY <1>1 DEF PlaceInv
      <4>2. prev.sizes[0] \in SectionSizes
        BY <4>1 DEF Sections
      <4> QED BY <4>2 DEF Even
    <3> QED BY <1>3, <1>4, <2>1, <2>2, <3>1, <3>2
  <2> QED BY <1>1, <2>3, <2>4
<1> QED BY <1>8, <1>9

\* A new table finds all of its input where the sort or the copy has left it.
LEMMA InputAtHand ==
  ASSUME TypeOK, PlaceInv, ResultKept, BeginTable, NEW s \in Sections
  PROVE  Intact(prev.at, table - 1, SectionFirst(s), SectionEnd(s))
<1>1. /\ phase = "table" /\ table > 0 /\ table \in Tables /\ table - 1 \in Tables
      /\ prev.sizes \in [Sections -> Nat]
  BY DEF BeginTable, TypeOK, Tables
<1>2. Intact(prev.at, table - 1, 0, Total(prev.sizes))
  BY <1>1 DEF ResultKept
<1>3. /\ SectionFirst(s) \in Nat /\ SectionEnd(s) \in Nat /\ Total(prev.sizes) \in Nat
      /\ SectionFirst(s) <= SectionEnd(s) /\ SectionEnd(s) <= Total(prev.sizes)
  BY <1>1, SectionsInTable, TotalOf
<1>4. CASE AllEmpty(prev.sizes)
  <2>1. SectionFirst(s) = 0 /\ SectionEnd(s) = 0 /\ Total(prev.sizes) = 0
    BY <1>1, <1>3, <1>4, TotalOf
  <2> QED BY <1>2, <2>1
<1>5. CASE prev.at = TmpAt(table - 1)
  <2> DEFINE a == SectionFirst(s) * Words(table - 1)
             b == SectionEnd(s) * Words(table - 1)
             c == Total(prev.sizes) * Words(table - 1)
  <2>1. /\ a \in Nat /\ b \in Nat /\ c \in Nat /\ b <= c /\ 0 * Words(table - 1) = 0
        /\ prev.at \in Nat
    BY <1>1, <1>3, <1>5, SpanWords, Layout
  <2>2. /\ Cells(prev.at, table - 1, SectionFirst(s), SectionEnd(s))
             = prev.at + a .. prev.at + b - 1
        /\ Cells(prev.at, table - 1, 0, Total(prev.sizes)) = prev.at .. prev.at + c - 1
    BY <2>1 DEF Cells
  <2> HIDE DEF a, b, c
  <2>3. prev.at + a .. prev.at + b - 1 \subseteq prev.at .. prev.at + c - 1
    BY <2>1
  <2> QED BY <1>2, <2>2, <2>3 DEF Intact
<1> QED BY <1>1, <1>4, <1>5 DEF PlaceInv

\* The words of a section are in memory.
LEMMA SectionInMemory ==
  ASSUME TypeOK, PlaceInv, InTable, table \in 1 .. 3, NEW s \in Sections,
         ~ AllEmpty(prev.sizes),
         NEW u \in Cells(prev.at, table - 1, SectionFirst(s), SectionEnd(s))
  PROVE  u \in Memory
<1> DEFINE top == TmpAt(table - 1) + Words(table - 1) * MaxPairs
           n   == NumBlocks * Block
<1>1. u \in Nat /\ u < top
  <2>1. SectionFirst(s) * Words(table - 1) \in Nat
    <3>1. SectionFirst(s) \in Nat /\ table - 1 \in Tables
      BY SectionsInTable DEF TypeOK, Tables
    <3> QED BY <3>1, SpanWords
  <2> QED BY <2>1, SectionWords
<1>2. top \in Nat /\ top <= n /\ n \in Nat
  <2>1. table - 1 \in Tables
    BY DEF Tables
  <2> QED BY <2>1, Layout, BlockHolds DEF NumBlocks
<1> HIDE DEF top, n
<1>3. u \in 0 .. n - 1
  BY <1>1, <1>2
<1> QED BY <1>3 DEF Memory, n

\* A step that leaves the table, its input and its words alone leaves them intact.
LEMMA IntactStays ==
  ASSUME NEW at, NEW t, NEW lo, NEW hi, Intact(at, t, lo, hi),
         \A u \in Cells(at, t, lo, hi) : mem'[u] = mem[u]
  PROVE  \A u \in Cells(at, t, lo, hi) : mem'[u] = <<"sorted", t, (u - at) \div Words(t)>>
BY DEF Intact

\* A section of an empty table has no words.
LEMMA EmptySections ==
  ASSUME prev.sizes \in [Sections -> Nat], AllEmpty(prev.sizes), NEW s \in Sections
  PROVE  SectionFirst(s) = 0 /\ SectionEnd(s) = 0
<1>1. /\ SectionFirst(s) \in Nat /\ SectionEnd(s) \in Nat /\ Total(prev.sizes) = 0
      /\ SectionFirst(s) <= SectionEnd(s) /\ SectionEnd(s) <= Total(prev.sizes)
  BY SectionsInTable, TotalOf
<1> QED BY <1>1

\* Every step keeps the sections that are still to be read.
LEMMA LiveStep ==
  ASSUME Even, IInv, YieldInv, LiveInput, [Next]_vars
  PROVE  LiveInput'
<1> USE DEF InTable
<1>i. TypeOK /\ PhaseInv /\ PlaceInv /\ EmptyInv /\ ResultKept
  BY DEF IInv
<1> DEFINE Kept == /\ InTable /\ prev' = prev /\ table' = table /\ walk' \in walk .. 4
                   /\ \A p \in walk .. 3, s \in Sections : s \in {LeftOf(p), RightOf(p)} =>
                        \A u \in Cells(prev.at, table - 1, SectionFirst(s), SectionEnd(s)) :
                          mem'[u] = mem[u]
<1>k. ASSUME Kept, walk \in 0 .. 4 PROVE LiveInput'
  <2> SUFFICES ASSUME NEW p \in walk' .. 3, NEW s \in {LeftOf(p), RightOf(p)}
               PROVE  Intact(prev.at, table - 1, SectionFirst(s), SectionEnd(s))'
    BY DEF LiveInput
  <2>1. p \in walk .. 3 /\ p \in 0 .. 3 /\ walk < 4
    BY <1>k
  <2>2. s \in Sections
    BY <2>1, WalkedSections
  <2>3. Intact(prev.at, table - 1, SectionFirst(s), SectionEnd(s))
    BY <1>k, <2>1 DEF LiveInput
  <2>4. \A u \in Cells(prev.at, table - 1, SectionFirst(s), SectionEnd(s)) : mem'[u] = mem[u]
    BY <1>k, <2>1, <2>2
  <2>5. \A u \in Cells(prev.at, table - 1, SectionFirst(s), SectionEnd(s)) :
          mem'[u] = <<"sorted", table - 1, (u - prev.at) \div Words(table - 1)>>
    BY <2>3, <2>4, IntactStays
  <2>6. prev' = prev /\ table' = table
    BY <1>k
  <2> QED BY <2>5, <2>6 DEF Intact, Cells, SectionFirst, SectionEnd, Total
<1>w. walk \in 0 .. 4
  BY <1>i DEF TypeOK
<1> HIDE DEF Kept
<1>0. CASE UNCHANGED vars /\ InTable
  BY <1>0, <1>k, <1>w DEF vars, Kept
<1>1. CASE phase' \notin {"section", "group", "find", "join"}
  BY <1>1 DEF LiveInput
<1>2. CASE BeginTable
  <2> SUFFICES ASSUME NEW p \in 0 .. 3, NEW s \in {LeftOf(p), RightOf(p)}
               PROVE  Intact(prev.at, table - 1, SectionFirst(s), SectionEnd(s))'
    BY <1>2 DEF LiveInput, BeginTable
  <2>1. s \in Sections
    BY WalkedSections
  <2>2. Intact(prev.at, table - 1, SectionFirst(s), SectionEnd(s))
    BY <1>2, <1>i, <2>1, InputAtHand
  <2>3. prev' = prev /\ table' = table /\ mem' = mem
    BY <1>2 DEF BeginTable
  <2> QED BY <2>2, <2>3 DEF Intact, Cells, SectionFirst, SectionEnd, Total
<1>3. CASE BeginSection \/ SkipGroup \/ EndGroup
  BY <1>3, <1>k, <1>w DEF BeginSection, SkipGroup, EndGroup, Kept
<1>4. CASE HashLeft
  <2>1. InTable /\ prev' = prev /\ table' = table /\ walk' = walk /\ walk \in 0 .. 3
        /\ table \in 1 .. 3
    BY <1>4, <1>i DEF HashLeft, PhaseInv
  <2>2. ~ AllEmpty(prev.sizes)
    BY <1>4, <2>1, WalkedSections DEF HashLeft, AllEmpty, LeftCount
  <2>3. ASSUME NEW s \in Sections,
               NEW u \in Cells(prev.at, table - 1, SectionFirst(s), SectionEnd(s))
        PROVE  mem'[u] = mem[u]
    BY <1>4, <1>i, <2>1, <2>2, SectionInMemory, HashingSpares
  <2>4. Kept
    BY <2>1, <2>3 DEF Kept
  <2> QED BY <1>k, <1>w, <2>4
<1>5. ASSUME NEW k \in 0 .. yield, FindPairs(k)
      PROVE  LiveInput'
  <2>1. InTable /\ prev' = prev /\ table' = table /\ walk' = walk /\ walk \in 0 .. 3
        /\ table \in 1 .. 3
    BY <1>5, <1>i DEF FindPairs, PhaseInv
  <2>2. ~ AllEmpty(prev.sizes)
    BY <1>5, <1>i DEF FindPairs, EmptyInv
  <2>3. ASSUME NEW p \in walk .. 3, NEW s \in Sections, s \in {LeftOf(p), RightOf(p)},
               NEW u \in Cells(prev.at, table - 1, SectionFirst(s), SectionEnd(s))
        PROVE  mem'[u] = mem[u]
    BY <1>5, <1>i, <2>1, <2>2, <2>3, SectionInMemory, FindingSpares
  <2>4. Kept
    BY <2>1, <2>3 DEF Kept
  <2> QED BY <1>k, <1>w, <2>4
<1>6. CASE EndSection
  <2>1. /\ InTable /\ prev' = prev /\ table' = table /\ mem' = mem
        /\ walk \in 0 .. 3 /\ walk' = walk + 1
    BY <1>6, <1>i DEF EndSection, PhaseInv
  <2>2. walk' \in walk .. 4
    BY <2>1
  <2> QED BY <1>k, <1>w, <2>1, <2>2 DEF Kept
<1>7. CASE BeginPlot \/ Allocate \/ CancelTable \/ GenerateXs \/ CancelSection
  BY <1>7, <1>1 DEF BeginPlot, Allocate, CancelTable, GenerateXs, CancelSection
<1>8. CASE Sort \/ SortThrows \/ Place \/ CopyOut
  BY <1>8, <1>1 DEF Sort, SortThrows, Place, CopyOut
<1>9. CASE Stopped
  BY <1>9, <1>1 DEF Stopped, vars, Final
<1>10. CASE UNCHANGED vars /\ ~ InTable
  BY <1>10, <1>1 DEF vars
<1> QED BY <1>0, <1>2, <1>3, <1>4, <1>5, <1>6, <1>7, <1>8, <1>9, <1>10 DEF Next

-----------------------------------------------------------------------------
(* The theorems.                                                           *)

\* The invariants hold when run begins.
LEMMA InitInv ==
  ASSUME Init
  PROVE  IInv /\ YieldInv /\ LiveInput
<1>1. /\ phase = "plot" /\ table = 0 /\ pairs = 0 /\ cancelled = FALSE
      /\ passes \in PassCounts /\ mem = [u \in Memory |-> Blank] /\ prev = NoTable
      /\ walk = 0 /\ mk = 0 /\ yield = 0 /\ cursor = 0 /\ result = Empty /\ minor = 0 /\ mark = 0
  BY DEF Init
<1>2. TypeOK
  <2>1. DOMAIN prev = {"at", "sizes"} /\ prev.sizes \in [Sections -> Nat]
    BY <1>1 DEF NoTable
  <2>2. DOMAIN result = {"at", "len"} /\ result.len \in Nat /\ DOMAIN mem = Memory
    BY <1>1 DEF Empty
  <2>3. /\ table \in Tables /\ mk \in 0 .. MatchKeys /\ walk \in 0 .. 4
        /\ minor \in 0 .. MinorSize /\ mark \in 0 .. MinorSize
    BY <1>1, ConstantTypes DEF Tables
  <2> QED BY <1>1, <2>1, <2>2, <2>3 DEF TypeOK
<1>3. PhaseInv /\ PlaceInv /\ LeftInv /\ ScratchInv
  BY <1>1 DEF PhaseInv, PlaceInv, LeftInv, ScratchInv, InTable
<1>4. EmptyInv /\ ResultKept /\ YieldInv /\ LiveInput
  BY <1>1 DEF EmptyInv, ResultKept, YieldInv, LiveInput, InTable
<1> QED BY <1>2, <1>3, <1>4 DEF IInv

(***************************************************************************)
(* The inductive invariant of a plotting run: types, phases, places, the   *)
(* hashed candidates, empty tables, the scratch and sorted tables.         *)
(***************************************************************************)
THEOREM Invariance ==
  Spec => []IInv
<1>1. Init => IInv
  BY InitInv
<1>2. IInv /\ [Next]_vars => IInv'
  BY TypeStep, PhaseStep, PlaceStep, LeftStep, EmptyStep, ScratchStep, ResultStep DEF IInv
<1> QED BY <1>1, <1>2, PTL DEF Spec

\* A step of a run is a step of plotting.
LEMMA RunIsPlotting ==
  [RunStep]_runVars => [Next]_vars
<1>1. CASE RunNext
  BY <1>1 DEF RunNext, Next, RunBeginPlot, RunAllocate, RunCancelTable, RunGenerateXs,
        RunBeginTable, RunBeginSection, RunCancelSection, RunSkipGroup, RunHashLeft,
        RunFindPairs, RunEndGroup, RunEndSection, RunSort, RunSortThrows, RunPlace,
        RunCopyOut, RunStopped
<1>2. CASE UNCHANGED runVars
  BY <1>2 DEF runVars
<1> QED BY <1>1, <1>2 DEF RunStep

\* A run seen by its sink is a run: the scopes and events change nothing of it.
THEOREM SinkOnlyWatches ==
  RunSpec => Spec
<1>1. RunInit => Init
  BY DEF RunInit
<1>2. [RunStep]_runVars => [Next]_vars
  BY RunIsPlotting
<1> QED BY <1>1, <1>2, PTL DEF RunSpec, Spec

(***************************************************************************)
(* Wherever a sort leaves its result, and after the copy out of the output *)
(* place, a sorted table can be read in full where its span says it is.    *)
(***************************************************************************)
THEOREM SortedTablesKept ==
  RunSpec => []ResultKept
<1>1. IInv => ResultKept
  BY DEF IInv
<1> QED BY <1>1, Invariance, SinkOnlyWatches, PTL

(***************************************************************************)
(* The scratch with the hashed left candidates is no part of the output of *)
(* their own table, in any of the three layouts.                           *)
(***************************************************************************)
THEOREM CandidatesKept ==
  RunSpec => []LeftCopyKept
<1>1. IInv => LeftCopyKept
  BY DEF IInv, LeftInv, LeftCopyKept
<1> QED BY <1>1, Invariance, SinkOnlyWatches, PTL

(***************************************************************************)
(* If sections are filled evenly, no section is overwritten before the     *)
(* walk has read it for the last time, though the output of table 2 grows  *)
(* into its own input.                                                     *)
(***************************************************************************)
THEOREM InputKept ==
  ASSUME Even
  PROVE  RunSpec => []LiveInput
<1> DEFINE Inv == IInv /\ YieldInv /\ LiveInput
<1>1. Init => Inv
  BY InitInv
<1>2. Inv /\ [Next]_vars => Inv'
  <2> SUFFICES ASSUME IInv, YieldInv, LiveInput, [Next]_vars
               PROVE  IInv' /\ YieldInv' /\ LiveInput'
    OBVIOUS
  <2>1. IInv'
    BY TypeStep, PhaseStep, PlaceStep, LeftStep, EmptyStep, ScratchStep, ResultStep DEF IInv
  <2>2. YieldInv'
    BY YieldStep DEF IInv
  <2>3. LiveInput'
    BY LiveStep
  <2> QED BY <2>1, <2>2, <2>3
<1> HIDE DEF Inv
<1>3. Spec => []Inv
  BY <1>1, <1>2, PTL DEF Spec
<1>4. Inv => LiveInput
  BY DEF Inv
<1> QED BY <1>3, <1>4, SinkOnlyWatches, PTL

(***************************************************************************)
(* A run in which some table was cancelled ends with an empty plot.        *)
(***************************************************************************)
THEOREM CancelledIsEmpty ==
  RunSpec => []CancelledMeansEmpty
<1>1. IInv => CancelledMeansEmpty
  BY DEF IInv, EmptyInv, CancelledMeansEmpty
<1> QED BY <1>1, Invariance, SinkOnlyWatches, PTL

(***************************************************************************)
(* Each group begins with the minor scratch as the first one did.          *)
(***************************************************************************)
THEOREM GroupsReturnScratch ==
  RunSpec => []ScratchReturned
<1>1. IInv => ScratchReturned
  BY DEF IInv, ScratchInv, ScratchReturned
<1> QED BY <1>1, Invariance, SinkOnlyWatches, PTL

-----------------------------------------------------------------------------
(* What the sink of a run shows.                                           *)

Kinds  == {"plot", "alloc", "table", "section", "key", "sort"}
Opened == {c \in [kind : Kinds, table : Tables, key : Nat, quiet : BOOLEAN] :
             c.kind = "key" => c.key < TableShare}
Held(c, kind) == c.kind = kind /\ ~c.quiet

\* Leaving scopes leaves the innermost one first.
LEMMA LeavingOne ==
  ASSUME NEW s, NEW list, Len(list) \in 0 .. 4, NEW m \in 0 .. Len(list)
  PROVE  Leaving(s, list, m)
           = IF m = Len(list) THEN s ELSE Ended(Leaving(s, list, m + 1), list[m + 1])
<1> DEFINE n  == Len(list)
           e1 == Ended(s, list[n])
           e2 == Ended(e1, list[n - 1])
           e3 == Ended(e2, list[n - 2])
           e4 == Ended(e3, list[n - 3])
           Good(f) == f = [i \in 0 .. n |-> IF i = n THEN s ELSE Ended(f[i + 1], list[i + 1])]
           g  == [i \in 0 .. n |-> IF i = n THEN s ELSE IF i = n - 1 THEN e1
                                   ELSE IF i = n - 2 THEN e2 ELSE IF i = n - 3 THEN e3 ELSE e4]
           at == CHOOSE f : Good(f)
<1>1. \A i \in 0 .. n : g[i] = IF i = n THEN s ELSE Ended(g[i + 1], list[i + 1])
  <2> SUFFICES ASSUME NEW i \in 0 .. n
               PROVE  g[i] = IF i = n THEN s ELSE Ended(g[i + 1], list[i + 1])
    OBVIOUS
  <2> HIDE DEF n
  <2>1. n \in 0 .. 4
    BY DEF n
  <2>2. CASE i = n
    BY <2>2
  <2>3. CASE i = n - 1
    <3>1. g[i] = e1 /\ g[i + 1] = s /\ i + 1 = n /\ i # n
      BY <2>1, <2>3
    <3> QED BY <3>1
  <2>4. CASE i = n - 2
    <3>1. g[i] = e2 /\ g[i + 1] = e1 /\ i + 1 = n - 1 /\ i # n
      BY <2>1, <2>4
    <3> QED BY <3>1
  <2>5. CASE i = n - 3
    <3>1. g[i] = e3 /\ g[i + 1] = e2 /\ i + 1 = n - 2 /\ i # n
      BY <2>1, <2>5
    <3> QED BY <3>1
  <2>6. CASE i = n - 4
    <3>1. g[i] = e4 /\ g[i + 1] = e3 /\ i + 1 = n - 3 /\ i # n
      BY <2>1, <2>6
    <3> QED BY <3>1
  <2>7. i \in {n, n - 1, n - 2, n - 3, n - 4}
    BY <2>1
  <2> QED BY <2>2, <2>3, <2>4, <2>5, <2>6, <2>7
<1>2. Good(g)
  <2>1. g = [i \in 0 .. n |-> g[i]]
    OBVIOUS
  <2> HIDE DEF g, n
  <2> QED BY <1>1, <2>1
<1>3. Good(at)
  <2> HIDE DEF Good, g
  <2> QED BY <1>2
<1>4. \A k \in 0 .. n : Leaving(s, list, k) = at[k]
  BY DEF Leaving
<1> HIDE DEF at
<1>5. at[m] = IF m = n THEN s ELSE Ended(at[m + 1], list[m + 1])
  BY <1>3
<1>6. m # n => m + 1 \in 0 .. n
  OBVIOUS
<1> QED BY <1>4, <1>5, <1>6

\* Entering up to two scopes sends their begin events in order.
LEMMA EnteringFew ==
  ASSUME NEW s
  PROVE  /\ Entering(s, <<>>) = s
         /\ \A c : Entering(s, <<c>>) = Begun(s, c)
         /\ \A c, d : Entering(s, <<c, d>>) = Begun(Begun(s, c), d)
<1>1. ASSUME NEW list, Len(list) \in 0 .. 2
      PROVE  Entering(s, list) = IF Len(list) = 0 THEN s
                                 ELSE IF Len(list) = 1 THEN Begun(s, list[1])
                                 ELSE Begun(Begun(s, list[1]), list[2])
  <2> DEFINE n  == Len(list)
             b1 == Begun(s, list[1])
             b2 == Begun(b1, list[2])
             Good(f) == f = [i \in 0 .. n |-> IF i = 0 THEN s ELSE Begun(f[i - 1], list[i])]
             g  == [i \in 0 .. n |-> IF i = 0 THEN s ELSE IF i = 1 THEN b1 ELSE b2]
             at == CHOOSE f : Good(f)
  <2>1. \A i \in 0 .. n : g[i] = IF i = 0 THEN s ELSE Begun(g[i - 1], list[i])
    <3> SUFFICES ASSUME NEW i \in 0 .. n
                 PROVE  g[i] = IF i = 0 THEN s ELSE Begun(g[i - 1], list[i])
      OBVIOUS
    <3> HIDE DEF n
    <3>1. n \in 0 .. 2
      BY <1>1 DEF n
    <3>2. CASE i = 0
      BY <3>2
    <3>3. CASE i = 1
      <4>1. g[i] = b1 /\ g[i - 1] = s /\ i # 0
        BY <3>1, <3>3
      <4> QED BY <3>3, <4>1
    <3>4. CASE i = 2
      <4>1. g[i] = b2 /\ g[i - 1] = b1 /\ i # 0
        BY <3>1, <3>4
      <4> QED BY <3>4, <4>1
    <3> QED BY <3>1, <3>2, <3>3, <3>4
  <2>2. Good(g)
    <3>1. g = [i \in 0 .. n |-> g[i]]
      OBVIOUS
    <3> HIDE DEF g, n
    <3> QED BY <2>1, <3>1
  <2>3. Good(at)
    <3> HIDE DEF Good, g
    <3> QED BY <2>2
  <2>4. Entering(s, list) = at[n]
    BY DEF Entering
  <2> HIDE DEF at
  <2>5. \A i \in 0 .. n : at[i] = IF i = 0 THEN s ELSE Begun(at[i - 1], list[i])
    BY <2>3
  <2>6. CASE n = 0
    BY <2>4, <2>5, <2>6
  <2>7. CASE n = 1
    <3>1. at[0] = s /\ at[1] = Begun(at[0], list[1])
      BY <2>5, <2>7
    <3> QED BY <2>4, <2>7, <3>1
  <2>8. CASE n = 2
    <3>1. at[0] = s /\ at[1] = Begun(at[0], list[1]) /\ at[2] = Begun(at[1], list[2])
      BY <2>5, <2>8
    <3> QED BY <2>4, <2>8, <3>1
  <2> QED BY <1>1, <2>6, <2>7, <2>8
<1>2. Entering(s, <<>>) = s
  BY <1>1
<1>3. \A c : Entering(s, <<c>>) = Begun(s, c)
  BY <1>1
<1>4. \A c, d : Entering(s, <<c, d>>) = Begun(Begun(s, c), d)
  BY <1>1
<1> QED BY <1>2, <1>3, <1>4

\* The numbers of the bar.
LEMMA BarNumbers ==
  ASSUME NEW t \in Tables
  PROVE  /\ TableShare \in Nat /\ Full \in Nat /\ TableBase(t) \in Nat /\ TableDone(t) \in Nat
         /\ TableDone(t) = TableBase(t) + TableShare /\ TableDone(t) <= Full
         /\ t \in 1 .. 2 => TableBase(t + 1) = TableDone(t)
<1>1. MatchKeys \in Nat /\ AllocShare \in Nat
  BY ConstantTypes, RunAssumption, Zenon
<1>2. TableShare \in Nat
  BY <1>1 DEF TableShare
<1>3. TableBase(0) = AllocShare /\ TableBase(1) = AllocShare
  BY <1>1 DEF TableBase
<1>4. TableBase(2) = AllocShare + TableShare /\ TableBase(3) = AllocShare + 2 * TableShare
  <2>1. TableBase(2) = AllocShare + (2 - 1) * TableShare
    BY DEF TableBase
  <2>2. TableBase(3) = AllocShare + (3 - 1) * TableShare
    BY DEF TableBase
  <2> QED BY <1>1, <1>2, <2>1, <2>2
<1>5. t \in {0, 1, 2, 3}
  BY DEF Tables
<1> QED BY <1>1, <1>2, <1>3, <1>4, <1>5 DEF TableDone, Full

\* The count of match keys in a walk.
LEMMA CountOfKeys ==
  ASSUME walk \in 0 .. 3, mk \in 0 .. MatchKeys
  PROVE  /\ Processed \in Nat /\ walk * MatchKeys \in Nat /\ Processed = walk * MatchKeys + mk
         /\ Processed <= TableShare /\ (mk < MatchKeys => Processed < TableShare)
         /\ (walk + 1) * MatchKeys = walk * MatchKeys + MatchKeys
<1>1. MatchKeys \in Nat
  BY ConstantTypes, Zenon
<1>2. walk \in {0, 1, 2, 3}
  OBVIOUS
<1> QED BY <1>1, <1>2 DEF Processed, TableShare

\* What a begin event does to the sink.
LEMMA BegunShows ==
  ASSUME NEW s \in Views, NEW c \in Opened
  PROVE  /\ Begun(s, c) \in Views
         /\ c.kind = "plot" =>
              Begun(s, c) = [fraction |-> 0, state |-> "plotting", shown |-> s.shown]
         /\ c.kind = "alloc" =>
              Begun(s, c) = [fraction |-> s.fraction, state |-> "allocating", shown |-> s.shown]
         /\ c.kind = "table" =>
              Begun(s, c) = [fraction |-> TableBase(c.table), state |-> "matching", shown |-> c.table]
         /\ c.kind = "sort" =>
              Begun(s, c) = [fraction |-> s.fraction, state |-> "postsort", shown |-> s.shown]
         /\ c.kind \in {"section", "key"} => Begun(s, c) = s
<1>1. c.table \in Tables /\ c.kind \in Kinds
  BY DEF Opened
<1>2. Full \in Nat /\ TableBase(c.table) \in 0 .. Full
  BY <1>1, BarNumbers
<1>3. s.fraction \in 0 .. Full /\ s.state \in States /\ s.shown \in Tables
      /\ s = [fraction |-> s.fraction, state |-> s.state, shown |-> s.shown]
  BY DEF Views
<1> HIDE DEF Views
<1> DEFINE b == Begun(s, c)
<1>4. CASE c.kind = "plot"
  <2>1. b = [fraction |-> 0, state |-> "plotting", shown |-> s.shown]
    BY <1>3, <1>4 DEF Begun
  <2>2. b \in Views
    BY <1>2, <1>3, <2>1 DEF Views, States
  <2> QED BY <1>4, <2>1, <2>2
<1>5. CASE c.kind = "alloc"
  <2>1. b = [fraction |-> s.fraction, state |-> "allocating", shown |-> s.shown]
    BY <1>3, <1>5 DEF Begun
  <2>2. b \in Views
    BY <1>2, <1>3, <2>1 DEF Views, States
  <2> QED BY <1>5, <2>1, <2>2
<1>6. CASE c.kind = "table"
  <2>1. b = [fraction |-> TableBase(c.table), state |-> "matching", shown |-> c.table]
    BY <1>6 DEF Begun
  <2>2. b \in Views
    BY <1>1, <1>2, <2>1 DEF Views, States
  <2> QED BY <1>6, <2>1, <2>2
<1>7. CASE c.kind = "sort"
  <2>1. b = [fraction |-> s.fraction, state |-> "postsort", shown |-> s.shown]
    BY <1>3, <1>7 DEF Begun
  <2>2. b \in Views
    BY <1>2, <1>3, <2>1 DEF Views, States
  <2> QED BY <1>7, <2>1, <2>2
<1>8. CASE c.kind \in {"section", "key"}
  <2>1. b = s
    BY <1>8 DEF Begun
  <2> QED BY <1>8, <2>1
<1> QED BY <1>1, <1>4, <1>5, <1>6, <1>7, <1>8 DEF Kinds

\* What an end event does to the sink, if the begin event was not refused.
LEMMA EndedShows ==
  ASSUME NEW s \in Views, NEW c \in Opened
  PROVE  /\ Ended(s, c) \in Views
         /\ c.quiet \/ c.kind \in {"section", "alloc"} => Ended(s, c) = s
         /\ c.kind = "plot" /\ ~c.quiet =>
              Ended(s, c) = [fraction |-> Full, state |-> "finished", shown |-> s.shown]
         /\ c.kind = "table" /\ ~c.quiet =>
              Ended(s, c) = [fraction |-> TableDone(c.table), state |-> "plotting", shown |-> c.table]
         /\ c.kind = "sort" /\ ~c.quiet =>
              Ended(s, c) = [fraction |-> TableDone(c.table), state |-> "plotting", shown |-> s.shown]
         /\ c.kind = "key" /\ ~c.quiet =>
              Ended(s, c) = [fraction |-> TableBase(c.table) + c.key + 1, state |-> s.state, shown |-> s.shown]
<1>1. c.table \in Tables /\ c.kind \in Kinds /\ c.quiet \in BOOLEAN
      /\ c.key \in Nat /\ (c.kind = "key" => c.key < TableShare)
  BY DEF Opened
<1>2. Full \in Nat /\ TableDone(c.table) \in 0 .. Full
      /\ (c.kind = "key" => TableBase(c.table) + c.key + 1 \in 0 .. Full)
  BY <1>1, BarNumbers
<1>3. s.fraction \in 0 .. Full /\ s.state \in States /\ s.shown \in Tables
      /\ s = [fraction |-> s.fraction, state |-> s.state, shown |-> s.shown]
  BY DEF Views
<1> HIDE DEF Views
<1> DEFINE e == Ended(s, c)
<1>4. CASE c.quiet \/ c.kind \in {"section", "alloc"}
  <2>1. c.quiet => e = s
    BY DEF Ended
  <2>2. c.quiet \/ e = s
    <3> SUFFICES ASSUME ~c.quiet PROVE e = s
      BY <1>1
    <3>1. /\ c.kind # "plot" /\ c.kind # "table" /\ c.kind # "sort" /\ c.kind # "key"
      BY <1>4
    <3> QED BY <3>1 DEF Ended
  <2>3. e = s
    BY <2>1, <2>2
  <2> QED BY <1>4, <2>3
<1>5. CASE c.kind = "plot" /\ ~c.quiet
  <2>1. e = [fraction |-> Full, state |-> "finished", shown |-> s.shown]
    BY <1>3, <1>5 DEF Ended
  <2>2. e \in Views
    BY <1>2, <1>3, <2>1 DEF Views, States
  <2> QED BY <1>5, <2>1, <2>2
<1>6. CASE c.kind = "table" /\ ~c.quiet
  <2>1. e = [fraction |-> TableDone(c.table), state |-> "plotting", shown |-> c.table]
    BY <1>6 DEF Ended
  <2>2. e \in Views
    BY <1>1, <1>2, <2>1 DEF Views, States
  <2> QED BY <1>6, <2>1, <2>2
<1>7. CASE c.kind = "sort" /\ ~c.quiet
  <2>1. e = [fraction |-> TableDone(c.table), state |-> "plotting", shown |-> s.shown]
    BY <1>3, <1>7 DEF Ended
  <2>2. e \in Views
    BY <1>2, <1>3, <2>1 DEF Views, States
  <2> QED BY <1>7, <2>1, <2>2
<1>8. CASE c.kind = "key" /\ ~c.quiet
  <2>1. e = [fraction |-> TableBase(c.table) + c.key + 1, state |-> s.state, shown |-> s.shown]
    BY <1>3, <1>8 DEF Ended
  <2>2. e \in Views
    BY <1>2, <1>3, <1>8, <2>1 DEF Views, States
  <2> QED BY <1>8, <2>1, <2>2
<1> QED BY <1>1, <1>4, <1>5, <1>6, <1>7, <1>8 DEF Kinds

\* Leaving scopes shows the sink a view, and at last, by the end of the plot, a full bar.
LEMMA LeavingShows ==
  ASSUME NEW s \in Views, NEW list \in Seq(Opened), Len(list) \in 0 .. 4
  PROVE  /\ \A m \in 0 .. Len(list) : Leaving(s, list, m) \in Views
         /\ Len(list) > 0 /\ Held(list[1], "plot") =>
              Leaving(s, list, 0).fraction = Full /\ Leaving(s, list, 0).state = "finished"
<1> DEFINE n == Len(list)
           V(m) == Leaving(s, list, m) \in Views
<1>1. V(n)
  <2>1. n \in 0 .. Len(list)
    OBVIOUS
  <2>2. Leaving(s, list, n) = IF n = Len(list) THEN s
                              ELSE Ended(Leaving(s, list, n + 1), list[n + 1])
    BY <2>1, LeavingOne
  <2>3. Leaving(s, list, n) = s
    BY <2>2
  <2> QED BY <2>3
<1>2. ASSUME NEW m \in 0 .. n, m # n, V(m + 1)
      PROVE  V(m)
  <2>1. m + 1 \in 1 .. n
    BY <1>2
  <2>2. list[m + 1] \in Opened
    BY <2>1
  <2>3. Leaving(s, list, m) = Ended(Leaving(s, list, m + 1), list[m + 1])
    BY <1>2, LeavingOne
  <2> QED BY <1>2, <2>2, <2>3, EndedShows
<1>3. \A m \in 0 .. n : V(m)
  <2> HIDE DEF V, n
  <2>1. n \in 0 .. 4
    BY DEF n
  <2>2. \A m \in 0 .. n : m # n /\ V(m + 1) => V(m)
    BY <1>2
  <2>3. n - 1 \in 0 .. n => V(n - 1)
    <3>1. (n - 1) + 1 = n
      BY <2>1
    <3> QED BY <1>1, <2>1, <2>2, <3>1
  <2>4. n - 2 \in 0 .. n => V(n - 2)
    <3>1. (n - 2) + 1 = n - 1
      BY <2>1
    <3> QED BY <2>1, <2>2, <2>3, <3>1
  <2>5. n - 3 \in 0 .. n => V(n - 3)
    <3>1. (n - 3) + 1 = n - 2
      BY <2>1
    <3> QED BY <2>1, <2>2, <2>4, <3>1
  <2>6. n - 4 \in 0 .. n => V(n - 4)
    <3>1. (n - 4) + 1 = n - 3
      BY <2>1
    <3> QED BY <2>1, <2>2, <2>5, <3>1
  <2>7. \A m \in 0 .. n : m \in {n, n - 1, n - 2, n - 3, n - 4}
    BY <2>1
  <2> QED BY <1>1, <2>3, <2>4, <2>5, <2>6, <2>7
<1>4. ASSUME n > 0, Held(list[1], "plot")
      PROVE  Leaving(s, list, 0).fraction = Full /\ Leaving(s, list, 0).state = "finished"
  <2>1. 1 \in 0 .. n /\ 0 \in 0 .. n /\ 0 # n /\ list[1] \in Opened
    BY <1>4
  <2>2. Leaving(s, list, 0) = Ended(Leaving(s, list, 0 + 1), list[0 + 1])
    BY <2>1, LeavingOne
  <2>3. 0 + 1 = 1
    OBVIOUS
  <2>4. Leaving(s, list, 0) = Ended(Leaving(s, list, 1), list[1])
    BY <2>2, <2>3
  <2>5. Leaving(s, list, 1) \in Views
    BY <1>3, <2>1
  <2>6. Leaving(s, list, 0) = [fraction |-> Full, state |-> "finished",
                               shown |-> Leaving(s, list, 1).shown]
    BY <1>4, <2>1, <2>4, <2>5, EndedShows DEF Held
  <2> QED BY <2>6
<1> QED BY <1>3, <1>4

\* Entering scopes shows the sink a view.
LEMMA EnteringShows ==
  ASSUME NEW s \in Views, NEW new \in Seq(Opened), Len(new) \in 0 .. 2
  PROVE  Entering(s, new) \in Views
<1>1. CASE Len(new) = 0
  <2>1. new = <<>>
    BY <1>1
  <2> QED BY <2>1, EnteringFew
<1>2. CASE Len(new) = 1
  <2>1. new[1] \in Opened
    BY <1>2
  <2>2. new = <<new[1]>>
    BY <1>2
  <2>3. Entering(s, new) = Begun(s, new[1])
    BY <2>2, EnteringFew
  <2> QED BY <2>1, <2>3, BegunShows
<1>3. CASE Len(new) = 2
  <2>1. new[1] \in Opened /\ new[2] \in Opened
    <3>1. 1 \in 1 .. Len(new) /\ 2 \in 1 .. Len(new)
      BY <1>3
    <3> QED BY <3>1
  <2>2. new = <<new[1], new[2]>>
    BY <1>3
  <2>3. Entering(s, <<new[1], new[2]>>) = Begun(Begun(s, new[1]), new[2])
    <3>1. \A c, d : Entering(s, <<c, d>>) = Begun(Begun(s, c), d)
      BY EnteringFew
    <3> QED BY <3>1, Zenon
  <2>4. Begun(s, new[1]) \in Views
    BY <2>1, BegunShows
  <2> QED BY <2>1, <2>2, <2>3, <2>4, BegunShows
<1> QED BY <1>1, <1>2, <1>3

\* How many scopes a run is in.
Depth ==
  IF phase \in {"plot"} \cup Final THEN 0
  ELSE IF phase \in {"alloc", "table", "sorted"} THEN 1
  ELSE IF phase = "section" THEN 2
  ELSE IF phase \in {"group", "sort"} THEN 3 ELSE 4

\* The scopes of a run: plot, table, and then section and match key, or the sort.
ScopeInv ==
  /\ scopes \in Seq(Opened) /\ Len(scopes) = Depth
  /\ Depth > 0 => Held(scopes[1], "plot")
  /\ Depth > 1 => Held(scopes[2], "table") /\ scopes[2].table = table
  /\ Depth > 2 /\ phase # "sort" => scopes[3].kind = "section"
  /\ phase = "sort" => scopes[3].kind = "sort" /\ scopes[3].table = table
  /\ Depth > 3 => /\ scopes[4].kind = "key" /\ scopes[4].table = table
                  /\ scopes[4].key = Processed

\* The view of the sink, and how far its bar is.
ViewInv ==
  /\ Latest \in Views
  /\ phase \in {"plot", "alloc", "empty"} => fraction = 0
  /\ phase = "table" /\ table = 0 => fraction = 0
  /\ phase = "table" /\ table > 1 => fraction <= TableBase(table)
  /\ InTable => TableBase(table) <= fraction /\ fraction <= TableBase(table) + KeysBehind
  /\ phase \in {"sort", "sorted"} => fraction <= TableDone(table)

BarMoves == fraction' < fraction => phase = "table" /\ table = 1

\* Leaving no scope sends nothing, and leaving one its end event.
LEMMA LeavingFew ==
  ASSUME NEW s, NEW list, Len(list) \in 0 .. 4
  PROVE  /\ Leaving(s, list, Len(list)) = s
         /\ Len(list) > 0 => Leaving(s, list, Len(list) - 1) = Ended(s, list[Len(list)])
<1> DEFINE n == Len(list)
<1>1. Leaving(s, list, n) = s
  <2>1. n \in 0 .. Len(list)
    OBVIOUS
  <2>2. Leaving(s, list, n) = IF n = Len(list) THEN s
                              ELSE Ended(Leaving(s, list, n + 1), list[n + 1])
    BY <2>1, LeavingOne
  <2> QED BY <2>2
<1>2. ASSUME n > 0
      PROVE  Leaving(s, list, n - 1) = Ended(s, list[n])
  <2>1. n - 1 \in 0 .. Len(list) /\ n - 1 # Len(list) /\ (n - 1) + 1 = n
    BY <1>2
  <2>2. Leaving(s, list, n - 1) = Ended(Leaving(s, list, (n - 1) + 1), list[(n - 1) + 1])
    BY <2>1, LeavingOne
  <2> QED BY <1>1, <2>1, <2>2
<1> QED BY <1>1, <1>2

\* The scopes a step is in before it leaves some, and what it has sent then.
OpenIn(k, new)  == SubSeq(scopes, 1, k) \o new
Sent(k, new, n) == Leaving(Entering(Leaving(Latest, scopes, k), new), OpenIn(k, new), n)

\* The outer k scopes and those of new, without the inner ones of them, are open after
\* a step, and the sink has seen what was sent.
Effect(k, new, n) ==
  /\ scopes' \in Seq(Opened) /\ Len(scopes') = n
  /\ \A i \in 1 .. n : scopes'[i] = IF i <= k THEN scopes[i] ELSE new[i - k]
  /\ Len(OpenIn(k, new)) = k + Len(new)
  /\ \A i \in 1 .. k + Len(new) : OpenIn(k, new)[i] = IF i <= k THEN scopes[i] ELSE new[i - k]
  /\ Latest' \in Views /\ Latest' = Sent(k, new, n)

\* What a step sends, and the scopes it leaves open.
LEMMA ScopedStep ==
  ASSUME scopes \in Seq(Opened), Len(scopes) \in 0 .. 4, Latest \in Views,
         NEW k \in 0 .. Len(scopes), NEW new \in Seq(Opened), Len(new) \in 0 .. 2,
         k + Len(new) <= 4, NEW n \in 0 .. k + Len(new), Scoped(k, new, n)
  PROVE  Effect(k, new, n)
<1> DEFINE open == OpenIn(k, new)
           left == Leaving(Latest, scopes, k)
           ent  == Entering(left, new)
           end  == Sent(k, new, n)
<1>1. SubSeq(scopes, 1, k) \in Seq(Opened) /\ Len(SubSeq(scopes, 1, k)) = k
      /\ \A i \in 1 .. k : SubSeq(scopes, 1, k)[i] = scopes[i]
  OBVIOUS
<1>2. open \in Seq(Opened) /\ Len(open) = k + Len(new) /\ Len(open) \in 0 .. 4
      /\ \A i \in 1 .. Len(open) : open[i] = IF i <= k THEN scopes[i] ELSE new[i - k]
  <2> DEFINE outer == SubSeq(scopes, 1, k)
  <2> HIDE DEF outer
  <2>1. outer \in Seq(Opened) /\ Len(outer) = k /\ \A i \in 1 .. k : outer[i] = scopes[i]
    BY <1>1 DEF outer
  <2>2. open = outer \o new
    BY DEF outer, OpenIn
  <2> HIDE DEF open
  <2>3. open \in Seq(Opened) /\ Len(open) = k + Len(new) /\ Len(open) \in 0 .. 4
    BY <2>1, <2>2
  <2>4. ASSUME NEW i \in 1 .. k + Len(new)
        PROVE  open[i] = IF i <= k THEN scopes[i] ELSE new[i - k]
    BY <2>1, <2>2
  <2> QED BY <2>3, <2>4
<1>3. scopes' = SubSeq(open, 1, n)
  BY DEF Scoped, OpenIn
<1>4. left \in Views
  BY LeavingShows
<1>5. ent \in Views
  BY <1>4, EnteringShows
<1>6. end \in Views /\ fraction' = end.fraction /\ state' = end.state /\ shown' = end.shown
  <2>1. fraction' = end.fraction /\ state' = end.state /\ shown' = end.shown
    BY DEF Scoped, Sent, OpenIn
  <2>2. end = Leaving(ent, open, n)
    BY DEF Sent
  <2> HIDE DEF ent, open, end
  <2>3. n \in 0 .. Len(open)
    BY <1>2
  <2>4. end \in Views
    BY <1>2, <1>5, <2>2, <2>3, LeavingShows
  <2> QED BY <2>1, <2>4
<1> HIDE DEF end, left, ent
<1>7. Latest' = end
  <2>1. end = [fraction |-> end.fraction, state |-> end.state, shown |-> end.shown]
    BY <1>6 DEF Views
  <2> QED BY <1>6, <2>1 DEF Latest
<1> HIDE DEF open
<1>8. scopes' \in Seq(Opened) /\ Len(scopes') = n /\ \A i \in 1 .. n : scopes'[i] = open[i]
  BY <1>2, <1>3
<1>9. \A i \in 1 .. n : i \in 1 .. Len(open)
  BY <1>2
<1>10. open = OpenIn(k, new) /\ end = Sent(k, new, n)
  BY DEF open, end
<1> QED BY <1>2, <1>6, <1>7, <1>8, <1>9, <1>10 DEF Effect

\* A run that leaves all its scopes by a throw, or at its end, has a full bar.
LEMMA AllLeft ==
  ASSUME scopes \in Seq(Opened), Len(scopes) \in 1 .. 4, Latest \in Views,
         Held(scopes[1], "plot"),
         NEW k \in 0 .. Len(scopes), NEW new \in Seq(Opened), Len(new) \in 0 .. 2,
         k + Len(new) <= 4, k > 0 \/ new = <<>>, Scoped(k, new, 0)
  PROVE  fraction' = Full /\ state' = "finished"
<1> DEFINE open == OpenIn(k, new)
           left == Leaving(Latest, scopes, k)
           ent  == Entering(left, new)
           end  == Leaving(ent, open, 0)
<1>1. fraction' = end.fraction /\ state' = end.state
  BY DEF Scoped, OpenIn
<1>2. CASE k = 0 /\ new = <<>>
  <2>1. open = <<>>
    <3>1. SubSeq(scopes, 1, 0) = <<>>
      OBVIOUS
    <3> QED BY <1>2, <3>1 DEF OpenIn
  <2>2. ent = left
    BY <1>2, EnteringFew
  <2>3. end = left
    <3>1. Len(open) = 0
      BY <2>1
    <3> HIDE DEF open, ent, left
    <3>2. Leaving(ent, open, Len(open)) = ent
      BY <3>1, LeavingFew
    <3> QED BY <2>2, <3>1, <3>2
  <2>4. left.fraction = Full /\ left.state = "finished"
    BY <1>2, LeavingShows
  <2> HIDE DEF left, end
  <2> QED BY <1>1, <2>3, <2>4
<1>3. CASE k > 0
  <2> DEFINE outer == SubSeq(scopes, 1, k)
  <2>1. outer \in Seq(Opened) /\ Len(outer) = k /\ outer[1] = scopes[1]
    BY <1>3
  <2>2. open = outer \o new
    BY DEF OpenIn
  <2> HIDE DEF outer, open
  <2>3. open \in Seq(Opened) /\ Len(open) = k + Len(new)
    BY <2>1, <2>2
  <2>4. open[1] = scopes[1]
    BY <1>3, <2>1, <2>2
  <2>5. Len(open) \in 0 .. 4 /\ Len(open) > 0
    BY <1>3, <2>3
  <2>6. ent \in Views
    <3>1. 0 \in 0 .. k + Len(new)
      OBVIOUS
    <3>2. left \in Views
      BY LeavingShows
    <3> QED BY <3>2, EnteringShows
  <2> HIDE DEF ent
  <2> QED BY <1>1, <2>3, <2>4, <2>5, <2>6, LeavingShows
<1> QED BY <1>2, <1>3

\* A step that enters a scope and stays in it.
LEMMA OneEntered ==
  ASSUME scopes \in Seq(Opened), Len(scopes) \in 0 .. 3, Latest \in Views, NEW c \in Opened,
         NEW k \in Nat, k = Len(scopes), Scoped(k, <<c>>, k + 1)
  PROVE  /\ scopes' \in Seq(Opened) /\ Len(scopes') = k + 1
         /\ \A i \in 1 .. k : scopes'[i] = scopes[i]
         /\ scopes'[k + 1] = c
         /\ Latest' \in Views /\ Latest' = Begun(Latest, c)
<1> DEFINE new == <<c>>
           n == k + 1
<1>1. new \in Seq(Opened) /\ Len(new) = 1 /\ new[1] = c
  OBVIOUS
<1>2. Entering(Latest, new) = Begun(Latest, c)
  BY EnteringFew
<1> HIDE DEF new
<1>3. Scoped(k, new, n) /\ k \in 0 .. Len(scopes) /\ n \in 0 .. k + Len(new) /\ k + Len(new) <= 4
      /\ Len(new) \in 0 .. 2 /\ Len(scopes) \in 0 .. 4
  <2>1. Scoped(k, new, n)
    BY DEF new
  <2>2. /\ k \in 0 .. Len(scopes) /\ n \in 0 .. k + Len(new) /\ k + Len(new) <= 4
        /\ Len(new) \in 0 .. 2 /\ Len(scopes) \in 0 .. 4
    <3> DEFINE l == Len(new)
               d == Len(scopes)
    <3> HIDE DEF l, d
    <3>1. l = 1 /\ k = d /\ d \in 0 .. 3
      BY <1>1 DEF l, d
    <3>2. k \in 0 .. d /\ n \in 0 .. k + l /\ k + l <= 4 /\ l \in 0 .. 2 /\ d \in 0 .. 4
      BY <3>1
    <3> QED BY <3>2 DEF l, d
  <2> QED BY <2>1, <2>2, Zenon
<1> HIDE DEF n
<1>e. Effect(k, new, n)
  BY <1>1, <1>3, ScopedStep
<1>4. /\ scopes' \in Seq(Opened) /\ Len(scopes') = n
      /\ \A i \in 1 .. n : scopes'[i] = IF i <= k THEN scopes[i] ELSE new[i - k]
      /\ Len(OpenIn(k, new)) = k + Len(new)
      /\ \A i \in 1 .. k + Len(new) : OpenIn(k, new)[i] = IF i <= k THEN scopes[i] ELSE new[i - k]
      /\ Latest' \in Views /\ Latest' = Sent(k, new, n)
  BY <1>e DEF Effect
<1>5. Sent(k, new, n) = Begun(Latest, c)
  <2> DEFINE open == OpenIn(k, new)
  <2>1. Len(open) = n /\ Len(open) \in 0 .. 4
    BY <1>1, <1>4, <1>3 DEF n
  <2>2. Leaving(Latest, scopes, k) = Latest
    <3>1. Leaving(Latest, scopes, Len(scopes)) = Latest
      BY <1>3, LeavingFew
    <3> QED BY <3>1
  <2> HIDE DEF open
  <2>3. Leaving(Begun(Latest, c), open, n) = Begun(Latest, c)
    BY <2>1, LeavingFew
  <2> QED BY <1>2, <2>2, <2>3 DEF Sent, open
<1>6. \A i \in 1 .. k : scopes'[i] = scopes[i]
  BY <1>4 DEF n
<1>7. scopes'[k + 1] = c
  <2>1. n \in 1 .. n /\ ~(n <= k) /\ n - k = 1
    BY DEF n
  <2> QED BY <1>1, <1>4, <2>1 DEF n
<1> QED BY <1>4, <1>5, <1>6, <1>7 DEF n

\* The same, of Enter.
LEMMA Entered ==
  ASSUME scopes \in Seq(Opened), NEW k \in 0 .. 3, k = Len(scopes), Latest \in Views,
         NEW c \in Opened, Enter(<<c>>)
  PROVE  /\ scopes' \in Seq(Opened) /\ Len(scopes') = k + 1
         /\ \A i \in 1 .. k : scopes'[i] = scopes[i]
         /\ scopes'[k + 1] = c
         /\ Latest' \in Views /\ Latest' = Begun(Latest, c)
<1>1. Len(<<c>>) = 1
  OBVIOUS
<1>2. Scoped(k, <<c>>, k + 1)
  BY <1>1 DEF Enter
<1>3. k \in Nat /\ Len(scopes) \in 0 .. 3
  OBVIOUS
<1> QED BY <1>2, <1>3, OneEntered

\* A step that enters a scope and leaves it.
LEMMA OnePassed ==
  ASSUME scopes \in Seq(Opened), Len(scopes) \in 0 .. 3, Latest \in Views, NEW c \in Opened,
         NEW k \in Nat, k = Len(scopes), NEW n \in Nat, n = k, Scoped(k, <<c>>, n)
  PROVE  /\ scopes' \in Seq(Opened) /\ Len(scopes') = k
         /\ \A i \in 1 .. k : scopes'[i] = scopes[i]
         /\ Latest' \in Views /\ Latest' = Ended(Begun(Latest, c), c)
<1> DEFINE new == <<c>>
           m   == k + 1
<1>1. new \in Seq(Opened) /\ Len(new) = 1 /\ new[1] = c
  OBVIOUS
<1>2. Entering(Latest, new) = Begun(Latest, c)
  BY EnteringFew
<1> HIDE DEF new
<1>3. Scoped(k, new, n) /\ k \in 0 .. Len(scopes) /\ n \in 0 .. k + Len(new) /\ k + Len(new) <= 4
      /\ Len(new) \in 0 .. 2 /\ Len(scopes) \in 0 .. 4
  <2>1. Scoped(k, new, n)
    BY DEF new
  <2>2. /\ k \in 0 .. Len(scopes) /\ n \in 0 .. k + Len(new) /\ k + Len(new) <= 4
        /\ Len(new) \in 0 .. 2 /\ Len(scopes) \in 0 .. 4
    <3> DEFINE l == Len(new)
               d == Len(scopes)
    <3> HIDE DEF l, d
    <3>1. l = 1 /\ k = d /\ d \in 0 .. 3
      BY <1>1 DEF l, d
    <3>2. k \in 0 .. d /\ n \in 0 .. k + l /\ k + l <= 4 /\ l \in 0 .. 2 /\ d \in 0 .. 4
      BY <3>1
    <3> QED BY <3>2 DEF l, d
  <2> QED BY <2>1, <2>2, Zenon
<1>e. Effect(k, new, n)
  BY <1>1, <1>3, ScopedStep
<1>4. /\ scopes' \in Seq(Opened) /\ Len(scopes') = n
      /\ \A i \in 1 .. n : scopes'[i] = IF i <= k THEN scopes[i] ELSE new[i - k]
      /\ Len(OpenIn(k, new)) = k + Len(new)
      /\ \A i \in 1 .. k + Len(new) : OpenIn(k, new)[i] = IF i <= k THEN scopes[i] ELSE new[i - k]
      /\ Latest' \in Views /\ Latest' = Sent(k, new, n)
  BY <1>e DEF Effect
<1>5. Sent(k, new, n) = Ended(Begun(Latest, c), c)
  <2> DEFINE open == OpenIn(k, new)
  <2>1. Len(open) = m /\ Len(open) \in 0 .. 4 /\ Len(open) > 0 /\ Len(open) - 1 = k
    BY <1>1, <1>4, <1>3
  <2>2. open[m] = c
    <3>1. m \in 1 .. k + Len(new) /\ ~(m <= k) /\ m - k = 1
      BY <1>1
    <3> HIDE DEF m
    <3> QED BY <1>1, <1>4, <3>1
  <2>3. Leaving(Latest, scopes, k) = Latest
    <3>1. Leaving(Latest, scopes, Len(scopes)) = Latest
      BY <1>3, LeavingFew
    <3> QED BY <3>1
  <2> HIDE DEF open, m
  <2>4. Leaving(Begun(Latest, c), open, k) = Ended(Begun(Latest, c), open[m])
    BY <2>1, LeavingFew
  <2> QED BY <1>2, <2>2, <2>3, <2>4 DEF Sent, open
<1>6. \A i \in 1 .. k : scopes'[i] = scopes[i]
  BY <1>4
<1> QED BY <1>4, <1>5, <1>6

\* A step that only leaves scopes.
LEMMA OnlyLeft ==
  ASSUME scopes \in Seq(Opened), Latest \in Views,
         NEW d \in 0 .. 4, d = Len(scopes), NEW k \in 0 .. d, Scoped(k, <<>>, k)
  PROVE  /\ scopes' \in Seq(Opened) /\ Len(scopes') = k
         /\ \A i \in 1 .. k : scopes'[i] = scopes[i]
         /\ Latest' \in Views /\ Latest' = Leaving(Latest, scopes, k)
<1> DEFINE new == <<>>
           n   == k
<1>1. new \in Seq(Opened) /\ Len(new) = 0
  OBVIOUS
<1>2. \A s : Entering(s, new) = s
  BY EnteringFew
<1>3. Scoped(k, new, n)
  OBVIOUS
<1> HIDE DEF new
<1>m. /\ k \in 0 .. Len(scopes) /\ n \in 0 .. k + Len(new) /\ k + Len(new) <= 4
      /\ Len(new) \in 0 .. 2 /\ Len(scopes) \in 0 .. 4
  BY <1>1
<1>e. Effect(k, new, n)
  BY <1>1, <1>3, <1>m, ScopedStep
<1>4. /\ scopes' \in Seq(Opened) /\ Len(scopes') = n
      /\ \A i \in 1 .. n : scopes'[i] = IF i <= k THEN scopes[i] ELSE new[i - k]
      /\ Len(OpenIn(k, new)) = k + Len(new)
      /\ \A i \in 1 .. k + Len(new) : OpenIn(k, new)[i] = IF i <= k THEN scopes[i] ELSE new[i - k]
      /\ Latest' \in Views /\ Latest' = Sent(k, new, n)
  BY <1>e DEF Effect
<1>5. Sent(k, new, n) = Leaving(Latest, scopes, k)
  <2> DEFINE open == OpenIn(k, new)
             left == Leaving(Latest, scopes, k)
  <2>1. Len(open) = k /\ Len(open) \in 0 .. 4
    BY <1>1, <1>4
  <2>2. Sent(k, new, n) = Leaving(Entering(left, new), open, k)
    BY DEF Sent
  <2> HIDE DEF open, left
  <2>3. Leaving(left, open, k) = left
    BY <2>1, LeavingFew
  <2> QED BY <1>2, <2>2, <2>3 DEF left
<1>6. \A i \in 1 .. k : scopes'[i] = scopes[i]
  BY <1>4
<1> QED BY <1>4, <1>5, <1>6

\* Whatever is left with a table, in the end the sink shows it as done.
LEMMA TableLeft ==
  ASSUME NEW s \in Views, NEW list \in Seq(Opened), Len(list) = 3,
         Held(list[2], "table")
  PROVE  Leaving(s, list, 1) = [fraction |-> TableDone(list[2].table), state |-> "plotting",
                                shown |-> list[2].table]
<1>1. /\ list[2] \in Opened /\ Len(list) \in 0 .. 4
      /\ 2 \in 0 .. Len(list) /\ 1 \in 0 .. Len(list) /\ 1 # Len(list)
  <2>1. 2 \in 1 .. Len(list)
    OBVIOUS
  <2>2. list[2] \in Opened
    BY <2>1
  <2> QED BY <2>2
<1>2. Leaving(s, list, 2) \in Views
  BY <1>1, LeavingShows
<1>3. Leaving(s, list, 1) = Ended(Leaving(s, list, 1 + 1), list[1 + 1])
  BY <1>1, LeavingOne
<1>4. 1 + 1 = 2
  OBVIOUS
<1>5. Leaving(s, list, 1) = Ended(Leaving(s, list, 2), list[2])
  BY <1>3, <1>4
<1> QED BY <1>1, <1>2, <1>5, EndedShows DEF Held

SinkInv == ScopeInv /\ ViewInv /\ LatestTrue

\* A scope that a step enters is one that may be open.
LEMMA ScopeIsOpened ==
  ASSUME TypeOK, NEW kind \in Kinds, NEW refused \in BOOLEAN,
         kind = "key" => walk \in 0 .. 3 /\ mk < MatchKeys
  PROVE  /\ Scope(kind, refused) \in Opened
         /\ Scope(kind, refused).kind = kind /\ Scope(kind, refused).table = table
         /\ Scope(kind, refused).key = Processed /\ Scope(kind, refused).quiet = refused
<1>1. MatchKeys \in Nat /\ walk \in {0, 1, 2, 3, 4} /\ mk \in 0 .. MatchKeys /\ table \in Tables
  BY ConstantTypes DEF TypeOK
<1>2. Processed \in Nat
  BY <1>1 DEF Processed
<1>3. kind = "key" => Processed < TableShare
  BY <1>1, CountOfKeys
<1> DEFINE c == Scope(kind, refused)
<1>4. c = [kind |-> kind, table |-> table, key |-> Processed, quiet |-> refused]
  BY DEF Scope
<1> HIDE DEF c
<1>5. c.kind = kind /\ c.table = table /\ c.key = Processed /\ c.quiet = refused
  BY <1>4
<1>6. c \in [kind : Kinds, table : Tables, key : Nat, quiet : BOOLEAN]
  BY <1>1, <1>2, <1>4
<1>7. c \in Opened
  BY <1>3, <1>5, <1>6 DEF Opened
<1> QED BY <1>5, <1>7 DEF c

\* The depth of the scopes is a number up to four.
LEMMA DepthIsNumber ==
  Depth \in 0 .. 4
BY DEF Depth

\* A view that is shown is seen in each of its parts.
LEMMA ShownParts ==
  ASSUME NEW f, NEW st, NEW t, Latest' = [fraction |-> f, state |-> st, shown |-> t]
  PROVE  fraction' = f /\ state' = st /\ shown' = t
BY DEF Latest

\* The parts of the view that is shown.
LEMMA ViewParts ==
  ASSUME Latest \in Views
  PROVE  /\ fraction \in 0 .. Full /\ state \in States /\ shown \in Tables /\ Full \in Nat
         /\ Latest.fraction = fraction /\ Latest.state = state /\ Latest.shown = shown
<1>1. 0 \in Tables
  BY DEF Tables
<1> QED BY <1>1, BarNumbers DEF Latest, Views

\* A step that ends the run by a throw or with a plot.
LEMMA SinkOver ==
  ASSUME SinkInv, Depth > 0, phase' \in {"plotted", "thrown"},
         NEW k \in 0 .. Len(scopes), NEW new \in Seq(Opened), Len(new) \in 0 .. 2,
         k + Len(new) <= 4, k > 0 \/ new = <<>>, Scoped(k, new, 0)
  PROVE  SinkInv' /\ BarMoves
<1>1. scopes \in Seq(Opened) /\ Len(scopes) = Depth /\ Held(scopes[1], "plot") /\ Latest \in Views
  BY DEF SinkInv, ScopeInv, ViewInv
<1>2. Len(scopes) \in 1 .. 4 /\ Len(scopes) \in 0 .. 4
  BY <1>1, DepthIsNumber
<1>3. fraction' = Full /\ state' = "finished"
  BY <1>1, <1>2, AllLeft
<1>4. 0 \in 0 .. k + Len(new)
  <2> DEFINE d == Len(scopes)
             l == Len(new)
  <2>1. d \in 0 .. 4 /\ l \in 0 .. 2 /\ k \in 0 .. d
    BY <1>2
  <2> HIDE DEF d, l
  <2>2. 0 \in 0 .. k + l
    BY <2>1
  <2> QED BY <2>2 DEF l
<1>5. Effect(k, new, 0)
  BY <1>1, <1>2, <1>4, ScopedStep
<1>6. scopes' \in Seq(Opened) /\ Len(scopes') = 0 /\ Latest' \in Views
  BY <1>5 DEF Effect
<1>7. Depth' = 0 /\ phase' # "sort"
  BY DEF Depth, Final
<1>8. ScopeInv'
  BY <1>6, <1>7 DEF ScopeInv
<1>9. ViewInv' /\ LatestTrue'
  BY <1>3, <1>6 DEF ViewInv, LatestTrue, Over, InTable
<1>10. BarMoves
  BY <1>1, <1>3, ViewParts DEF BarMoves
<1> QED BY <1>8, <1>9, <1>10 DEF SinkInv

\* PlotBegin.
LEMMA SinkBeginPlot ==
  ASSUME TypeOK, SinkInv, RunBeginPlot
  PROVE  SinkInv' /\ BarMoves
<1>1. /\ phase = "plot" /\ phase' \in {"alloc", "empty"}
      /\ IF phase' = "empty" THEN Scoped(0, <<Scope("plot", TRUE)>>, 0)
                             ELSE Enter(<<Scope("plot", FALSE)>>)
  BY DEF RunBeginPlot, BeginPlot
<1>2. scopes \in Seq(Opened) /\ Len(scopes) = 0 /\ Latest \in Views /\ fraction = 0
  BY <1>1 DEF SinkInv, ScopeInv, ViewInv, Depth
<1> DEFINE c(refused) == Scope("plot", refused)
<1>3. \A r \in BOOLEAN : c(r) \in Opened /\ c(r).kind = "plot" /\ c(r).quiet = r
  BY ScopeIsOpened DEF Kinds
<1>4. /\ scopes' \in Seq(Opened) /\ Len(scopes') = (IF phase' = "empty" THEN 0 ELSE 1)
      /\ phase' # "empty" => Held(scopes'[1], "plot")
      /\ Latest' \in Views /\ fraction' = 0 /\ state' = "plotting"
  <2>1. CASE phase' = "empty"
    <3> DEFINE d == c(TRUE)
    <3>1. d \in Opened /\ d.kind = "plot" /\ d.quiet
      BY <1>3
    <3> HIDE DEF d
    <3>2. Scoped(0, <<d>>, 0)
      BY <1>1, <2>1 DEF d
    <3>3. scopes' \in Seq(Opened) /\ Len(scopes') = 0 /\ Latest' \in Views
          /\ Latest' = Ended(Begun(Latest, d), d)
      BY <1>2, <3>1, <3>2, OnePassed
    <3>4. Begun(Latest, d) = [fraction |-> 0, state |-> "plotting", shown |-> Latest.shown]
          /\ Begun(Latest, d) \in Views
      BY <1>2, <3>1, BegunShows
    <3>5. Latest' = [fraction |-> 0, state |-> "plotting", shown |-> Latest.shown]
      BY <3>1, <3>3, <3>4, EndedShows
    <3> QED BY <2>1, <3>3, <3>5, ShownParts
  <2>2. CASE phase' # "empty"
    <3> DEFINE d == c(FALSE)
    <3>1. d \in Opened /\ d.kind = "plot" /\ ~d.quiet
      BY <1>3
    <3> HIDE DEF d
    <3>2. Enter(<<d>>)
      BY <1>1, <2>2 DEF d
    <3>3. scopes' \in Seq(Opened) /\ Len(scopes') = 0 + 1 /\ Latest' \in Views
          /\ scopes'[0 + 1] = d /\ Latest' = Begun(Latest, d)
      BY <1>2, <3>1, <3>2, Entered
    <3>4. Latest' = [fraction |-> 0, state |-> "plotting", shown |-> Latest.shown]
      BY <1>2, <3>1, <3>3, BegunShows
    <3> QED BY <2>2, <3>1, <3>3, <3>4, ShownParts DEF Held
  <2> QED BY <2>1, <2>2
<1>5. ScopeInv'
  BY <1>1, <1>4 DEF ScopeInv, Depth, Final
<1>6. ViewInv' /\ LatestTrue'
  BY <1>1, <1>4 DEF ViewInv, LatestTrue, Over, InTable
<1>7. BarMoves
  BY <1>2, <1>4 DEF BarMoves
<1> QED BY <1>5, <1>6, <1>7 DEF SinkInv

\* AllocationBegin and AllocationEnd.
LEMMA SinkAllocate ==
  ASSUME TypeOK, PhaseInv, SinkInv, RunAllocate
  PROVE  SinkInv' /\ BarMoves
<1>1. /\ phase = "alloc" /\ phase' = "table" /\ table' = table /\ table = 0
      /\ Scoped(1, <<Scope("alloc", pairs' = 0)>>, 1)
  BY DEF RunAllocate, Allocate, PhaseInv
<1>2. /\ scopes \in Seq(Opened) /\ Len(scopes) = 1 /\ Held(scopes[1], "plot")
      /\ Latest \in Views /\ fraction = 0
  BY <1>1 DEF SinkInv, ScopeInv, ViewInv, Depth, Final
<1> DEFINE d == Scope("alloc", pairs' = 0)
<1>3. d \in Opened /\ d.kind = "alloc"
  BY ScopeIsOpened DEF Kinds
<1> HIDE DEF d
<1>4. Scoped(1, <<d>>, 1)
  BY <1>1 DEF d
<1>5. /\ scopes' \in Seq(Opened) /\ Len(scopes') = 1 /\ \A i \in 1 .. 1 : scopes'[i] = scopes[i]
      /\ Latest' \in Views /\ Latest' = Ended(Begun(Latest, d), d)
  BY <1>2, <1>3, <1>4, OnePassed
<1>6. Begun(Latest, d) = [fraction |-> 0, state |-> "allocating", shown |-> Latest.shown]
      /\ Begun(Latest, d) \in Views
  BY <1>2, <1>3, BegunShows, ViewParts
<1>7. fraction' = 0 /\ state' = "allocating"
  BY <1>3, <1>5, <1>6, EndedShows, ShownParts
<1>8. ScopeInv'
  BY <1>1, <1>2, <1>5 DEF ScopeInv, Depth, Final
<1>9. ViewInv' /\ LatestTrue'
  BY <1>1, <1>5, <1>7 DEF ViewInv, LatestTrue, Over, InTable
<1>10. BarMoves
  BY <1>2, <1>7 DEF BarMoves
<1> QED BY <1>8, <1>9, <1>10 DEF SinkInv

\* What is known when a table is about to begin.
LEMMA BeforeTable ==
  ASSUME TypeOK, SinkInv, phase = "table"
  PROVE  /\ scopes \in Seq(Opened) /\ Len(scopes) = 1 /\ Held(scopes[1], "plot") /\ Latest \in Views
         /\ fraction \in Nat /\ table \in Tables
         /\ TableBase(table) < fraction => table = 1
<1>1. /\ scopes \in Seq(Opened) /\ Len(scopes) = 1 /\ Held(scopes[1], "plot") /\ Latest \in Views
  BY DEF SinkInv, ScopeInv, ViewInv, Depth, Final
<1>2. fraction \in Nat /\ table \in Tables /\ TableBase(table) \in Nat
  BY <1>1, ViewParts, BarNumbers DEF TypeOK
<1>3. (table = 0 => fraction = 0) /\ (table > 1 => fraction <= TableBase(table))
  BY DEF SinkInv, ViewInv
<1>4. table \in {0, 1, 2, 3}
  BY <1>2 DEF Tables
<1> QED BY <1>1, <1>2, <1>3, <1>4

\* TableBegin, refused.
LEMMA SinkCancelTable ==
  ASSUME TypeOK, SinkInv, RunCancelTable
  PROVE  SinkInv' /\ BarMoves
<1>1. /\ phase = "table" /\ phase' = "sorted" /\ table' = table /\ result' = Empty
      /\ Scoped(1, <<Scope("table", TRUE)>>, 1)
  BY DEF RunCancelTable, CancelTable
<1>2. /\ scopes \in Seq(Opened) /\ Len(scopes) = 1 /\ Held(scopes[1], "plot") /\ Latest \in Views
      /\ fraction \in Nat /\ table \in Tables
      /\ TableBase(table) < fraction => table = 1
  BY <1>1, BeforeTable
<1> DEFINE d == Scope("table", TRUE)
<1>3. d \in Opened /\ d.kind = "table" /\ d.table = table /\ d.quiet
  BY ScopeIsOpened DEF Kinds
<1> HIDE DEF d
<1>4. Scoped(1, <<d>>, 1)
  BY <1>1 DEF d
<1>5. /\ scopes' \in Seq(Opened) /\ Len(scopes') = 1 /\ \A i \in 1 .. 1 : scopes'[i] = scopes[i]
      /\ Latest' \in Views /\ Latest' = Ended(Begun(Latest, d), d)
  BY <1>2, <1>3, <1>4, OnePassed
<1>6. Begun(Latest, d) = [fraction |-> TableBase(table), state |-> "matching", shown |-> table]
      /\ Begun(Latest, d) \in Views
  BY <1>2, <1>3, BegunShows
<1>7. fraction' = TableBase(table) /\ state' = "matching" /\ shown' = table
  BY <1>3, <1>5, <1>6, EndedShows, ShownParts
<1>8. ScopeInv'
  BY <1>1, <1>2, <1>5 DEF ScopeInv, Depth, Final
<1>9. fraction' <= TableDone(table)
  BY <1>2, <1>7, BarNumbers
<1>10. ViewInv'
  <2>1. TableDone(table)' = TableDone(table)
    BY <1>1 DEF TableDone, TableBase
  <2> QED BY <1>1, <1>5, <1>9, <2>1 DEF ViewInv, InTable
<1>11. LatestTrue'
  BY <1>1, <1>7 DEF LatestTrue, Over, InTable
<1>12. BarMoves
  <2>1. TableBase(table) \in Nat
    BY <1>2, BarNumbers
  <2> QED BY <1>1, <1>2, <1>7, <2>1 DEF BarMoves
<1> QED BY <1>8, <1>10, <1>11, <1>12 DEF SinkInv

\* The x values: TableBegin and, if the layout has room, PostSortBegin.
LEMMA SinkGenerateXs ==
  ASSUME TypeOK, SinkInv, refuses \in Manners, RunGenerateXs
  PROVE  SinkInv' /\ BarMoves
<1>1. /\ phase = "table" /\ phase' \in {"thrown", "sort"} /\ table' = table
      /\ IF phase' = "thrown" THEN Scoped(1, <<Scope("table", FALSE)>>, 0)
                              ELSE Enter(<<Scope("table", FALSE), SortScope>>)
  BY DEF RunGenerateXs, GenerateXs
<1>2. /\ scopes \in Seq(Opened) /\ Len(scopes) = 1 /\ Held(scopes[1], "plot") /\ Latest \in Views
      /\ fraction \in Nat /\ table \in Tables
      /\ TableBase(table) < fraction => table = 1
  BY <1>1, BeforeTable
<1> DEFINE c == Scope("table", FALSE)
           d == SortScope
<1>3. c \in Opened /\ c.kind = "table" /\ c.table = table /\ ~c.quiet /\ Held(c, "table")
  BY ScopeIsOpened DEF Kinds, Held
<1>4. d \in Opened /\ d.kind = "sort" /\ d.table = table
  <2>1. refuses.sorts \in BOOLEAN
    BY RunAssumption, Zenon
  <2> QED BY <2>1, ScopeIsOpened DEF Kinds, SortScope
<1> HIDE DEF c, d
<1>5. CASE phase' = "thrown"
  <2> DEFINE new == <<c>>
  <2>1. new \in Seq(Opened) /\ Len(new) = 1
    BY <1>3
  <2>3. Scoped(1, new, 0) /\ phase' \in {"plotted", "thrown"}
    BY <1>1, <1>5 DEF c
  <2> HIDE DEF new
  <2>2. Depth > 0 /\ 1 \in 0 .. Len(scopes) /\ 1 + Len(new) <= 4 /\ Len(new) \in 0 .. 2
    BY <1>1, <1>2, <2>1 DEF Depth, Final
  <2>4. 1 > 0
    OBVIOUS
  <2> QED BY <2>1, <2>2, <2>3, <2>4, SinkOver
<1>6. CASE phase' = "sort"
  <2> DEFINE new == <<c, d>>
             n   == 1 + Len(new)
             end == Begun(Begun(Latest, c), d)
  <2>1. new \in Seq(Opened) /\ Len(new) = 2 /\ new[1] = c /\ new[2] = d
    BY <1>3, <1>4
  <2>2. Enter(new)
    BY <1>1, <1>6 DEF c, d
  <2>3. Entering(Latest, new) = end
    <3>1. \A u, v : Entering(Latest, <<u, v>>) = Begun(Begun(Latest, u), v)
      BY EnteringFew
    <3> QED BY <3>1, Zenon
  <2> HIDE DEF new, n, end
  <2>4. Scoped(1, new, n) /\ n = 3
    BY <1>2, <2>1, <2>2 DEF Enter, n
  <2>5. Effect(1, new, n)
    <3>1. 1 \in 0 .. Len(scopes) /\ Len(new) \in 0 .. 2 /\ n \in 0 .. 1 + Len(new)
          /\ 1 + Len(new) <= 4 /\ Len(scopes) \in 0 .. 4
      BY <1>2, <2>1, <2>4
    <3> QED BY <1>2, <2>1, <2>4, <3>1, ScopedStep
  <2>6. /\ scopes' \in Seq(Opened) /\ Len(scopes') = n
        /\ \A i \in 1 .. n : scopes'[i] = IF i <= 1 THEN scopes[i] ELSE new[i - 1]
        /\ Len(OpenIn(1, new)) = 1 + Len(new)
        /\ Latest' \in Views /\ Latest' = Sent(1, new, n)
    BY <2>5 DEF Effect
  <2>7. scopes'[1] = scopes[1] /\ scopes'[2] = c /\ scopes'[3] = d
    BY <2>1, <2>4, <2>6
  <2>8. Latest' = end
    <3> DEFINE open == OpenIn(1, new)
    <3>m. Len(scopes) \in 0 .. 4
      BY <1>2
    <3>1. Leaving(Latest, scopes, Len(scopes)) = Latest
      BY <3>m, LeavingFew
    <3>2. Len(open) = n /\ Len(open) \in 0 .. 4
      BY <2>1, <2>4, <2>6
    <3> HIDE DEF open
    <3>3. Leaving(end, open, n) = end
      BY <3>2, LeavingFew
    <3> QED BY <1>2, <2>3, <2>6, <3>1, <3>3 DEF Sent, open
  <2>9. Begun(Latest, c) = [fraction |-> TableBase(table), state |-> "matching", shown |-> table]
        /\ Begun(Latest, c) \in Views
    BY <1>2, <1>3, BegunShows
  <2>10. end = [fraction |-> TableBase(table), state |-> "postsort", shown |-> table]
    BY <1>4, <2>9, BegunShows DEF end
  <2>11. fraction' = TableBase(table) /\ state' = "postsort" /\ shown' = table
    BY <2>8, <2>10, ShownParts
  <2>12. ScopeInv'
    BY <1>1, <1>2, <1>3, <1>4, <1>6, <2>4, <2>6, <2>7 DEF ScopeInv, Depth, Final
  <2>13. fraction' <= TableDone(table) /\ TableBase(table) \in Nat
    BY <1>2, <2>11, BarNumbers
  <2>14. TableDone(table)' = TableDone(table)
    BY <1>1 DEF TableDone, TableBase
  <2>15. ViewInv'
    BY <1>1, <1>6, <2>6, <2>13, <2>14 DEF ViewInv, InTable
  <2>16. LatestTrue'
    BY <1>1, <1>6, <2>11 DEF LatestTrue, Over, InTable
  <2>17. BarMoves
    BY <1>1, <1>2, <2>11, <2>13 DEF BarMoves
  <2> QED BY <2>12, <2>15, <2>16, <2>17 DEF SinkInv
<1> QED BY <1>1, <1>5, <1>6

\* TableBegin of a table.
LEMMA SinkBeginTable ==
  ASSUME TypeOK, SinkInv, RunBeginTable
  PROVE  SinkInv' /\ BarMoves
<1>1. /\ phase = "table" /\ phase' \in {"thrown", "section"} /\ table' = table /\ walk' = 0
      /\ EnterOrThrow(<<Scope("table", FALSE)>>)
  BY DEF RunBeginTable, BeginTable
<1>2. /\ scopes \in Seq(Opened) /\ Len(scopes) = 1 /\ Held(scopes[1], "plot") /\ Latest \in Views
      /\ fraction \in Nat /\ table \in Tables
      /\ TableBase(table) < fraction => table = 1
  BY <1>1, BeforeTable
<1> DEFINE c == Scope("table", FALSE)
           new == <<c>>
<1>3. c \in Opened /\ c.kind = "table" /\ c.table = table /\ ~c.quiet /\ Held(c, "table")
  BY ScopeIsOpened DEF Kinds, Held
<1> HIDE DEF c
<1>4. new \in Seq(Opened) /\ Len(new) = 1
  BY <1>3
<1>5. CASE phase' = "thrown"
  <2>1. Scoped(1, new, 0) /\ phase' \in {"plotted", "thrown"} /\ 1 > 0
    BY <1>1, <1>2, <1>5 DEF c, EnterOrThrow
  <2> HIDE DEF new
  <2>2. Depth > 0 /\ 1 \in 0 .. Len(scopes) /\ 1 + Len(new) <= 4 /\ Len(new) \in 0 .. 2
    BY <1>1, <1>2, <1>4 DEF Depth, Final
  <2> QED BY <1>4, <2>1, <2>2, SinkOver
<1>6. CASE phase' = "section"
  <2>1. Scoped(1, <<c>>, 1 + 1)
    <3>1. Len(<<c>>) = 1
      OBVIOUS
    <3> QED BY <1>1, <1>2, <1>6, <3>1 DEF c, EnterOrThrow
  <2>2. /\ scopes' \in Seq(Opened) /\ Len(scopes') = 1 + 1
        /\ \A i \in 1 .. 1 : scopes'[i] = scopes[i]
        /\ scopes'[1 + 1] = c
        /\ Latest' \in Views /\ Latest' = Begun(Latest, c)
    <3>1. 1 \in Nat /\ 1 = Len(scopes) /\ Len(scopes) \in 0 .. 3
      BY <1>2
    <3> QED BY <1>2, <1>3, <2>1, <3>1, OneEntered
  <2>3. fraction' = TableBase(table) /\ state' = "matching" /\ shown' = table
    <3>1. Begun(Latest, c) = [fraction |-> TableBase(table), state |-> "matching", shown |-> table]
      BY <1>2, <1>3, BegunShows
    <3> QED BY <2>2, <3>1, ShownParts
  <2>4. ScopeInv'
    BY <1>1, <1>2, <1>3, <1>6, <2>2 DEF ScopeInv, Depth, Final
  <2>5. TableBase(table) \in Nat /\ TableBase(table)' = TableBase(table)
    BY <1>1, <1>2, BarNumbers DEF TableBase
  <2>6. KeysBehind' = 0
    BY <1>1, <1>6, ConstantTypes DEF KeysBehind
  <2>7. ViewInv'
    BY <1>1, <1>6, <2>2, <2>3, <2>5, <2>6 DEF ViewInv, InTable
  <2>8. LatestTrue'
    BY <1>1, <1>6, <2>3 DEF LatestTrue, Over, InTable
  <2>9. BarMoves
    BY <1>1, <1>2, <2>3, <2>5 DEF BarMoves
  <2> QED BY <2>4, <2>7, <2>8, <2>9 DEF SinkInv
<1> QED BY <1>1, <1>5, <1>6

\* What is known while the pairs of a table are searched.
LEMMA InTheTable ==
  ASSUME TypeOK, PhaseInv, SinkInv, InTable
  PROVE  /\ scopes \in Seq(Opened) /\ Len(scopes) = Depth /\ Depth \in 2 .. 4 /\ Latest \in Views
         /\ Held(scopes[1], "plot") /\ Held(scopes[2], "table") /\ scopes[2].table = table
         /\ Depth > 2 => scopes[3].kind = "section"
         /\ table \in Tables /\ table \in 1 .. 3 /\ walk \in 0 .. 3 /\ mk \in 0 .. MatchKeys
         /\ TableBase(table) \in Nat /\ fraction \in Nat /\ KeysBehind \in Nat
         /\ TableBase(table) <= fraction /\ fraction <= TableBase(table) + KeysBehind
         /\ state = "matching" /\ shown = table
<1>1. Depth \in 2 .. 4 /\ phase # "sort"
  BY DEF Depth, Final, InTable
<1>2. table \in Tables /\ table \in 1 .. 3 /\ walk \in 0 .. 3 /\ mk \in 0 .. MatchKeys
  BY DEF TypeOK, PhaseInv
<1>3. /\ scopes \in Seq(Opened) /\ Len(scopes) = Depth /\ Latest \in Views
      /\ Held(scopes[1], "plot") /\ Held(scopes[2], "table") /\ scopes[2].table = table
      /\ Depth > 2 => scopes[3].kind = "section"
  BY <1>1 DEF SinkInv, ScopeInv, ViewInv
<1>4. fraction \in Nat /\ TableBase(table) \in Nat
  BY <1>2, <1>3, ViewParts, BarNumbers
<1>5. KeysBehind \in Nat
  BY <1>2, CountOfKeys DEF KeysBehind
<1>6. /\ TableBase(table) <= fraction /\ fraction <= TableBase(table) + KeysBehind
      /\ state = "matching" /\ shown = table
  BY DEF SinkInv, ViewInv, LatestTrue, Over
<1> QED BY <1>1, <1>2, <1>3, <1>4, <1>5, <1>6

\* A step within a table that shows the view as it was.
LEMMA SameView ==
  ASSUME TypeOK, PhaseInv, SinkInv, InTable, InTable', table' = table,
         Latest' = Latest, KeysBehind' \in Nat, KeysBehind <= KeysBehind'
  PROVE  ViewInv' /\ LatestTrue' /\ BarMoves
<1>1. fraction' = fraction /\ state' = state /\ shown' = shown
  <2>1. Latest \in Views
    BY InTheTable
  <2>2. Latest = [fraction |-> fraction, state |-> state, shown |-> shown]
    BY DEF Latest
  <2> QED BY <2>2, ShownParts
<1>2. /\ TableBase(table) \in Nat /\ fraction \in Nat /\ KeysBehind \in Nat /\ Latest \in Views
      /\ TableBase(table) <= fraction /\ fraction <= TableBase(table) + KeysBehind
      /\ state = "matching" /\ shown = table
  BY InTheTable
<1>3. TableBase(table)' = TableBase(table)
  BY DEF TableBase
<1>4. fraction <= TableBase(table) + KeysBehind'
  BY <1>2
<1>5. phase' \in {"section", "group", "find", "join"}
  BY DEF InTable
<1>6. ViewInv'
  BY <1>1, <1>2, <1>3, <1>4, <1>5 DEF ViewInv
<1>7. LatestTrue'
  BY <1>1, <1>2, <1>5 DEF LatestTrue, Over
<1>8. BarMoves
  BY <1>1, <1>2 DEF BarMoves
<1> QED BY <1>6, <1>7, <1>8

\* SectionBegin.
LEMMA SinkBeginSection ==
  ASSUME TypeOK, PhaseInv, SinkInv, RunBeginSection
  PROVE  SinkInv' /\ BarMoves
<1>1. /\ phase = "section" /\ phase' = "group" /\ table' = table /\ walk' = walk /\ mk' = 0
      /\ Enter(<<Scope("section", FALSE)>>)
  BY DEF RunBeginSection, BeginSection
<1>2. InTable /\ InTable' /\ Depth = 2 /\ Depth' = 3
  BY <1>1 DEF InTable, Depth, Final
<1>3. /\ scopes \in Seq(Opened) /\ Len(scopes) = 2 /\ Latest \in Views
      /\ Held(scopes[1], "plot") /\ Held(scopes[2], "table") /\ scopes[2].table = table
      /\ walk \in 0 .. 3
  BY <1>2, InTheTable
<1> DEFINE c == Scope("section", FALSE)
<1>4. c \in Opened /\ c.kind = "section"
  BY ScopeIsOpened DEF Kinds
<1> HIDE DEF c
<1>5. Enter(<<c>>)
  BY <1>1 DEF c
<1>6. /\ scopes' \in Seq(Opened) /\ Len(scopes') = 2 + 1
      /\ \A i \in 1 .. 2 : scopes'[i] = scopes[i]
      /\ scopes'[2 + 1] = c
      /\ Latest' = Begun(Latest, c)
  BY <1>3, <1>4, <1>5, Entered
<1>7. Latest' = Latest
  BY <1>3, <1>4, <1>6, BegunShows
<1>8. scopes'[1] = scopes[1] /\ scopes'[2] = scopes[2] /\ scopes'[3] = c /\ Len(scopes') = 3
  BY <1>6
<1>9. ScopeInv'
  BY <1>1, <1>2, <1>3, <1>4, <1>6, <1>8 DEF ScopeInv
<1>10. KeysBehind' \in Nat /\ KeysBehind <= KeysBehind'
  <2>1. MatchKeys \in Nat
    BY ConstantTypes, Zenon
  <2>2. KeysBehind = walk * MatchKeys /\ KeysBehind' = walk * MatchKeys + 0
    BY <1>1 DEF KeysBehind, Processed
  <2>3. walk * MatchKeys \in Nat
    BY <1>3, <2>1
  <2> QED BY <2>2, <2>3
<1> QED BY <1>1, <1>2, <1>7, <1>9, <1>10, SameView DEF SinkInv

\* One of some scopes.
LEMMA OpenScope ==
  ASSUME NEW list \in Seq(Opened), NEW i \in 1 .. Len(list)
  PROVE  list[i] \in Opened
OBVIOUS

\* The outer two of some scopes.
LEMMA OuterScopes ==
  ASSUME NEW list \in Seq(Opened), Len(list) >= 2
  PROVE  SubSeq(list, 1, 2) \in Seq(Opened)
OBVIOUS

\* SectionBegin, refused: the table's scope is left.
LEMMA SinkCancelSection ==
  ASSUME TypeOK, PhaseInv, SinkInv, RunCancelSection
  PROVE  SinkInv' /\ BarMoves
<1>1. /\ phase = "section" /\ phase' = "sorted" /\ table' = table /\ walk' = walk
      /\ result' = Empty /\ Scoped(2, <<Scope("section", TRUE)>>, 1)
  BY DEF RunCancelSection, CancelSection
<1>2. InTable /\ Depth = 2 /\ Depth' = 1
  BY <1>1 DEF InTable, Depth, Final
<1>3. /\ scopes \in Seq(Opened) /\ Len(scopes) = 2 /\ Latest \in Views
      /\ Held(scopes[1], "plot") /\ Held(scopes[2], "table") /\ scopes[2].table = table
      /\ TableBase(table) \in Nat /\ fraction \in Nat /\ table \in Tables /\ KeysBehind \in Nat
      /\ fraction <= TableBase(table) + KeysBehind /\ walk \in 0 .. 3 /\ mk \in 0 .. MatchKeys
  BY <1>2, InTheTable
<1> DEFINE c   == Scope("section", TRUE)
           new == <<c>>
<1>4. c \in Opened /\ c.kind = "section"
  BY ScopeIsOpened DEF Kinds
<1> HIDE DEF c
<1>5. new \in Seq(Opened) /\ Len(new) = 1 /\ new[1] = c
  BY <1>4
<1>6. Scoped(2, new, 1)
  BY <1>1 DEF c
<1>7. Entering(Latest, new) = Begun(Latest, c)
  BY EnteringFew
<1>8. Begun(Latest, c) = Latest
  BY <1>3, <1>4, BegunShows
<1> HIDE DEF new
<1>9. Effect(2, new, 1)
  <2>1. 2 \in 0 .. Len(scopes) /\ Len(new) \in 0 .. 2 /\ 1 \in 0 .. 2 + Len(new)
        /\ 2 + Len(new) <= 4 /\ Len(scopes) \in 0 .. 4
    BY <1>3, <1>5
  <2> QED BY <1>3, <1>5, <1>6, <2>1, ScopedStep
<1> DEFINE open == OpenIn(2, new)
<1>10. /\ scopes' \in Seq(Opened) /\ Len(scopes') = 1
       /\ \A i \in 1 .. 1 : scopes'[i] = IF i <= 2 THEN scopes[i] ELSE new[i - 2]
       /\ Len(open) = 2 + Len(new)
       /\ \A i \in 1 .. 2 + Len(new) : open[i] = IF i <= 2 THEN scopes[i] ELSE new[i - 2]
       /\ Latest' \in Views /\ Latest' = Sent(2, new, 1)
  BY <1>9 DEF Effect
<1>11. Sent(2, new, 1) = Leaving(Latest, open, 1)
  <2>1. Len(scopes) \in 0 .. 4
    BY <1>3
  <2>2. Leaving(Latest, scopes, Len(scopes)) = Latest
    BY <2>1, LeavingFew
  <2> QED BY <1>3, <1>7, <1>8, <2>2 DEF Sent
<1>12. open \in Seq(Opened) /\ Len(open) = 3 /\ open[2] = scopes[2]
  <2>1. Len(open) = 3
    BY <1>5, <1>10
  <2>2. open[2] = scopes[2]
    <3>1. 2 \in 1 .. 2 + Len(new) /\ 2 <= 2
      BY <1>5
    <3> QED BY <1>10, <3>1
  <2>3. open \in Seq(Opened)
    <3>1. SubSeq(scopes, 1, 2) \in Seq(Opened)
      <4>1. scopes \in Seq(Opened) /\ Len(scopes) >= 2
        BY <1>3
      <4> QED BY <4>1, OuterScopes, Zenon
    <3> QED BY <1>5, <3>1 DEF OpenIn
  <2> QED BY <2>1, <2>2, <2>3
<1> HIDE DEF open
<1>13. Leaving(Latest, open, 1) = [fraction |-> TableDone(table), state |-> "plotting", shown |-> table]
  BY <1>3, <1>12, TableLeft
<1>14. fraction' = TableDone(table) /\ state' = "plotting" /\ shown' = table
  BY <1>10, <1>11, <1>13, ShownParts
<1>15. TableDone(table)' = TableDone(table) /\ TableDone(table) \in Nat
       /\ fraction <= TableDone(table)
  <2>1. TableDone(table) = TableBase(table) + TableShare /\ TableDone(table) \in Nat /\ TableShare \in Nat
    BY <1>3, BarNumbers
  <2>2. KeysBehind <= TableShare
    <3>1. walk * MatchKeys \in Nat /\ Processed = walk * MatchKeys + mk /\ Processed <= TableShare
      BY <1>3, CountOfKeys
    <3>2. KeysBehind = walk * MatchKeys /\ mk \in Nat
      BY <1>1, <1>3 DEF KeysBehind, TypeOK
    <3> QED BY <2>1, <3>1, <3>2
  <2>3. TableDone(table)' = TableDone(table)
    BY <1>1 DEF TableDone, TableBase
  <2> QED BY <1>3, <2>1, <2>2, <2>3
<1>16. ScopeInv'
  <2>1. scopes'[1] = scopes[1]
    BY <1>10
  <2> QED BY <1>1, <1>2, <1>3, <1>10, <2>1 DEF ScopeInv
<1>17. ViewInv' /\ LatestTrue'
  BY <1>1, <1>10, <1>14, <1>15 DEF ViewInv, LatestTrue, Over, InTable
<1>18. BarMoves
  BY <1>3, <1>14, <1>15 DEF BarMoves
<1> QED BY <1>16, <1>17, <1>18 DEF SinkInv

\* A key scope that ends moves the bar on by one match key.
LEMMA KeyEnds ==
  ASSUME TypeOK, PhaseInv, SinkInv, InTable, InTable', table' = table, walk' = walk,
         mk' = mk + 1, mk < MatchKeys, phase # "section", phase' # "section",
         NEW c \in Opened, c.kind = "key", c.table = table, c.key = Processed,
         Latest' = Ended(Latest, c), Latest' \in Views
  PROVE  ViewInv' /\ LatestTrue' /\ BarMoves
<1>1. /\ TableBase(table) \in Nat /\ fraction \in Nat /\ Latest \in Views
      /\ TableBase(table) <= fraction /\ fraction <= TableBase(table) + KeysBehind
      /\ state = "matching" /\ shown = table /\ walk \in 0 .. 3 /\ mk \in 0 .. MatchKeys
  BY InTheTable
<1>2. KeysBehind = Processed /\ KeysBehind' = Processed + 1 /\ Processed \in Nat
  <2>1. Processed' = walk * MatchKeys + (mk + 1)
    BY DEF Processed
  <2>2. walk * MatchKeys \in Nat /\ Processed = walk * MatchKeys + mk /\ Processed \in Nat /\ mk \in Nat
    BY <1>1, CountOfKeys
  <2>3. Processed' = Processed + 1
    BY <2>1, <2>2
  <2> QED BY <2>2, <2>3 DEF KeysBehind
<1>3. c.quiet \in BOOLEAN
  BY DEF Opened
<1>4. CASE c.quiet
  <2>1. Latest' = Latest
    BY <1>1, <1>4, EndedShows
  <2>2. KeysBehind' \in Nat /\ KeysBehind <= KeysBehind'
    BY <1>2
  <2> QED BY <2>1, <2>2, SameView
<1>5. CASE ~c.quiet
  <2>1. Latest' = [fraction |-> TableBase(table) + Processed + 1, state |-> Latest.state,
                  shown |-> Latest.shown]
    BY <1>1, <1>5, EndedShows
  <2>2. fraction' = TableBase(table) + Processed + 1 /\ state' = "matching" /\ shown' = table
    BY <1>1, <2>1, ShownParts, ViewParts
  <2>3. TableBase(table)' = TableBase(table)
    BY DEF TableBase
  <2>4. phase' \in {"group", "find", "join"}
    BY DEF InTable
  <2>5. TableBase(table) <= fraction' /\ fraction' <= TableBase(table) + KeysBehind'
        /\ fraction <= fraction' /\ fraction' \in Nat
    BY <1>1, <1>2, <2>2
  <2>6. ViewInv'
    BY <2>3, <2>4, <2>5 DEF ViewInv
  <2>7. LatestTrue'
    BY <2>2, <2>4 DEF LatestTrue, Over, InTable
  <2>8. BarMoves
    BY <1>1, <2>5 DEF BarMoves
  <2> QED BY <2>6, <2>7, <2>8
<1> QED BY <1>3, <1>4, <1>5

\* The scope of a match key.
LEMMA KeyScopeIsOpened ==
  ASSUME TypeOK, refuses \in Manners, walk \in 0 .. 3, mk < MatchKeys
  PROVE  /\ KeyScope \in Opened /\ KeyScope.kind = "key" /\ KeyScope.table = table
         /\ KeyScope.key = Processed
<1> DEFINE r == Processed \in refuses.keys
<1>1. r \in BOOLEAN
  OBVIOUS
<1>2. KeyScope = Scope("key", r)
  BY DEF KeyScope
<1> HIDE DEF r
<1>3. "key" \in Kinds
  BY DEF Kinds
<1> QED BY <1>1, <1>2, <1>3, ScopeIsOpened

\* A match key whose group is skipped.
LEMMA SinkSkipGroup ==
  ASSUME TypeOK, PhaseInv, SinkInv, refuses \in Manners, RunSkipGroup
  PROVE  SinkInv' /\ BarMoves
<1>1. /\ phase = "group" /\ phase' = "group" /\ table' = table /\ walk' = walk
      /\ mk < MatchKeys /\ mk' = mk + 1 /\ Scoped(3, <<KeyScope>>, 3)
  BY DEF RunSkipGroup, SkipGroup
<1>2. InTable /\ InTable' /\ Depth = 3 /\ Depth' = 3
  BY <1>1 DEF InTable, Depth, Final
<1>3. /\ scopes \in Seq(Opened) /\ Len(scopes) = 3 /\ Latest \in Views
      /\ Held(scopes[1], "plot") /\ Held(scopes[2], "table") /\ scopes[2].table = table
      /\ scopes[3].kind = "section" /\ walk \in 0 .. 3
  BY <1>2, InTheTable
<1> DEFINE c == KeyScope
<1>4. c \in Opened /\ c.kind = "key" /\ c.table = table /\ c.key = Processed
  BY <1>1, <1>3, KeyScopeIsOpened
<1> HIDE DEF c
<1>5. Scoped(3, <<c>>, 3)
  BY <1>1 DEF c
<1>6. /\ scopes' \in Seq(Opened) /\ Len(scopes') = 3
      /\ \A i \in 1 .. 3 : scopes'[i] = scopes[i]
      /\ Latest' \in Views /\ Latest' = Ended(Begun(Latest, c), c)
  <2>1. 3 \in Nat /\ 3 = Len(scopes) /\ Len(scopes) \in 0 .. 3
    BY <1>3
  <2> QED BY <1>3, <1>4, <1>5, <2>1, OnePassed
<1>7. Latest' = Ended(Latest, c)
  BY <1>3, <1>4, <1>6, BegunShows
<1>8. scopes'[1] = scopes[1] /\ scopes'[2] = scopes[2] /\ scopes'[3] = scopes[3]
  BY <1>6
<1>9. ScopeInv'
  BY <1>1, <1>2, <1>3, <1>6, <1>8 DEF ScopeInv
<1>10. ViewInv' /\ LatestTrue' /\ BarMoves
  BY <1>1, <1>2, <1>4, <1>6, <1>7, KeyEnds
<1> QED BY <1>9, <1>10 DEF SinkInv

\* A match key whose group is searched begins.
LEMMA SinkHashLeft ==
  ASSUME TypeOK, PhaseInv, SinkInv, refuses \in Manners, RunHashLeft
  PROVE  SinkInv' /\ BarMoves
<1>1. /\ phase = "group" /\ phase' \in {"find", "thrown"} /\ table' = table /\ walk' = walk
      /\ mk < MatchKeys /\ mk' = mk /\ EnterOrThrow(<<KeyScope>>)
  BY DEF RunHashLeft, HashLeft
<1>2. InTable /\ Depth = 3
  BY <1>1 DEF InTable, Depth, Final
<1>3. /\ scopes \in Seq(Opened) /\ Len(scopes) = 3 /\ Latest \in Views
      /\ Held(scopes[1], "plot") /\ Held(scopes[2], "table") /\ scopes[2].table = table
      /\ scopes[3].kind = "section" /\ walk \in 0 .. 3 /\ mk \in 0 .. MatchKeys
      /\ KeysBehind \in Nat
  BY <1>2, InTheTable
<1> DEFINE c   == KeyScope
           new == <<c>>
<1>4. c \in Opened /\ c.kind = "key" /\ c.table = table /\ c.key = Processed
  BY <1>1, <1>3, KeyScopeIsOpened
<1> HIDE DEF c
<1>5. new \in Seq(Opened) /\ Len(new) = 1
  BY <1>4
<1>6. CASE phase' = "thrown"
  <2>1. Scoped(3, new, 0) /\ phase' \in {"plotted", "thrown"} /\ 3 > 0
    BY <1>1, <1>3, <1>6 DEF c, EnterOrThrow
  <2> HIDE DEF new
  <2>2. Depth > 0 /\ 3 \in 0 .. Len(scopes) /\ 3 + Len(new) <= 4 /\ Len(new) \in 0 .. 2
    BY <1>2, <1>3, <1>5
  <2> QED BY <1>5, <2>1, <2>2, SinkOver
<1>7. CASE phase' = "find"
  <2>1. Enter(<<c>>)
    BY <1>1, <1>7 DEF c, EnterOrThrow, Enter
  <2>2. /\ scopes' \in Seq(Opened) /\ Len(scopes') = 3 + 1
        /\ \A i \in 1 .. 3 : scopes'[i] = scopes[i]
        /\ scopes'[3 + 1] = c
        /\ Latest' = Begun(Latest, c)
    BY <1>3, <1>4, <2>1, Entered
  <2>3. Latest' = Latest
    BY <1>3, <1>4, <2>2, BegunShows
  <2>4. /\ scopes'[1] = scopes[1] /\ scopes'[2] = scopes[2] /\ scopes'[3] = scopes[3]
        /\ scopes'[4] = c /\ Len(scopes') = 4
    BY <2>2
  <2>5. Processed' = Processed
    BY <1>1 DEF Processed
  <2>6. InTable' /\ Depth' = 4
    BY <1>7 DEF InTable, Depth, Final
  <2>7. ScopeInv'
    BY <1>1, <1>3, <1>4, <1>7, <2>2, <2>4, <2>5, <2>6 DEF ScopeInv
  <2>8. KeysBehind' \in Nat /\ KeysBehind <= KeysBehind'
    BY <1>1, <1>3, <1>7, <2>5 DEF KeysBehind
  <2> QED BY <1>1, <1>2, <2>3, <2>6, <2>7, <2>8, SameView DEF SinkInv
<1> QED BY <1>1, <1>6, <1>7

\* The end of a match key.
LEMMA SinkEndGroup ==
  ASSUME TypeOK, PhaseInv, SinkInv, RunEndGroup
  PROVE  SinkInv' /\ BarMoves
<1>1. /\ phase = "join" /\ phase' = "group" /\ table' = table /\ walk' = walk
      /\ mk' = mk + 1 /\ mk < MatchKeys /\ Scoped(3, <<>>, 3)
  BY DEF RunEndGroup, EndGroup, Leave, PhaseInv
<1>2. InTable /\ InTable' /\ Depth = 4 /\ Depth' = 3
  BY <1>1 DEF InTable, Depth, Final
<1>3. /\ scopes \in Seq(Opened) /\ Len(scopes) = 4 /\ Latest \in Views
      /\ Held(scopes[1], "plot") /\ Held(scopes[2], "table") /\ scopes[2].table = table
      /\ scopes[3].kind = "section"
  BY <1>2, InTheTable
<1>4. scopes[4] \in Opened
  <2>1. 4 \in 1 .. Len(scopes)
    BY <1>3
  <2>2. scopes \in Seq(Opened)
    BY <1>3
  <2> QED BY <2>1, <2>2, OpenScope, Zenon
<1>5. scopes[4].kind = "key" /\ scopes[4].table = table /\ scopes[4].key = Processed
  BY <1>2 DEF SinkInv, ScopeInv
<1>6. /\ scopes' \in Seq(Opened) /\ Len(scopes') = 3
      /\ \A i \in 1 .. 3 : scopes'[i] = scopes[i]
      /\ Latest' \in Views /\ Latest' = Leaving(Latest, scopes, 3)
  <2>1. 4 \in 0 .. 4 /\ 4 = Len(scopes) /\ 3 \in 0 .. 4
    BY <1>3
  <2> QED BY <1>1, <1>3, <2>1, OnlyLeft
<1>7. Latest' = Ended(Latest, scopes[4])
  <2>1. Len(scopes) \in 0 .. 4 /\ Len(scopes) > 0 /\ Len(scopes) - 1 = 3
    BY <1>3
  <2>2. Leaving(Latest, scopes, Len(scopes) - 1) = Ended(Latest, scopes[Len(scopes)])
    BY <2>1, LeavingFew
  <2> QED BY <1>3, <1>6, <2>1, <2>2
<1>8. scopes'[1] = scopes[1] /\ scopes'[2] = scopes[2] /\ scopes'[3] = scopes[3]
  BY <1>6
<1>9. ScopeInv'
  BY <1>1, <1>2, <1>3, <1>6, <1>8 DEF ScopeInv
<1>10. ViewInv' /\ LatestTrue' /\ BarMoves
  BY <1>1, <1>2, <1>4, <1>5, <1>6, <1>7, KeyEnds
<1> QED BY <1>9, <1>10 DEF SinkInv

\* The end of a section pair: the next one, the sort, or a throw.
LEMMA SinkEndSection ==
  ASSUME TypeOK, PhaseInv, SinkInv, refuses \in Manners, RunEndSection
  PROVE  SinkInv' /\ BarMoves
<1>1. /\ phase = "group" /\ phase' \in {"section", "thrown", "sort"} /\ table' = table
      /\ walk' = walk + 1 /\ mk = MatchKeys
      /\ phase' = "section" => Scoped(2, <<>>, 2)
      /\ phase' = "thrown" => Scoped(0, <<>>, 0)
      /\ phase' = "sort" => Scoped(2, <<SortScope>>, 3)
  BY DEF RunEndSection, EndSection, Leave
<1>2. InTable /\ Depth = 3
  BY <1>1 DEF InTable, Depth, Final
<1>3. /\ scopes \in Seq(Opened) /\ Len(scopes) = 3 /\ Latest \in Views
      /\ Held(scopes[1], "plot") /\ Held(scopes[2], "table") /\ scopes[2].table = table
      /\ scopes[3].kind = "section" /\ walk \in 0 .. 3 /\ mk \in 0 .. MatchKeys
      /\ KeysBehind \in Nat /\ TableBase(table) \in Nat /\ fraction \in Nat /\ table \in Tables
      /\ fraction <= TableBase(table) + KeysBehind
      /\ state = "matching" /\ shown = table
  BY <1>2, InTheTable
<1>4. scopes[3] \in Opened
  <2>1. 3 \in 1 .. Len(scopes)
    BY <1>3
  <2>2. scopes \in Seq(Opened)
    BY <1>3
  <2> QED BY <2>1, <2>2, OpenScope, Zenon
<1>5. Leaving(Latest, scopes, 2) = Latest
  <2>1. Len(scopes) \in 0 .. 4 /\ Len(scopes) > 0 /\ Len(scopes) - 1 = 2
    BY <1>3
  <2>2. Leaving(Latest, scopes, Len(scopes) - 1) = Ended(Latest, scopes[Len(scopes)])
    BY <2>1, LeavingFew
  <2>3. Ended(Latest, scopes[3]) = Latest
    BY <1>3, <1>4, EndedShows
  <2> QED BY <1>3, <2>1, <2>2, <2>3
<1>6. KeysBehind = Processed /\ Processed = (walk + 1) * MatchKeys /\ Processed <= TableShare
  <2>1. MatchKeys \in Nat
    BY ConstantTypes, Zenon
  <2> QED BY <1>1, <1>3, <2>1, CountOfKeys DEF KeysBehind
<1>7. CASE phase' = "section"
  <2>1. /\ scopes' \in Seq(Opened) /\ Len(scopes') = 2
        /\ \A i \in 1 .. 2 : scopes'[i] = scopes[i]
        /\ Latest' = Leaving(Latest, scopes, 2)
    <3>1. 3 \in 0 .. 4 /\ 3 = Len(scopes) /\ 2 \in 0 .. 3 /\ Scoped(2, <<>>, 2)
      BY <1>1, <1>3, <1>7
    <3> QED BY <1>3, <3>1, OnlyLeft
  <2>2. scopes'[1] = scopes[1] /\ scopes'[2] = scopes[2]
    BY <2>1
  <2>3. InTable' /\ Depth' = 2
    BY <1>7 DEF InTable, Depth, Final
  <2>4. ScopeInv'
    BY <1>1, <1>3, <1>7, <2>1, <2>2, <2>3 DEF ScopeInv
  <2>5. KeysBehind' = KeysBehind
    BY <1>1, <1>6, <1>7 DEF KeysBehind
  <2>6. KeysBehind' \in Nat /\ KeysBehind <= KeysBehind'
    BY <1>3, <2>5
  <2> QED BY <1>1, <1>2, <1>5, <2>1, <2>3, <2>4, <2>6, SameView DEF SinkInv
<1>8. CASE phase' = "thrown"
  <2> DEFINE new == <<>>
  <2>1. Scoped(0, new, 0) /\ phase' \in {"plotted", "thrown"} /\ new \in Seq(Opened)
        /\ Len(new) = 0 /\ new = <<>>
    BY <1>1, <1>8
  <2> HIDE DEF new
  <2>2. Depth > 0 /\ 0 \in 0 .. Len(scopes) /\ 0 + Len(new) <= 4 /\ Len(new) \in 0 .. 2
    BY <1>2, <1>3, <2>1
  <2> QED BY <2>1, <2>2, SinkOver
<1>9. CASE phase' = "sort"
  <2> DEFINE d   == SortScope
             new == <<d>>
  <2>1. d \in Opened /\ d.kind = "sort" /\ d.table = table
    <3>1. refuses.sorts \in BOOLEAN
      BY RunAssumption, Zenon
    <3> QED BY <3>1, ScopeIsOpened DEF Kinds, SortScope
  <2>2. Scoped(2, new, 3)
    BY <1>1, <1>9
  <2> HIDE DEF d
  <2>3. new \in Seq(Opened) /\ Len(new) = 1 /\ new[1] = d
    BY <2>1
  <2>4. Entering(Latest, new) = Begun(Latest, d)
    BY EnteringFew
  <2> HIDE DEF new
  <2>5. Effect(2, new, 3)
    <3>1. 2 \in 0 .. Len(scopes) /\ Len(new) \in 0 .. 2 /\ 3 \in 0 .. 2 + Len(new)
          /\ 2 + Len(new) <= 4 /\ Len(scopes) \in 0 .. 4
      BY <1>3, <2>3
    <3> QED BY <1>3, <2>2, <2>3, <3>1, ScopedStep
  <2>6. /\ scopes' \in Seq(Opened) /\ Len(scopes') = 3
        /\ \A i \in 1 .. 3 : scopes'[i] = IF i <= 2 THEN scopes[i] ELSE new[i - 2]
        /\ Len(OpenIn(2, new)) = 2 + Len(new)
        /\ Latest' \in Views /\ Latest' = Sent(2, new, 3)
    BY <2>5 DEF Effect
  <2>7. scopes'[1] = scopes[1] /\ scopes'[2] = scopes[2] /\ scopes'[3] = d
    BY <2>3, <2>6
  <2>8. Sent(2, new, 3) = Begun(Latest, d)
    <3> DEFINE open == OpenIn(2, new)
    <3>1. Len(open) = 3 /\ Len(open) \in 0 .. 4
      BY <2>3, <2>6
    <3> HIDE DEF open
    <3>2. Leaving(Begun(Latest, d), open, 3) = Begun(Latest, d)
      BY <3>1, LeavingFew
    <3> QED BY <1>5, <2>4, <3>2 DEF Sent, open
  <2>9. Begun(Latest, d) = [fraction |-> fraction, state |-> "postsort", shown |-> table]
    BY <1>3, <2>1, BegunShows, ViewParts
  <2>10. fraction' = fraction /\ state' = "postsort" /\ shown' = table
    BY <2>6, <2>8, <2>9, ShownParts
  <2>11. Depth' = 3
    BY <1>9 DEF Depth, Final
  <2>12. ScopeInv'
    BY <1>1, <1>3, <1>9, <2>1, <2>6, <2>7, <2>11 DEF ScopeInv
  <2>13. TableDone(table) = TableBase(table) + TableShare /\ TableShare \in Nat
    BY <1>3, BarNumbers
  <2>14. TableDone(table)' = TableDone(table)
    BY <1>1 DEF TableDone, TableBase
  <2>15. fraction <= TableDone(table)
    BY <1>3, <1>6, <2>13
  <2>16. ViewInv'
    BY <1>9, <2>6, <2>10, <2>14, <2>15 DEF ViewInv, InTable
  <2>17. LatestTrue'
    BY <1>1, <1>9, <2>10 DEF LatestTrue, Over, InTable
  <2>18. BarMoves
    BY <1>3, <2>10 DEF BarMoves
  <2> QED BY <2>12, <2>16, <2>17, <2>18 DEF SinkInv
<1> QED BY <1>1, <1>7, <1>8, <1>9

\* The end of a sort leaves the table too.
LEMMA SinkSort ==
  ASSUME TypeOK, SinkInv, RunSort
  PROVE  SinkInv' /\ BarMoves
<1>1. phase = "sort" /\ phase' = "sorted" /\ table' = table /\ Scoped(1, <<>>, 1)
  BY DEF RunSort, Sort, Leave
<1>2. Depth = 3 /\ Depth' = 1
  BY <1>1 DEF Depth, Final
<1>3. /\ scopes \in Seq(Opened) /\ Len(scopes) = 3 /\ Latest \in Views
      /\ Held(scopes[1], "plot") /\ Held(scopes[2], "table") /\ scopes[2].table = table
      /\ fraction <= TableDone(table) /\ table \in Tables
  BY <1>1, <1>2 DEF SinkInv, ScopeInv, ViewInv, TypeOK
<1>4. TableDone(table) \in Nat /\ fraction \in Nat
  BY <1>3, BarNumbers, ViewParts
<1>5. /\ scopes' \in Seq(Opened) /\ Len(scopes') = 1
      /\ \A i \in 1 .. 1 : scopes'[i] = scopes[i]
      /\ Latest' \in Views /\ Latest' = Leaving(Latest, scopes, 1)
  <2>1. 3 \in 0 .. 4 /\ 3 = Len(scopes) /\ 1 \in 0 .. 3
    BY <1>3
  <2> QED BY <1>1, <1>3, <2>1, OnlyLeft
<1>6. Leaving(Latest, scopes, 1) = [fraction |-> TableDone(table), state |-> "plotting", shown |-> table]
  BY <1>3, TableLeft
<1>7. fraction' = TableDone(table) /\ state' = "plotting" /\ shown' = table
  BY <1>5, <1>6, ShownParts
<1>8. scopes'[1] = scopes[1]
  BY <1>5
<1>9. ScopeInv'
  BY <1>1, <1>2, <1>3, <1>5, <1>8 DEF ScopeInv
<1>10. TableDone(table)' = TableDone(table)
  BY <1>1 DEF TableDone, TableBase
<1>11. ViewInv' /\ LatestTrue'
  BY <1>1, <1>4, <1>5, <1>7, <1>10 DEF ViewInv, LatestTrue, Over, InTable
<1>12. BarMoves
  BY <1>3, <1>4, <1>7 DEF BarMoves
<1> QED BY <1>9, <1>11, <1>12 DEF SinkInv

\* All scopes are left, by a sort that throws and at the end of run.
LEMMA SinkLeaves ==
  ASSUME SinkInv, RunSortThrows \/ RunCopyOut
  PROVE  SinkInv' /\ BarMoves
<1> DEFINE new == <<>>
<1>1. /\ phase \in {"sort", "sorted"} /\ phase' \in {"plotted", "thrown"}
      /\ Scoped(0, new, 0)
  BY DEF RunSortThrows, SortThrows, RunCopyOut, CopyOut, Leave
<1>2. new \in Seq(Opened) /\ Len(new) = 0 /\ new = <<>>
  OBVIOUS
<1> HIDE DEF new
<1>3. Depth > 0
  BY <1>1 DEF Depth, Final
<1>4. scopes \in Seq(Opened) /\ Len(scopes) = Depth /\ Depth \in 0 .. 4
  BY DepthIsNumber DEF SinkInv, ScopeInv
<1>5. 0 \in 0 .. Len(scopes) /\ 0 + Len(new) <= 4 /\ Len(new) \in 0 .. 2
  BY <1>2, <1>4
<1> QED BY <1>1, <1>2, <1>3, <1>5, SinkOver

\* Steps without an event.
LEMMA SinkUnsent ==
  ASSUME TypeOK, PhaseInv, SinkInv, RunFindPairs \/ RunPlace \/ RunStopped \/ UNCHANGED runVars
  PROVE  SinkInv' /\ BarMoves
<1>1. UNCHANGED <<scopes, fraction, state, shown>>
  BY DEF RunFindPairs, RunPlace, RunStopped, runVars, sink
<1>2. fraction \in Nat /\ table \in Tables /\ BarMoves
  <2>1. fraction \in Nat
    BY ViewParts DEF SinkInv, ViewInv
  <2> QED BY <1>1, <2>1 DEF BarMoves, TypeOK
<1>3. CASE RunFindPairs
  <2>1. phase = "find" /\ phase' = "join" /\ table' = table /\ walk' = walk /\ mk' = mk
    BY <1>3 DEF RunFindPairs, FindPairs
  <2>2. Depth' = Depth /\ Processed' = Processed /\ KeysBehind' = KeysBehind
        /\ TableBase(table)' = TableBase(table) /\ InTable /\ Latest' = Latest
    BY <1>1, <2>1 DEF Depth, Final, Processed, KeysBehind, TableBase, InTable, Latest
  <2>3. ScopeInv'
    BY <1>1, <2>1, <2>2 DEF SinkInv, ScopeInv
  <2>4. ViewInv'
    BY <1>1, <2>1, <2>2 DEF SinkInv, ViewInv
  <2>5. LatestTrue'
    BY <1>1, <2>1, <2>2 DEF SinkInv, LatestTrue, Over
  <2> QED BY <1>2, <2>3, <2>4, <2>5 DEF SinkInv
<1>4. CASE RunPlace
  <2>1. phase = "sorted" /\ phase' = "table" /\ table < 3 /\ table' = table + 1
    BY <1>4 DEF RunPlace, Place
  <2>2. Depth = 1 /\ Depth' = 1 /\ Latest' = Latest
    BY <1>1, <2>1 DEF Depth, Final, Latest
  <2>3. ScopeInv'
    BY <1>1, <2>1, <2>2 DEF SinkInv, ScopeInv
  <2>4. table > 0 => TableBase(table') = TableDone(table)
    <3>1. table \in {0, 1, 2, 3}
      BY <1>2 DEF Tables
    <3>2. table > 0 => table \in 1 .. 2
      BY <2>1, <3>1
    <3> QED BY <1>2, <2>1, <3>2, BarNumbers
  <2>5. TableBase(table)' = TableBase(table')
    BY DEF TableBase
  <2>6. fraction <= TableDone(table) /\ Latest \in Views
    BY <2>1 DEF SinkInv, ViewInv
  <2>7. table' # 0 /\ (table' > 1 => table > 0)
    BY <1>2, <2>1 DEF Tables
  <2>8. ViewInv'
    BY <1>1, <2>1, <2>2, <2>4, <2>5, <2>6, <2>7 DEF ViewInv, InTable
  <2>9. LatestTrue'
    BY <1>1, <2>1 DEF SinkInv, LatestTrue, Over, InTable
  <2> QED BY <1>2, <2>3, <2>8, <2>9 DEF SinkInv
<1>5. CASE RunStopped \/ UNCHANGED runVars
  <2>1. UNCHANGED vars
    BY <1>5 DEF RunStopped, Stopped, runVars
  <2>2. UNCHANGED <<phase, table, walk, mk, result>>
    BY <2>1 DEF vars
  <2>3. Depth' = Depth /\ Processed' = Processed /\ KeysBehind' = KeysBehind /\ Latest' = Latest
        /\ TableBase(table)' = TableBase(table) /\ InTable' = InTable
        /\ TableDone(table)' = TableDone(table)
    BY <1>1, <2>2 DEF Depth, Final, Processed, KeysBehind, TableBase, TableDone, InTable, Latest
  <2>4. ScopeInv'
    BY <1>1, <2>2, <2>3 DEF SinkInv, ScopeInv
  <2>5. ViewInv'
    BY <1>1, <2>2, <2>3 DEF SinkInv, ViewInv
  <2>6. LatestTrue'
    BY <1>1, <2>2, <2>3 DEF SinkInv, LatestTrue, Over
  <2> QED BY <1>2, <2>4, <2>5, <2>6 DEF SinkInv
<1> QED BY <1>3, <1>4, <1>5

\* Every step keeps what the sink shows true, and only table 1 sets the bar back.
LEMMA SinkStep ==
  ASSUME TypeOK, PhaseInv, SinkInv, refuses \in Manners, [RunStep]_runVars
  PROVE  SinkInv' /\ BarMoves /\ refuses' \in Manners
<1>1. refuses' \in Manners
  BY DEF RunStep, runVars
<1>2. CASE RunNext
  <2>1. CASE RunBeginPlot \/ RunAllocate \/ RunCancelTable \/ RunGenerateXs \/ RunBeginTable
    BY <1>1, <2>1, SinkBeginPlot, SinkAllocate, SinkCancelTable, SinkGenerateXs, SinkBeginTable
  <2>2. CASE RunBeginSection \/ RunCancelSection \/ RunSkipGroup \/ RunHashLeft
    BY <1>1, <2>2, SinkBeginSection, SinkCancelSection, SinkSkipGroup, SinkHashLeft
  <2>3. CASE RunEndGroup \/ RunEndSection \/ RunSort
    BY <1>1, <2>3, SinkEndGroup, SinkEndSection, SinkSort
  <2>4. CASE RunSortThrows \/ RunCopyOut
    BY <1>1, <2>4, SinkLeaves
  <2>5. CASE RunFindPairs \/ RunPlace \/ RunStopped
    BY <1>1, <2>5, SinkUnsent
  <2> QED BY <1>2, <2>1, <2>2, <2>3, <2>4, <2>5 DEF RunNext
<1>3. CASE UNCHANGED runVars
  BY <1>1, <1>3, SinkUnsent
<1> QED BY <1>1, <1>2, <1>3 DEF RunStep

\* A run begins without a scope, and its sink with nothing shown.
LEMMA SinkInit ==
  ASSUME RunInit
  PROVE  SinkInv
<1>1. phase = "plot" /\ table = 0 /\ scopes = <<>> /\ fraction = 0 /\ state = "idle" /\ shown = 0
  BY DEF RunInit, Init
<1>2. ScopeInv
  BY <1>1 DEF ScopeInv, Depth, Final
<1>3. Latest \in Views
  <2>1. 0 \in Tables /\ "idle" \in States
    BY DEF Tables, States
  <2>2. 0 \in 0 .. Full
    BY <2>1, BarNumbers
  <2> QED BY <1>1, <2>1, <2>2 DEF Latest, Views
<1>4. ViewInv /\ LatestTrue
  BY <1>1, <1>3 DEF ViewInv, LatestTrue, Over, InTable
<1> QED BY <1>2, <1>4 DEF SinkInv

-----------------------------------------------------------------------------
(* What a poll of the sink can have loaded.                                *)

\* The views that are not ahead of a run whose bar may be at most, whose table
\* is t, and which is over or not.
Behind(most, t, over) ==
  {v \in Views : v.fraction <= most /\ v.shown <= t /\ (v.state = "finished" => over)}

\* Everything a load can return belongs to a view that is not ahead of the run.
PastInv == Latest \in past /\ past \subseteq Behind(Reached, table, Over)

\* A begin event, or an end event, that keeps to some views.
Begins(F, c) == \A v \in F : Begun(v, c) \in F
Finishes(F, c)  == \A v \in F : Ended(v, c) \in F

\* Leaving scopes whose end events keep to some views.
LEMMA LeavingStays ==
  ASSUME NEW F, NEW s \in F, NEW list, Len(list) \in 0 .. 4, NEW n \in 0 .. Len(list),
         \A i \in n + 1 .. Len(list) : Finishes(F, list[i])
  PROVE  \A m \in n .. Len(list) : Leaving(s, list, m) \in F
<1> DEFINE l == Len(list)
           V(m) == Leaving(s, list, m) \in F
<1>1. V(l)
  BY LeavingFew
<1>2. ASSUME NEW m \in n .. l, m # l, V(m + 1)
      PROVE  V(m)
  <2>1. m + 1 \in n + 1 .. Len(list) /\ m \in 0 .. Len(list)
    BY <1>2
  <2>2. Leaving(s, list, m) = Ended(Leaving(s, list, m + 1), list[m + 1])
    BY <1>2, <2>1, LeavingOne
  <2>3. Finishes(F, list[m + 1])
    BY <2>1
  <2> QED BY <1>2, <2>2, <2>3 DEF Finishes
<1>3. \A m \in n .. l : V(m)
  <2> HIDE DEF V, l
  <2>1. l \in 0 .. 4 /\ n \in 0 .. l
    BY DEF l
  <2>2. \A m \in n .. l : m # l /\ V(m + 1) => V(m)
    BY <1>2
  <2>3. l - 1 \in n .. l => V(l - 1)
    <3>1. (l - 1) + 1 = l
      BY <2>1
    <3> QED BY <1>1, <2>1, <2>2, <3>1
  <2>4. l - 2 \in n .. l => V(l - 2)
    <3>1. (l - 2) + 1 = l - 1
      BY <2>1
    <3> QED BY <2>1, <2>2, <2>3, <3>1
  <2>5. l - 3 \in n .. l => V(l - 3)
    <3>1. (l - 3) + 1 = l - 2
      BY <2>1
    <3> QED BY <2>1, <2>2, <2>4, <3>1
  <2>6. l - 4 \in n .. l => V(l - 4)
    <3>1. (l - 4) + 1 = l - 3
      BY <2>1
    <3> QED BY <2>1, <2>2, <2>5, <3>1
  <2>7. \A m \in n .. l : m \in {l, l - 1, l - 2, l - 3, l - 4}
    BY <2>1
  <2> QED BY <1>1, <2>3, <2>4, <2>5, <2>6, <2>7
<1> QED BY <1>3

\* Entering scopes whose begin events keep to some views.
LEMMA EnteringStays ==
  ASSUME NEW F, NEW s \in F, NEW new \in Seq(Opened), Len(new) \in 0 .. 2,
         \A i \in 1 .. Len(new) : Begins(F, new[i])
  PROVE  \A m \in 0 .. Len(new) : Entering(s, SubSeq(new, 1, m)) \in F
<1>1. /\ Entering(s, <<>>) = s
      /\ \A c : Entering(s, <<c>>) = Begun(s, c)
      /\ \A c, d : Entering(s, <<c, d>>) = Begun(Begun(s, c), d)
  BY EnteringFew, Zenon
<1> SUFFICES ASSUME NEW m \in 0 .. Len(new)
             PROVE  Entering(s, SubSeq(new, 1, m)) \in F
  OBVIOUS
<1>4. CASE m = 0
  <2>1. SubSeq(new, 1, m) = <<>>
    BY <1>4
  <2> QED BY <1>1, <2>1
<1>5. CASE m = 1
  <2> DEFINE sub == SubSeq(new, 1, m)
  <2>1. sub \in Seq(Opened) /\ Len(sub) = 1 /\ sub[1] = new[1]
    BY <1>5
  <2> HIDE DEF sub
  <2>2. sub = <<sub[1]>>
    BY <2>1
  <2>3. Begins(F, new[1])
    BY <1>5
  <2>4. Begun(s, new[1]) \in F
    BY <2>3 DEF Begins
  <2>5. Entering(s, <<new[1]>>) = Begun(s, new[1])
    BY <1>1, Zenon
  <2>6. sub = <<new[1]>>
    BY <2>1, <2>2
  <2> QED BY <2>4, <2>5, <2>6 DEF sub
<1>6. CASE m = 2
  <2> DEFINE sub == SubSeq(new, 1, m)
  <2>1. sub \in Seq(Opened) /\ Len(sub) = 2 /\ sub[1] = new[1] /\ sub[2] = new[2]
    BY <1>6
  <2> HIDE DEF sub
  <2>6. sub = <<new[1], new[2]>>
    <3>1. sub = <<sub[1], sub[2]>>
      BY <2>1
    <3> QED BY <2>1, <3>1
  <2>2. Begins(F, new[1]) /\ Begins(F, new[2])
    BY <1>6
  <2>3. Begun(s, new[1]) \in F
    BY <2>2 DEF Begins
  <2>4. Begun(Begun(s, new[1]), new[2]) \in F
    BY <2>2, <2>3 DEF Begins
  <2>5. Entering(s, <<new[1], new[2]>>) = Begun(Begun(s, new[1]), new[2])
    BY <1>1, Zenon
  <2> QED BY <2>4, <2>5, <2>6 DEF sub
<1> QED BY <1>4, <1>5, <1>6

\* The part of a list that is all of it.
LEMMA WholeList ==
  ASSUME NEW list \in Seq(Opened), Len(list) \in 0 .. 2
  PROVE  SubSeq(list, 1, Len(list)) = list
<1> DEFINE sub == SubSeq(list, 1, Len(list))
<1>1. sub \in Seq(Opened) /\ Len(sub) = Len(list) /\ \A i \in 1 .. Len(list) : sub[i] = list[i]
  OBVIOUS
<1> HIDE DEF sub
<1>2. CASE Len(list) = 0
  BY <1>1, <1>2
<1>3. CASE Len(list) = 1
  <2>1. sub = <<sub[1]>>
    BY <1>1, <1>3
  <2>2. list = <<list[1]>>
    BY <1>3
  <2>3. sub[1] = list[1]
    BY <1>1, <1>3
  <2>4. sub = list
    BY <2>1, <2>2, <2>3, Zenon
  <2> QED BY <2>4 DEF sub
<1>4. CASE Len(list) = 2
  <2>1. sub = <<sub[1], sub[2]>>
    BY <1>1, <1>4
  <2>2. list = <<list[1], list[2]>>
    BY <1>4
  <2>3. sub[1] = list[1] /\ sub[2] = list[2]
    BY <1>1, <1>4
  <2>4. sub = list
    BY <2>1, <2>2, <2>3, Zenon
  <2> QED BY <2>4 DEF sub
<1>5. sub = list
  BY <1>2, <1>3, <1>4 DEF sub
<1> QED BY <1>5 DEF sub

\* The scopes open before a step leaves some again.
OpenAt(k, new, i) == IF i <= k THEN scopes[i] ELSE new[i - k]

\* A step whose events keep to some views stores nothing else.
LEMMA PassedStays ==
  ASSUME NEW F, Latest \in F, scopes \in Seq(Opened), Len(scopes) \in 0 .. 4,
         NEW k \in 0 .. Len(scopes), NEW new \in Seq(Opened), Len(new) \in 0 .. 2,
         k + Len(new) <= 4, NEW n \in 0 .. k + Len(new),
         \A i \in k + 1 .. Len(scopes) : Finishes(F, scopes[i]),
         \A i \in 1 .. Len(new) : Begins(F, new[i]),
         \A i \in n + 1 .. k + Len(new) : Finishes(F, OpenAt(k, new, i))
  PROVE  Passed(k, new, n) \subseteq F
<1> DEFINE left    == Leaving(Latest, scopes, k)
           open    == SubSeq(scopes, 1, k) \o new
           entered == Entering(left, new)
<1>1. \A m \in k .. Len(scopes) : Leaving(Latest, scopes, m) \in F
  BY LeavingStays
<1>2. left \in F
  BY <1>1
<1>3. \A m \in 0 .. Len(new) : Entering(left, SubSeq(new, 1, m)) \in F
  <2> HIDE DEF left
  <2> QED BY <1>2, EnteringStays
<1>4. entered \in F
  <2>1. Entering(left, SubSeq(new, 1, Len(new))) \in F
    BY <1>3
  <2>2. SubSeq(new, 1, Len(new)) = new
    BY WholeList
  <2> QED BY <2>1, <2>2
<1>5. Len(open) = k + Len(new) /\ \A i \in 1 .. k + Len(new) : open[i] = OpenAt(k, new, i)
  <2> DEFINE outer == SubSeq(scopes, 1, k)
  <2>1. outer \in Seq(Opened) /\ Len(outer) = k /\ \A i \in 1 .. k : outer[i] = scopes[i]
    OBVIOUS
  <2>2. open = outer \o new
    OBVIOUS
  <2> HIDE DEF outer, open
  <2>3. Len(open) = k + Len(new)
    BY <2>1, <2>2
  <2>4. ASSUME NEW i \in 1 .. k + Len(new)
        PROVE  open[i] = OpenAt(k, new, i)
    BY <2>1, <2>2 DEF OpenAt
  <2> QED BY <2>3, <2>4
<1>6. \A m \in n .. Len(open) : Leaving(entered, open, m) \in F
  <2> HIDE DEF open, entered
  <2>1. \A i \in n + 1 .. Len(open) : Finishes(F, open[i])
    BY <1>5
  <2>2. Len(open) \in 0 .. 4 /\ n \in 0 .. Len(open)
    BY <1>5
  <2> QED BY <1>4, <2>1, <2>2, LeavingStays
<1>7. Passed(k, new, n) =
        {Leaving(Latest, scopes, m) : m \in k .. Len(scopes)}
          \cup {Entering(left, SubSeq(new, 1, m)) : m \in 0 .. Len(new)}
          \cup {Leaving(entered, open, m) : m \in n .. Len(open)}
  BY DEF Passed
<1> HIDE DEF left, entered, open
<1> QED BY <1>1, <1>3, <1>6, <1>7

\* A begin event that does not set the bar or the table ahead.
LEMMA BeginBehind ==
  ASSUME NEW most \in Nat, NEW t, NEW over \in BOOLEAN, NEW c \in Opened,
         c.kind = "table" => TableBase(c.table) <= most /\ c.table <= t
  PROVE  Begins(Behind(most, t, over), c)
<1> SUFFICES ASSUME NEW v \in Behind(most, t, over)
             PROVE  Begun(v, c) \in Behind(most, t, over)
  BY DEF Begins
<1>1. v \in Views /\ v.fraction <= most /\ v.shown <= t /\ (v.state = "finished" => over)
  BY DEF Behind
<1>2. Begun(v, c) \in Views
  BY <1>1, BegunShows
<1>3. LET b == Begun(v, c) IN b.fraction <= most /\ b.shown <= t /\ (b.state = "finished" => over)
  <2> DEFINE b == Begun(v, c)
  <2>1. c.kind \in Kinds
    BY DEF Opened
  <2>2. /\ c.kind = "plot" => b = [fraction |-> 0, state |-> "plotting", shown |-> v.shown]
        /\ c.kind = "alloc" => b = [fraction |-> v.fraction, state |-> "allocating", shown |-> v.shown]
        /\ c.kind = "table" =>
             b = [fraction |-> TableBase(c.table), state |-> "matching", shown |-> c.table]
        /\ c.kind = "sort" => b = [fraction |-> v.fraction, state |-> "postsort", shown |-> v.shown]
        /\ c.kind \in {"section", "key"} => b = v
    BY <1>1, BegunShows
  <2> HIDE DEF b
  <2>3. b.fraction <= most /\ b.shown <= t /\ (b.state = "finished" => over)
    BY <1>1, <2>1, <2>2 DEF Kinds
  <2> QED BY <2>3 DEF b
<1> QED BY <1>2, <1>3 DEF Behind

\* An end event that counts no more than there is.
LEMMA EndBehind ==
  ASSUME NEW most \in Nat, NEW t, NEW over \in BOOLEAN, NEW c \in Opened,
         \/ c.quiet \/ c.kind \in {"alloc", "section"}
         \/ c.kind = "plot" /\ over /\ Full <= most
         \/ c.kind = "table" /\ TableDone(c.table) <= most /\ c.table <= t
         \/ c.kind = "sort" /\ TableDone(c.table) <= most
         \/ c.kind = "key" /\ TableBase(c.table) + c.key + 1 <= most
  PROVE  Finishes(Behind(most, t, over), c)
<1> SUFFICES ASSUME NEW v \in Behind(most, t, over)
             PROVE  Ended(v, c) \in Behind(most, t, over)
  BY DEF Finishes
<1>1. v \in Views /\ v.fraction <= most /\ v.shown <= t /\ (v.state = "finished" => over)
  BY DEF Behind
<1>2. Ended(v, c) \in Views
  BY <1>1, EndedShows
<1>3. LET e == Ended(v, c) IN e.fraction <= most /\ e.shown <= t /\ (e.state = "finished" => over)
  <2> DEFINE e == Ended(v, c)
  <2>1. c.quiet \in BOOLEAN
    BY DEF Opened
  <2>2. /\ c.quiet \/ c.kind \in {"section", "alloc"} => e = v
        /\ c.kind = "plot" /\ ~c.quiet =>
             e = [fraction |-> Full, state |-> "finished", shown |-> v.shown]
        /\ c.kind = "table" /\ ~c.quiet =>
             e = [fraction |-> TableDone(c.table), state |-> "plotting", shown |-> c.table]
        /\ c.kind = "sort" /\ ~c.quiet =>
             e = [fraction |-> TableDone(c.table), state |-> "plotting", shown |-> v.shown]
        /\ c.kind = "key" /\ ~c.quiet =>
             e = [fraction |-> TableBase(c.table) + c.key + 1, state |-> v.state, shown |-> v.shown]
    BY <1>1, EndedShows
  <2> HIDE DEF e
  <2>3. e.fraction <= most /\ e.shown <= t /\ (e.state = "finished" => over)
    BY <1>1, <2>1, <2>2
  <2> QED BY <2>3 DEF e
<1> QED BY <1>2, <1>3 DEF Behind

\* The begin and the end event of a scope that do not run ahead.
CanBegin(c, most, t) == c.kind = "table" => TableBase(c.table) <= most /\ c.table <= t
CanEnd(c, most, t, over) ==
  \/ c.quiet \/ c.kind \in {"alloc", "section"}
  \/ c.kind = "plot" /\ over /\ Full <= most
  \/ c.kind = "table" /\ TableDone(c.table) <= most /\ c.table <= t
  \/ c.kind = "sort" /\ TableDone(c.table) <= most
  \/ c.kind = "key" /\ TableBase(c.table) + c.key + 1 <= most

\* A step does not take back what the run has done.
Onward ==
  /\ Reached \in Nat /\ Reached' \in Nat /\ Reached <= Reached'
  /\ table \in Tables /\ table' \in Tables /\ table <= table'
  /\ Over => Over'

\* What was behind the run before a step is behind it after the step.
LEMMA StillBehind ==
  ASSUME Onward
  PROVE  Behind(Reached, table, Over) \subseteq Behind(Reached', table', Over')
<1> PICK most : most = Reached'
  OBVIOUS
<1> PICK t : t = table'
  OBVIOUS
<1> PICK over : over = Over'
  OBVIOUS
<1> SUFFICES ASSUME NEW v \in Behind(Reached, table, Over)
             PROVE  v \in Behind(most, t, over)
  OBVIOUS
<1>1. v \in Views /\ v.fraction <= Reached /\ v.shown <= table /\ (v.state = "finished" => Over)
  BY DEF Behind
<1>2. v.fraction \in Int /\ v.shown \in Int
  BY <1>1, BarNumbers DEF Views, Tables
<1>3. v.fraction <= most /\ v.shown <= t /\ (v.state = "finished" => over)
  BY <1>1, <1>2 DEF Onward, Tables
<1> QED BY <1>1, <1>3 DEF Behind

\* A step that neither sends an event nor takes anything back.
LEMMA PastUnsent ==
  ASSUME PastInv, Onward, UNCHANGED sink
  PROVE  PastInv'
<1>1. Latest' = Latest /\ past' = past
  BY DEF sink, Latest
<1>2. Behind(Reached, table, Over)' = Behind(Reached', table', Over')
  BY DEF Behind
<1> QED BY <1>1, <1>2, StillBehind DEF PastInv

\* A step whose events do not run ahead of what is done after it.
LEMMA PastScoped ==
  ASSUME SinkInv, PastInv, Onward, NEW k \in 0 .. Len(scopes), NEW new \in Seq(Opened),
         Len(new) \in 0 .. 2, k + Len(new) <= 4, NEW n \in 0 .. k + Len(new), Scoped(k, new, n),
         \A i \in k + 1 .. Len(scopes) : CanEnd(scopes[i], Reached', table', Over'),
         \A i \in 1 .. Len(new) : CanBegin(new[i], Reached', table'),
         \A i \in n + 1 .. k + Len(new) : CanEnd(OpenAt(k, new, i), Reached', table', Over')
  PROVE  PastInv'
<1> PICK most : most = Reached'
  OBVIOUS
<1> PICK t : t = table'
  OBVIOUS
<1> PICK over : over = Over'
  OBVIOUS
<1> DEFINE F == Behind(most, t, over)
<1>1. /\ scopes \in Seq(Opened) /\ Len(scopes) \in 0 .. 4 /\ Latest \in Views
      /\ most \in Nat /\ over \in BOOLEAN
  BY DepthIsNumber DEF SinkInv, ScopeInv, ViewInv, Onward, Over
<1>2. ASSUME NEW i \in k + 1 .. Len(scopes)
      PROVE  Finishes(F, scopes[i])
  <2>1. i \in 1 .. Len(scopes)
    OBVIOUS
  <2>2. scopes[i] \in Opened
    BY <1>1, <2>1, OpenScope
  <2>3. CanEnd(scopes[i], most, t, over)
    OBVIOUS
  <2> QED BY <1>1, <2>2, <2>3, EndBehind DEF CanEnd
<1>3. ASSUME NEW i \in 1 .. Len(new)
      PROVE  Begins(F, new[i])
  <2>1. new[i] \in Opened /\ CanBegin(new[i], most, t)
    OBVIOUS
  <2> QED BY <1>1, <2>1, BeginBehind DEF CanBegin
<1>4. ASSUME NEW i \in n + 1 .. k + Len(new)
      PROVE  Finishes(F, OpenAt(k, new, i))
  <2>1. OpenAt(k, new, i) \in Opened
    <3>1. CASE i <= k
      <4>1. i \in 1 .. Len(scopes)
        BY <3>1
      <4> QED BY <1>1, <3>1, <4>1, OpenScope DEF OpenAt
    <3>2. CASE ~(i <= k)
      <4>1. i - k \in 1 .. Len(new)
        BY <3>2
      <4> QED BY <3>2, <4>1, OpenScope DEF OpenAt
    <3> QED BY <3>1, <3>2
  <2>2. CanEnd(OpenAt(k, new, i), most, t, over)
    OBVIOUS
  <2> QED BY <1>1, <2>1, <2>2, EndBehind DEF CanEnd
<1>5. past \subseteq F /\ Latest \in F
  BY StillBehind DEF PastInv
<1> HIDE DEF F
<1>6. Passed(k, new, n) \subseteq F
  BY <1>1, <1>2, <1>3, <1>4, <1>5, PassedStays
<1>7. past' = past \cup Passed(k, new, n)
  BY DEF Scoped
<1>8. Effect(k, new, n)
  BY <1>1, ScopedStep
<1>9. Latest' = Sent(k, new, n) /\ Len(OpenIn(k, new)) = k + Len(new)
  BY <1>8 DEF Effect
<1>10. Sent(k, new, n) \in Passed(k, new, n)
  <2> DEFINE left    == Leaving(Latest, scopes, k)
             entered == Entering(left, new)
             open    == OpenIn(k, new)
             at(m)   == Leaving(entered, open, m)
  <2>1. {at(m) : m \in n .. Len(open)} \subseteq Passed(k, new, n)
    BY DEF Passed, OpenIn
  <2>2. Sent(k, new, n) = at(n)
    BY DEF Sent
  <2>3. n \in n .. Len(open)
    BY <1>9
  <2> HIDE DEF at, open
  <2> QED BY <2>1, <2>2, <2>3
<1>11. Behind(Reached, table, Over)' = F
  BY DEF Behind, F
<1> QED BY <1>5, <1>6, <1>7, <1>9, <1>10, <1>11 DEF PastInv

\* The same for a step that enters one scope, and may leave it.
LEMMA PastOne ==
  ASSUME SinkInv, PastInv, Onward, NEW k \in 0 .. Len(scopes), k <= 3, NEW c \in Opened,
         NEW n \in 0 .. k + 1, Scoped(k, <<c>>, n),
         \A i \in k + 1 .. Len(scopes) : CanEnd(scopes[i], Reached', table', Over'),
         CanBegin(c, Reached', table'),
         \A i \in n + 1 .. k : CanEnd(scopes[i], Reached', table', Over'),
         n <= k => CanEnd(c, Reached', table', Over')
  PROVE  PastInv'
<1> DEFINE new == <<c>>
<1>1. new \in Seq(Opened) /\ Len(new) = 1 /\ new[1] = c /\ Scoped(k, new, n)
  OBVIOUS
<1> HIDE DEF new
<1>2. Len(new) \in 0 .. 2 /\ k + Len(new) <= 4 /\ n \in 0 .. k + Len(new)
  BY <1>1
<1>3. \A i \in 1 .. Len(new) : CanBegin(new[i], Reached', table')
  BY <1>1
<1>4. ASSUME NEW i \in n + 1 .. k + Len(new)
      PROVE  CanEnd(OpenAt(k, new, i), Reached', table', Over')
  <2>1. CASE i <= k
    <3>1. i \in n + 1 .. k /\ OpenAt(k, new, i) = scopes[i]
      BY <2>1 DEF OpenAt
    <3> QED BY <3>1
  <2>2. CASE ~(i <= k)
    <3>1. i = k + 1 /\ n <= k
      BY <1>1, <2>2
    <3>2. OpenAt(k, new, i) = c
      BY <1>1, <2>2, <3>1 DEF OpenAt
    <3> QED BY <3>1, <3>2
  <2> QED BY <2>1, <2>2
<1> QED BY <1>1, <1>2, <1>3, <1>4, PastScoped

\* The same for a step that only leaves scopes.
LEMMA PastLeft ==
  ASSUME SinkInv, PastInv, Onward, NEW k \in 0 .. Len(scopes), Scoped(k, <<>>, k),
         \A i \in k + 1 .. Len(scopes) : CanEnd(scopes[i], Reached', table', Over')
  PROVE  PastInv'
<1> DEFINE new == <<>>
<1>1. new \in Seq(Opened) /\ Len(new) = 0 /\ Scoped(k, new, k)
  OBVIOUS
<1> HIDE DEF new
<1>2. Len(scopes) \in 0 .. 4
  BY DepthIsNumber DEF SinkInv, ScopeInv
<1>3. Len(new) \in 0 .. 2 /\ k + Len(new) <= 4 /\ k \in 0 .. k + Len(new)
  <2> DEFINE l == Len(new)
             d == Len(scopes)
  <2>1. l = 0 /\ d \in 0 .. 4 /\ k \in 0 .. d
    BY <1>1, <1>2
  <2> HIDE DEF l, d
  <2>2. l \in 0 .. 2 /\ k + l <= 4 /\ k \in 0 .. k + l
    BY <2>1
  <2> QED BY <2>2 DEF l
<1>4. \A i \in 1 .. Len(new) : CanBegin(new[i], Reached', table')
  BY <1>1
<1>5. \A i \in k + 1 .. k + Len(new) : CanEnd(OpenAt(k, new, i), Reached', table', Over')
  <2>1. k + Len(new) < k + 1
    BY <1>1, <1>2
  <2>2. \A i \in k + 1 .. k + Len(new) : FALSE
    BY <2>1, <1>1, <1>2
  <2> QED BY <2>2
<1> QED BY <1>1, <1>3, <1>4, <1>5, PastScoped

\* Where a run stands.
LEMMA ReachedNow ==
  ASSUME TypeOK, PhaseInv
  PROVE  /\ table \in Tables /\ Reached \in Nat /\ Reached <= Full /\ Full \in Nat
         /\ ~Over => Reached <= TableDone(table)
         /\ TableBase(table) \in Nat /\ TableDone(table) \in Nat /\ TableShare \in Nat
         /\ TableDone(table) = TableBase(table) + TableShare /\ TableDone(table) <= Full
         /\ InTable => /\ KeysBehind \in Nat /\ KeysBehind <= TableShare
                       /\ Reached = IF table > 1 THEN TableBase(table) + KeysBehind
                                                 ELSE TableDone(table)
<1>1. table \in Tables
  BY DEF TypeOK
<1>2. /\ TableShare \in Nat /\ Full \in Nat /\ TableBase(table) \in Nat /\ TableDone(table) \in Nat
      /\ TableDone(table) = TableBase(table) + TableShare /\ TableDone(table) <= Full
  BY <1>1, BarNumbers
<1>3. ASSUME InTable
      PROVE  KeysBehind \in Nat /\ KeysBehind <= TableShare
  <2>1. walk \in 0 .. 3 /\ mk \in 0 .. MatchKeys
    BY <1>3 DEF PhaseInv, TypeOK
  <2>2. /\ Processed \in Nat /\ walk * MatchKeys \in Nat /\ Processed = walk * MatchKeys + mk
        /\ Processed <= TableShare /\ mk \in Nat
    BY <2>1, CountOfKeys DEF TypeOK
  <2>3. walk * MatchKeys <= TableShare
    <3> DEFINE w == walk * MatchKeys
    <3> HIDE DEF w
    <3>1. w \in Nat /\ Processed = w + mk /\ Processed <= TableShare /\ mk \in Nat
      BY <2>2 DEF w
    <3>2. w <= TableShare
      BY <1>2, <3>1
    <3> QED BY <3>2 DEF w
  <2> QED BY <2>2, <2>3 DEF KeysBehind
<1>4. InTable => ~Over
  BY DEF InTable, Over
<1>5. InTable => Reached = IF table > 1 THEN TableBase(table) + KeysBehind ELSE TableDone(table)
  BY <1>4 DEF Reached
<1>6. Over => Reached = Full
  BY DEF Reached
<1>7. ~Over /\ ~InTable => Reached \in {TableBase(table), TableDone(table)}
  BY DEF Reached
<1>8. Reached \in Nat /\ Reached <= Full /\ (~Over => Reached <= TableDone(table))
  BY <1>2, <1>3, <1>5, <1>6, <1>7
<1> QED BY <1>1, <1>2, <1>3, <1>5, <1>8

\* Steps that stay with a table move on to another phase of it.
LEMMA OnwardTo ==
  ASSUME TypeOK, PhaseInv, table' = table, ~Over,
         \/ phase' \in {"plotted", "thrown"} /\ Reached' = Full
         \/ phase' \notin {"plotted", "thrown"} /\ Reached' = TableDone(table)
  PROVE  Onward
<1>1. /\ table \in Tables /\ Reached \in Nat /\ Reached <= Full /\ Full \in Nat
      /\ Reached <= TableDone(table) /\ TableDone(table) \in Nat
  BY ReachedNow
<1>2. table <= table' /\ table' \in Tables
  BY <1>1 DEF Tables
<1> QED BY <1>1, <1>2 DEF Onward

\* What a step has reached that leaves the pairs of a table alone.
LEMMA ReachedThen ==
  ASSUME table' = table
  PROVE  /\ phase' \in {"plotted", "thrown"} => Over' /\ Reached' = Full
         /\ phase' \notin {"plotted", "thrown"} => ~Over'
         /\ phase' \in {"sort", "sorted"} => Reached' = TableDone(table)
         /\ phase' \in {"alloc", "empty", "table"} /\ ~(table > 1) => Reached' = TableDone(table)
         /\ phase' \in {"section", "group", "find", "join"} =>
              Reached' = IF table > 1 THEN TableBase(table) + KeysBehind' ELSE TableDone(table)
<1>1. TableDone(table)' = TableDone(table) /\ TableBase(table)' = TableBase(table) /\ Full' = Full
  BY DEF TableDone, TableBase
<1> QED BY <1>1 DEF Reached, Over, InTable

\* A step that ends the run may leave whatever scope is open.
LEMMA AllEnd ==
  ASSUME TypeOK, SinkInv, Reached' = Full, Over', table' = table, NEW i \in 1 .. Len(scopes)
  PROVE  CanEnd(scopes[i], Reached', table', Over')
<1> DEFINE c == scopes[i]
<1>1. scopes \in Seq(Opened) /\ Len(scopes) = Depth /\ Depth \in 0 .. 4 /\ table \in Tables
  BY DepthIsNumber DEF SinkInv, ScopeInv, TypeOK
<1>2. c \in Opened
  BY <1>1, OpenScope
<1>3. c.kind \in Kinds /\ c.table \in Tables /\ c.key \in Nat /\ (c.kind = "key" => c.key < TableShare)
  BY <1>2 DEF Opened
<1>4. /\ TableShare \in Nat /\ Full \in Nat /\ TableBase(c.table) \in Nat /\ TableDone(c.table) \in Nat
      /\ TableDone(c.table) = TableBase(c.table) + TableShare /\ TableDone(c.table) <= Full
  BY <1>3, BarNumbers
<1>5. c.kind = "table" => c.table = table
  <2>1. i \in {1, 2, 3, 4} /\ i <= Depth
    BY <1>1
  <2> QED BY <2>1 DEF SinkInv, ScopeInv, Held
<1>6. c.kind = "table" => c.table <= table'
  BY <1>1, <1>3, <1>5 DEF Tables
<1>7. c.kind = "key" => TableBase(c.table) + c.key + 1 <= Full
  <2> DEFINE b == TableBase(c.table)
             d == TableDone(c.table)
             y == c.key
  <2>1. /\ b \in Nat /\ d \in Nat /\ y \in Nat /\ TableShare \in Nat /\ Full \in Nat
        /\ d = b + TableShare /\ d <= Full /\ (c.kind = "key" => y < TableShare)
    BY <1>3, <1>4
  <2> HIDE DEF b, d, y
  <2>2. c.kind = "key" => b + y + 1 <= Full
    BY <2>1
  <2> QED BY <2>2 DEF b, y
<1> HIDE DEF c
<1>8. CanEnd(c, Full, table', TRUE)
  BY <1>3, <1>4, <1>6, <1>7 DEF CanEnd, Kinds
<1>9. Over' = TRUE
  BY DEF Over
<1> QED BY <1>8, <1>9 DEF c

\* PlotBegin: the bar is empty.
LEMMA PastBeginPlot ==
  ASSUME TypeOK, PhaseInv, SinkInv, PastInv, RunBeginPlot
  PROVE  PastInv'
<1>1. /\ phase = "plot" /\ phase' \in {"alloc", "empty"} /\ table' = table /\ table = 0
      /\ IF phase' = "empty" THEN Scoped(0, <<Scope("plot", TRUE)>>, 0)
                             ELSE Enter(<<Scope("plot", FALSE)>>)
  BY DEF RunBeginPlot, BeginPlot, PhaseInv
<1>2. Reached' = TableDone(table)
  BY <1>1, ReachedThen
<1>3. Onward
  BY <1>1, <1>2, OnwardTo DEF Over
<1>4. Len(scopes) = 0
  BY <1>1 DEF SinkInv, ScopeInv, Depth
<1>5. CASE phase' = "empty"
  <2> DEFINE c == Scope("plot", TRUE)
  <2>1. c \in Opened /\ c.kind = "plot" /\ c.quiet
    BY ScopeIsOpened DEF Kinds
  <2>2. Scoped(0, <<c>>, 0)
    BY <1>1, <1>5
  <2> HIDE DEF c
  <2>3. CanBegin(c, Reached', table') /\ CanEnd(c, Reached', table', Over')
    BY <2>1 DEF CanBegin, CanEnd
  <2> QED BY <1>3, <1>4, <2>1, <2>2, <2>3, PastOne
<1>6. CASE phase' # "empty"
  <2> DEFINE c == Scope("plot", FALSE)
  <2>1. c \in Opened /\ c.kind = "plot"
    BY ScopeIsOpened DEF Kinds
  <2>2. Scoped(0, <<c>>, 1)
    <3>1. Len(<<c>>) = 1
      OBVIOUS
    <3> QED BY <1>1, <1>4, <1>6, <3>1 DEF Enter
  <2> HIDE DEF c
  <2>3. CanBegin(c, Reached', table')
    BY <2>1 DEF CanBegin
  <2> QED BY <1>3, <1>4, <2>1, <2>2, <2>3, PastOne
<1> QED BY <1>5, <1>6

\* AllocationBegin and AllocationEnd: no field of what is done.
LEMMA PastAllocate ==
  ASSUME TypeOK, PhaseInv, SinkInv, PastInv, RunAllocate
  PROVE  PastInv'
<1>1. /\ phase = "alloc" /\ phase' = "table" /\ table' = table /\ table = 0
      /\ Scoped(1, <<Scope("alloc", pairs' = 0)>>, 1)
  BY DEF RunAllocate, Allocate, PhaseInv
<1>2. Reached' = TableDone(table)
  BY <1>1, ReachedThen
<1>3. Onward
  BY <1>1, <1>2, OnwardTo DEF Over
<1>4. Len(scopes) = 1
  BY <1>1 DEF SinkInv, ScopeInv, Depth, Final
<1> DEFINE c == Scope("alloc", pairs' = 0)
<1>5. c \in Opened /\ c.kind = "alloc"
  BY ScopeIsOpened DEF Kinds
<1>6. Scoped(1, <<c>>, 1)
  BY <1>1
<1> HIDE DEF c
<1>7. CanBegin(c, Reached', table') /\ CanEnd(c, Reached', table', Over')
  BY <1>5 DEF CanBegin, CanEnd
<1> QED BY <1>3, <1>4, <1>5, <1>6, <1>7, PastOne

\* The scope of a table that begins.
LEMMA TableScope ==
  ASSUME TypeOK, PhaseInv, NEW r \in BOOLEAN, TableBase(table) <= Reached', table' = table
  PROVE  /\ Scope("table", r) \in Opened /\ (r => Scope("table", r).quiet)
         /\ CanBegin(Scope("table", r), Reached', table')
<1> DEFINE c == Scope("table", r)
<1>1. c \in Opened /\ c.kind = "table" /\ c.table = table /\ c.quiet = r
  BY ScopeIsOpened DEF Kinds
<1> HIDE DEF c
<1>2. table \in Tables /\ table <= table'
  BY ReachedNow DEF Tables
<1>3. CanBegin(c, Reached', table')
  BY <1>1, <1>2 DEF CanBegin
<1> QED BY <1>1, <1>3 DEF c

\* TableBegin, refused.
LEMMA PastCancelTable ==
  ASSUME TypeOK, PhaseInv, SinkInv, PastInv, RunCancelTable
  PROVE  PastInv'
<1>1. /\ phase = "table" /\ phase' = "sorted" /\ table' = table
      /\ Scoped(1, <<Scope("table", TRUE)>>, 1)
  BY DEF RunCancelTable, CancelTable
<1>2. Reached' = TableDone(table)
  BY <1>1, ReachedThen
<1>3. Onward
  BY <1>1, <1>2, OnwardTo DEF Over
<1>4. Len(scopes) = 1
  BY <1>1 DEF SinkInv, ScopeInv, Depth, Final
<1> DEFINE c == Scope("table", TRUE)
<1>5. c \in Opened /\ c.quiet /\ CanBegin(c, Reached', table')
  <2>1. TableBase(table) <= Reached'
    BY <1>2, ReachedNow
  <2> QED BY <1>1, <2>1, TableScope
<1>6. Scoped(1, <<c>>, 1)
  BY <1>1
<1> HIDE DEF c
<1>7. CanEnd(c, Reached', table', Over')
  BY <1>5 DEF CanEnd
<1> QED BY <1>3, <1>4, <1>5, <1>6, <1>7, PastOne

\* The x values: the whole share of a table may show already.
LEMMA PastGenerateXs ==
  ASSUME TypeOK, PhaseInv, SinkInv, PastInv, refuses \in Manners, RunGenerateXs
  PROVE  PastInv'
<1>1. /\ phase = "table" /\ phase' \in {"thrown", "sort"} /\ table' = table
      /\ IF phase' = "thrown" THEN Scoped(1, <<Scope("table", FALSE)>>, 0)
                              ELSE Enter(<<Scope("table", FALSE), SortScope>>)
  BY DEF RunGenerateXs, GenerateXs
<1>2. Len(scopes) = 1 /\ scopes \in Seq(Opened)
  BY <1>1 DEF SinkInv, ScopeInv, Depth, Final
<1> DEFINE c == Scope("table", FALSE)
           d == SortScope
<1>3. CASE phase' = "thrown"
  <2>1. Reached' = Full /\ Over'
    BY <1>1, <1>3, ReachedThen
  <2>2. Onward
    BY <1>1, <1>3, <2>1, OnwardTo DEF Over
  <2>3. c \in Opened /\ c.kind = "table" /\ c.table = table /\ CanBegin(c, Reached', table')
    <3>1. TableBase(table) <= Reached'
      BY <2>1, ReachedNow
    <3> QED BY <1>1, <3>1, TableScope, ScopeIsOpened DEF Kinds
  <2>4. Scoped(1, <<c>>, 0)
    BY <1>1, <1>3
  <2> HIDE DEF c
  <2>5. CanEnd(c, Reached', table', Over')
    <3>1. TableDone(table) <= Reached' /\ table <= table'
      BY <1>1, <2>1, ReachedNow DEF Tables
    <3> QED BY <2>3, <3>1 DEF CanEnd
  <2>6. CanEnd(scopes[1], Reached', table', Over')
    <3>1. 1 \in 1 .. Len(scopes)
      BY <1>2
    <3> QED BY <1>1, <2>1, <3>1, AllEnd
  <2> QED BY <1>2, <2>2, <2>3, <2>4, <2>5, <2>6, PastOne
<1>4. CASE phase' = "sort"
  <2>1. Reached' = TableDone(table)
    BY <1>1, <1>4, ReachedThen
  <2>2. Onward
    BY <1>1, <1>4, <2>1, OnwardTo DEF Over
  <2>3. c \in Opened /\ CanBegin(c, Reached', table')
    <3>1. TableBase(table) <= Reached'
      BY <2>1, ReachedNow
    <3> QED BY <1>1, <3>1, TableScope
  <2>4. d \in Opened /\ d.kind = "sort"
    <3>1. refuses.sorts \in BOOLEAN
      BY RunAssumption, Zenon
    <3> QED BY <3>1, ScopeIsOpened DEF Kinds, SortScope
  <2>5. CanBegin(d, Reached', table')
    BY <2>4 DEF CanBegin
  <2> DEFINE new == <<c, d>>
  <2>6. Enter(new)
    BY <1>1, <1>4
  <2> HIDE DEF c, d
  <2>7. new \in Seq(Opened) /\ Len(new) = 2 /\ new[1] = c /\ new[2] = d
    BY <2>3, <2>4
  <2> HIDE DEF new
  <2>8. Scoped(1, new, 3)
    BY <1>2, <2>6, <2>7 DEF Enter
  <2>9. 1 \in 0 .. Len(scopes) /\ Len(new) \in 0 .. 2 /\ 1 + Len(new) <= 4 /\ 3 \in 0 .. 1 + Len(new)
    BY <1>2, <2>7
  <2>10. \A i \in 1 .. Len(new) : CanBegin(new[i], Reached', table')
    BY <2>3, <2>5, <2>7
  <2>12. \A i \in 1 + 1 .. Len(scopes) : CanEnd(scopes[i], Reached', table', Over')
    BY <1>2
  <2>13. \A i \in 3 + 1 .. 1 + Len(new) : CanEnd(OpenAt(1, new, i), Reached', table', Over')
    BY <2>7
  <2> QED BY <2>2, <2>7, <2>8, <2>9, <2>10, <2>12, <2>13, PastScoped
<1> QED BY <1>1, <1>3, <1>4

\* TableBegin of a table.
LEMMA PastBeginTable ==
  ASSUME TypeOK, PhaseInv, SinkInv, PastInv, RunBeginTable
  PROVE  PastInv'
<1>1. /\ phase = "table" /\ phase' \in {"thrown", "section"} /\ table' = table /\ walk' = 0
      /\ EnterOrThrow(<<Scope("table", FALSE)>>)
  BY DEF RunBeginTable, BeginTable
<1>2. Len(scopes) = 1 /\ ~Over
  BY <1>1 DEF SinkInv, ScopeInv, Depth, Final, Over
<1>n. /\ table \in Tables /\ Reached \in Nat /\ Reached <= Full /\ Full \in Nat
      /\ TableBase(table) \in Nat /\ TableDone(table) \in Nat
      /\ TableBase(table) <= TableDone(table) /\ TableDone(table) <= Full
  BY ReachedNow
<1> DEFINE c == Scope("table", FALSE)
<1>3. CASE phase' = "thrown"
  <2>1. Reached' = Full /\ Over'
    BY <1>1, <1>3, ReachedThen
  <2>2. Onward
    BY <1>1, <1>2, <1>3, <2>1, OnwardTo
  <2>3. c \in Opened /\ c.kind = "table" /\ c.table = table /\ CanBegin(c, Reached', table')
    <3>1. TableBase(table) <= Reached'
      BY <1>n, <2>1
    <3> QED BY <1>1, <3>1, TableScope, ScopeIsOpened DEF Kinds
  <2>4. Scoped(1, <<c>>, 0)
    BY <1>1, <1>2, <1>3 DEF EnterOrThrow
  <2> HIDE DEF c
  <2>5. CanEnd(c, Reached', table', Over')
    <3>1. TableDone(table) <= Reached' /\ table <= table'
      BY <1>1, <1>n, <2>1 DEF Tables
    <3> QED BY <2>3, <3>1 DEF CanEnd
  <2>6. CanEnd(scopes[1], Reached', table', Over')
    <3>1. 1 \in 1 .. Len(scopes)
      BY <1>2
    <3> QED BY <1>1, <2>1, <3>1, AllEnd
  <2> QED BY <1>2, <2>2, <2>3, <2>4, <2>5, <2>6, PastOne
<1>4. CASE phase' = "section"
  <2>1. KeysBehind' = 0
    BY <1>1, <1>4, ConstantTypes DEF KeysBehind
  <2>2. Reached' = IF table > 1 THEN TableBase(table) ELSE TableDone(table)
    BY <1>1, <1>4, <1>n, <2>1, ReachedThen
  <2>3. Reached = IF table > 1 THEN TableBase(table) ELSE TableDone(table)
    BY <1>1, <1>2 DEF Reached, InTable
  <2>4. Onward
    <3>1. table <= table' /\ table' \in Tables
      BY <1>1, <1>n DEF Tables
    <3> QED BY <1>2, <1>n, <2>2, <2>3, <3>1 DEF Onward
  <2>5. c \in Opened /\ CanBegin(c, Reached', table')
    <3>1. TableBase(table) <= Reached'
      BY <1>n, <2>2
    <3> QED BY <1>1, <3>1, TableScope
  <2>6. Scoped(1, <<c>>, 2)
    <3>1. Len(<<c>>) = 1
      OBVIOUS
    <3> QED BY <1>1, <1>2, <1>4, <3>1 DEF EnterOrThrow
  <2> HIDE DEF c
  <2> QED BY <1>2, <2>4, <2>5, <2>6, PastOne
<1> QED BY <1>1, <1>3, <1>4

\* Steps within a table, which count no match key or one more.
LEMMA OnwardIn ==
  ASSUME TypeOK, PhaseInv, InTable, InTable', table' = table,
         KeysBehind' \in Nat, KeysBehind <= KeysBehind'
  PROVE  Onward /\ Reached' = IF table > 1 THEN TableBase(table) + KeysBehind' ELSE TableDone(table)
<1>1. /\ table \in Tables /\ Reached \in Nat /\ TableBase(table) \in Nat /\ TableDone(table) \in Nat
      /\ KeysBehind \in Nat
      /\ Reached = IF table > 1 THEN TableBase(table) + KeysBehind ELSE TableDone(table)
  BY ReachedNow
<1>2. phase' \in {"section", "group", "find", "join"} /\ ~Over
  BY DEF InTable, Over
<1>3. Reached' = IF table > 1 THEN TableBase(table) + KeysBehind' ELSE TableDone(table)
  BY <1>2, ReachedThen
<1>4. PICK n : n = KeysBehind'
  OBVIOUS
<1>5. table <= table' /\ table' \in Tables
  BY <1>1 DEF Tables
<1>6. Reached' \in Nat /\ Reached <= Reached'
  BY <1>1, <1>3, <1>4, <1>5
<1> QED BY <1>1, <1>2, <1>3, <1>5, <1>6 DEF Onward

\* SectionBegin.
LEMMA PastBeginSection ==
  ASSUME TypeOK, PhaseInv, SinkInv, PastInv, RunBeginSection
  PROVE  PastInv'
<1>1. /\ phase = "section" /\ phase' = "group" /\ table' = table /\ walk' = walk /\ mk' = 0
      /\ Enter(<<Scope("section", FALSE)>>)
  BY DEF RunBeginSection, BeginSection
<1>2. InTable /\ InTable' /\ Len(scopes) = 2 /\ walk \in 0 .. 3
  BY <1>1 DEF InTable, SinkInv, ScopeInv, Depth, Final, PhaseInv
<1>3. KeysBehind' \in Nat /\ KeysBehind <= KeysBehind'
  <2>1. MatchKeys \in Nat
    BY ConstantTypes, Zenon
  <2>2. KeysBehind = walk * MatchKeys /\ KeysBehind' = walk * MatchKeys + 0
    BY <1>1 DEF KeysBehind, Processed
  <2>3. walk * MatchKeys \in Nat
    BY <1>2, <2>1
  <2> QED BY <2>2, <2>3
<1>4. Onward
  BY <1>1, <1>2, <1>3, OnwardIn
<1> DEFINE c == Scope("section", FALSE)
<1>5. c \in Opened /\ c.kind = "section"
  BY ScopeIsOpened DEF Kinds
<1>6. Scoped(2, <<c>>, 3)
  <2>1. Len(<<c>>) = 1
    OBVIOUS
  <2> QED BY <1>1, <1>2, <2>1 DEF Enter
<1> HIDE DEF c
<1>7. CanBegin(c, Reached', table')
  BY <1>5 DEF CanBegin
<1> QED BY <1>2, <1>4, <1>5, <1>6, <1>7, PastOne

\* The end of a table that is given up or done shows its whole share.
LEMMA TableCanEnd ==
  ASSUME TypeOK, PhaseInv, SinkInv, Reached' = TableDone(table), table' = table,
         Depth > 1
  PROVE  CanEnd(scopes[2], Reached', table', Over')
<1>1. scopes[2].kind = "table" /\ scopes[2].table = table
  BY DEF SinkInv, ScopeInv, Held
<1>2. table <= table' /\ TableDone(table) <= Reached'
  <2>1. table \in {0, 1, 2, 3} /\ TableDone(table) \in Nat
    BY ReachedNow DEF Tables
  <2> QED BY <2>1
<1> QED BY <1>1, <1>2 DEF CanEnd

\* SectionBegin, refused: the table's scope is left.
LEMMA PastCancelSection ==
  ASSUME TypeOK, PhaseInv, SinkInv, PastInv, RunCancelSection
  PROVE  PastInv'
<1>1. /\ phase = "section" /\ phase' = "sorted" /\ table' = table
      /\ Scoped(2, <<Scope("section", TRUE)>>, 1)
  BY DEF RunCancelSection, CancelSection
<1>2. Reached' = TableDone(table)
  BY <1>1, ReachedThen
<1>3. Onward
  BY <1>1, <1>2, OnwardTo DEF Over
<1>4. Len(scopes) = 2 /\ Depth = 2
  BY <1>1 DEF SinkInv, ScopeInv, Depth, Final
<1> DEFINE c == Scope("section", TRUE)
<1>5. c \in Opened /\ c.kind = "section"
  BY ScopeIsOpened DEF Kinds
<1>6. Scoped(2, <<c>>, 1)
  BY <1>1
<1> HIDE DEF c
<1>7. CanBegin(c, Reached', table') /\ CanEnd(c, Reached', table', Over')
  BY <1>5 DEF CanBegin, CanEnd
<1>8. CanEnd(scopes[2], Reached', table', Over')
  BY <1>1, <1>2, <1>4, TableCanEnd
<1>9. \A i \in 1 + 1 .. 2 : CanEnd(scopes[i], Reached', table', Over')
  <2>1. \A i \in 1 + 1 .. 2 : i = 2
    OBVIOUS
  <2> QED BY <1>8, <2>1
<1> QED BY <1>3, <1>4, <1>5, <1>6, <1>7, <1>9, PastOne

\* The end of a match key counts it, and the run has done it by then.
LEMMA KeyCanEnd ==
  ASSUME TypeOK, PhaseInv, InTable, InTable', phase # "section", phase' # "section",
         table' = table, walk' = walk, mk' = mk + 1, mk < MatchKeys,
         NEW c \in Opened, c.kind = "key", c.table = table, c.key = Processed
  PROVE  Onward /\ CanEnd(c, Reached', table', Over')
<1>1. walk \in 0 .. 3 /\ mk \in 0 .. MatchKeys
  BY DEF PhaseInv, TypeOK
<1>2. /\ Processed \in Nat /\ walk * MatchKeys \in Nat /\ Processed = walk * MatchKeys + mk
      /\ Processed < TableShare
  BY <1>1, CountOfKeys
<1>3. KeysBehind = Processed /\ KeysBehind' = Processed + 1
  <2>1. Processed' = walk * MatchKeys + (mk + 1)
    BY DEF Processed
  <2>2. Processed' = Processed + 1
    <3> DEFINE w == walk * MatchKeys
    <3>1. w \in Nat /\ Processed = w + mk /\ mk \in Nat /\ Processed' = w + (mk + 1)
      BY <1>2, <2>1 DEF TypeOK
    <3> HIDE DEF w
    <3> QED BY <3>1
  <2> QED BY <2>2 DEF KeysBehind
<1>4. Onward /\ Reached' = IF table > 1 THEN TableBase(table) + KeysBehind' ELSE TableDone(table)
  BY <1>2, <1>3, OnwardIn
<1>5. /\ TableBase(table) \in Nat /\ TableShare \in Nat
      /\ TableDone(table) = TableBase(table) + TableShare
  BY ReachedNow
<1>6. TableBase(table) + Processed + 1 <= Reached'
  BY <1>2, <1>3, <1>4, <1>5
<1> QED BY <1>4, <1>6 DEF CanEnd

\* A match key whose group is skipped.
LEMMA PastSkipGroup ==
  ASSUME TypeOK, PhaseInv, SinkInv, PastInv, refuses \in Manners, RunSkipGroup
  PROVE  PastInv'
<1>1. /\ phase = "group" /\ phase' = "group" /\ table' = table /\ walk' = walk
      /\ mk < MatchKeys /\ mk' = mk + 1 /\ Scoped(3, <<KeyScope>>, 3)
  BY DEF RunSkipGroup, SkipGroup
<1>2. InTable /\ InTable' /\ Len(scopes) = 3 /\ walk \in 0 .. 3
  BY <1>1 DEF InTable, SinkInv, ScopeInv, Depth, Final, PhaseInv
<1> DEFINE c == KeyScope
<1>3. c \in Opened /\ c.kind = "key" /\ c.table = table /\ c.key = Processed
  BY <1>1, <1>2, KeyScopeIsOpened
<1>4. Scoped(3, <<c>>, 3)
  BY <1>1
<1> HIDE DEF c
<1>5. Onward /\ CanEnd(c, Reached', table', Over')
  BY <1>1, <1>2, <1>3, KeyCanEnd
<1>6. CanBegin(c, Reached', table')
  BY <1>3 DEF CanBegin
<1> QED BY <1>2, <1>3, <1>4, <1>5, <1>6, PastOne

\* A match key whose group is searched begins.
LEMMA PastHashLeft ==
  ASSUME TypeOK, PhaseInv, SinkInv, PastInv, refuses \in Manners, RunHashLeft
  PROVE  PastInv'
<1>1. /\ phase = "group" /\ phase' \in {"find", "thrown"} /\ table' = table /\ walk' = walk
      /\ mk < MatchKeys /\ mk' = mk /\ EnterOrThrow(<<KeyScope>>)
  BY DEF RunHashLeft, HashLeft
<1>2. InTable /\ Len(scopes) = 3 /\ walk \in 0 .. 3 /\ ~Over
  BY <1>1 DEF InTable, SinkInv, ScopeInv, Depth, Final, PhaseInv, Over
<1> DEFINE c == KeyScope
<1>3. c \in Opened /\ c.kind = "key" /\ c.table = table /\ c.key = Processed
  BY <1>1, <1>2, KeyScopeIsOpened
<1>4. CanBegin(c, Reached', table')
  BY <1>3 DEF CanBegin
<1>5. CASE phase' = "thrown"
  <2>1. Reached' = Full /\ Over'
    BY <1>1, <1>5, ReachedThen
  <2>2. Onward
    BY <1>1, <1>2, <1>5, <2>1, OnwardTo
  <2>3. Scoped(3, <<c>>, 0)
    BY <1>1, <1>2, <1>5 DEF EnterOrThrow
  <2> HIDE DEF c
  <2>4. CanEnd(c, Reached', table', Over')
    <3>1. /\ TableBase(table) \in Nat /\ TableShare \in Nat /\ Full \in Nat
          /\ TableDone(table) = TableBase(table) + TableShare /\ TableDone(table) <= Full
      BY ReachedNow
    <3>2. Processed \in Nat /\ Processed < TableShare
      <4>1. mk \in 0 .. MatchKeys
        BY DEF TypeOK
      <4> QED BY <1>1, <1>2, <4>1, CountOfKeys
    <3>3. TableBase(table) + Processed + 1 <= Full
      BY <3>1, <3>2
    <3> QED BY <1>3, <2>1, <3>3 DEF CanEnd
  <2>5. \A i \in 0 + 1 .. 3 : CanEnd(scopes[i], Reached', table', Over')
    <3>1. \A i \in 0 + 1 .. 3 : i \in 1 .. Len(scopes)
      BY <1>2
    <3> QED BY <1>1, <2>1, <3>1, AllEnd
  <2> QED BY <1>2, <1>3, <1>4, <2>2, <2>3, <2>4, <2>5, PastOne
<1>6. CASE phase' = "find"
  <2>1. InTable' /\ KeysBehind' = KeysBehind
    BY <1>1, <1>6 DEF InTable, KeysBehind, Processed
  <2>2. KeysBehind \in Nat
    BY <1>2, ReachedNow
  <2>3. Onward
    BY <1>1, <1>2, <2>1, <2>2, OnwardIn
  <2>4. Scoped(3, <<c>>, 4)
    <3>1. Len(<<c>>) = 1
      OBVIOUS
    <3> QED BY <1>1, <1>2, <1>6, <3>1 DEF EnterOrThrow
  <2> HIDE DEF c
  <2> QED BY <1>2, <1>3, <1>4, <2>3, <2>4, PastOne
<1> QED BY <1>1, <1>5, <1>6

\* The end of a match key.
LEMMA PastEndGroup ==
  ASSUME TypeOK, PhaseInv, SinkInv, PastInv, RunEndGroup
  PROVE  PastInv'
<1>1. /\ phase = "join" /\ phase' = "group" /\ table' = table /\ walk' = walk
      /\ mk' = mk + 1 /\ mk < MatchKeys /\ Scoped(3, <<>>, 3)
  BY DEF RunEndGroup, EndGroup, Leave, PhaseInv
<1>2. InTable /\ InTable' /\ Len(scopes) = 4 /\ scopes \in Seq(Opened)
  BY <1>1 DEF InTable, SinkInv, ScopeInv, Depth, Final
<1>3. /\ scopes[4] \in Opened /\ scopes[4].kind = "key" /\ scopes[4].table = table
      /\ scopes[4].key = Processed
  <2>1. Depth = 4 /\ 4 \in 1 .. Len(scopes)
    BY <1>1, <1>2 DEF Depth, Final
  <2>2. scopes[4] \in Opened
    BY <1>2, <2>1, OpenScope
  <2> QED BY <2>1, <2>2 DEF SinkInv, ScopeInv
<1>4. Onward /\ CanEnd(scopes[4], Reached', table', Over')
  BY <1>1, <1>2, <1>3, KeyCanEnd
<1>5. \A i \in 3 + 1 .. Len(scopes) : CanEnd(scopes[i], Reached', table', Over')
  <2>1. \A i \in 3 + 1 .. Len(scopes) : i = 4
    BY <1>2
  <2> QED BY <1>4, <2>1
<1> QED BY <1>1, <1>2, <1>4, <1>5, PastLeft

\* The end of a section pair: the next one, the sort, or a throw.
LEMMA PastEndSection ==
  ASSUME TypeOK, PhaseInv, SinkInv, PastInv, refuses \in Manners, RunEndSection
  PROVE  PastInv'
<1>1. /\ phase = "group" /\ phase' \in {"section", "thrown", "sort"} /\ table' = table
      /\ walk' = walk + 1 /\ mk = MatchKeys
      /\ phase' = "section" => Scoped(2, <<>>, 2)
      /\ phase' = "thrown" => Scoped(0, <<>>, 0)
      /\ phase' = "sort" => Scoped(2, <<SortScope>>, 3)
  BY DEF RunEndSection, EndSection, Leave
<1>2. /\ InTable /\ Len(scopes) = 3 /\ scopes[3].kind = "section" /\ walk \in 0 .. 3 /\ ~Over
      /\ mk \in 0 .. MatchKeys
  BY <1>1 DEF InTable, SinkInv, ScopeInv, Depth, Final, PhaseInv, Over, TypeOK
<1>3. \A i \in 2 + 1 .. Len(scopes) : CanEnd(scopes[i], Reached', table', Over')
  <2>1. \A i \in 2 + 1 .. Len(scopes) : i = 3
    BY <1>2
  <2>2. CanEnd(scopes[3], Reached', table', Over')
    BY <1>2 DEF CanEnd
  <2> QED BY <2>1, <2>2
<1>4. CASE phase' = "section"
  <2>1. InTable' /\ KeysBehind' = KeysBehind /\ KeysBehind \in Nat
    <3>1. KeysBehind = walk * MatchKeys + MatchKeys /\ KeysBehind' = (walk + 1) * MatchKeys
      BY <1>1, <1>4 DEF KeysBehind, Processed
    <3>2. (walk + 1) * MatchKeys = walk * MatchKeys + MatchKeys
      BY <1>2, CountOfKeys
    <3>3. KeysBehind \in Nat
      BY <1>2, ReachedNow
    <3>4. InTable'
      BY <1>4 DEF InTable
    <3> QED BY <3>1, <3>2, <3>3, <3>4
  <2>2. Onward
    BY <1>1, <1>2, <2>1, OnwardIn
  <2> QED BY <1>1, <1>2, <1>3, <1>4, <2>2, PastLeft
<1>5. CASE phase' = "thrown"
  <2>1. Reached' = Full /\ Over'
    BY <1>1, <1>5, ReachedThen
  <2>2. Onward
    BY <1>1, <1>2, <1>5, <2>1, OnwardTo
  <2>3. \A i \in 0 + 1 .. Len(scopes) : CanEnd(scopes[i], Reached', table', Over')
    <3>1. \A i \in 0 + 1 .. Len(scopes) : i \in 1 .. Len(scopes)
      OBVIOUS
    <3> QED BY <1>1, <2>1, <3>1, AllEnd
  <2>4. Scoped(0, <<>>, 0) /\ 0 \in 0 .. Len(scopes)
    BY <1>1, <1>2, <1>5
  <2> QED BY <2>2, <2>3, <2>4, PastLeft
<1>6. CASE phase' = "sort"
  <2>1. Reached' = TableDone(table)
    BY <1>1, <1>6, ReachedThen
  <2>2. Onward
    BY <1>1, <1>2, <1>6, <2>1, OnwardTo
  <2> DEFINE c == SortScope
  <2>3. c \in Opened /\ c.kind = "sort"
    <3>1. refuses.sorts \in BOOLEAN
      BY RunAssumption, Zenon
    <3> QED BY <3>1, ScopeIsOpened DEF Kinds, SortScope
  <2>4. Scoped(2, <<c>>, 3)
    BY <1>1, <1>6
  <2> HIDE DEF c
  <2>5. CanBegin(c, Reached', table')
    BY <2>3 DEF CanBegin
  <2>6. 2 \in 0 .. Len(scopes) /\ 3 \in 0 .. 2 + 1
    BY <1>2
  <2> QED BY <1>3, <2>2, <2>3, <2>4, <2>5, <2>6, PastOne
<1> QED BY <1>1, <1>4, <1>5, <1>6

\* The end of a sort leaves the table too.
LEMMA PastSort ==
  ASSUME TypeOK, PhaseInv, SinkInv, PastInv, RunSort
  PROVE  PastInv'
<1>1. phase = "sort" /\ phase' = "sorted" /\ table' = table /\ Scoped(1, <<>>, 1)
  BY DEF RunSort, Sort, Leave
<1>2. Reached' = TableDone(table)
  BY <1>1, ReachedThen
<1>3. Onward
  BY <1>1, <1>2, OnwardTo DEF Over
<1>4. /\ Len(scopes) = 3 /\ Depth = 3 /\ scopes[3].kind = "sort" /\ scopes[3].table = table
  BY <1>1 DEF SinkInv, ScopeInv, Depth, Final
<1>5. CanEnd(scopes[3], Reached', table', Over')
  <2>1. TableDone(table) <= Reached'
    BY <1>2, ReachedNow
  <2> QED BY <1>4, <2>1 DEF CanEnd
<1>6. CanEnd(scopes[2], Reached', table', Over')
  BY <1>1, <1>2, <1>4, TableCanEnd
<1>7. \A i \in 1 + 1 .. Len(scopes) : CanEnd(scopes[i], Reached', table', Over')
  <2>1. \A i \in 1 + 1 .. Len(scopes) : i \in {2, 3}
    BY <1>4
  <2> QED BY <1>5, <1>6, <2>1
<1> QED BY <1>1, <1>3, <1>4, <1>7, PastLeft

\* All scopes are left, by a sort that throws and at the end of run.
LEMMA PastLeaves ==
  ASSUME TypeOK, PhaseInv, SinkInv, PastInv, RunSortThrows \/ RunCopyOut
  PROVE  PastInv'
<1>1. /\ phase \in {"sort", "sorted"} /\ phase' \in {"plotted", "thrown"} /\ table' = table
      /\ Scoped(0, <<>>, 0)
  BY DEF RunSortThrows, SortThrows, RunCopyOut, CopyOut, Leave
<1>2. Reached' = Full /\ Over' /\ ~Over
  BY <1>1, ReachedThen DEF Over
<1>3. Onward
  BY <1>1, <1>2, OnwardTo
<1>4. \A i \in 0 + 1 .. Len(scopes) : CanEnd(scopes[i], Reached', table', Over')
  <2>1. \A i \in 0 + 1 .. Len(scopes) : i \in 1 .. Len(scopes)
    OBVIOUS
  <2> QED BY <1>1, <1>2, <2>1, AllEnd
<1>5. 0 \in 0 .. Len(scopes)
  <2>1. Len(scopes) = Depth /\ Depth \in 0 .. 4
    BY DepthIsNumber DEF SinkInv, ScopeInv
  <2> QED BY <2>1
<1> QED BY <1>1, <1>3, <1>4, <1>5, PastLeft

\* Steps without an event.
LEMMA PastQuiet ==
  ASSUME TypeOK, PhaseInv, SinkInv, PastInv,
         RunFindPairs \/ RunPlace \/ RunStopped \/ UNCHANGED runVars
  PROVE  PastInv'
<1>1. UNCHANGED sink
  BY DEF RunFindPairs, RunPlace, RunStopped, runVars
<1>n. /\ table \in Tables /\ Reached \in Nat
      /\ ~Over => Reached <= TableDone(table)
      /\ InTable => KeysBehind \in Nat
  BY ReachedNow
<1>2. CASE RunFindPairs
  <2>1. phase = "find" /\ phase' = "join" /\ table' = table /\ walk' = walk /\ mk' = mk
    BY <1>2 DEF RunFindPairs, FindPairs
  <2>2. InTable /\ InTable' /\ KeysBehind' = KeysBehind
    BY <2>1 DEF InTable, KeysBehind, Processed
  <2>3. Onward
    BY <1>n, <2>1, <2>2, OnwardIn
  <2> QED BY <1>1, <2>3, PastUnsent
<1>3. CASE RunPlace
  <2>1. phase = "sorted" /\ phase' = "table" /\ table < 3 /\ table' = table + 1
    BY <1>3 DEF RunPlace, Place
  <2>2. ~Over /\ ~Over' /\ ~InTable'
    BY <2>1 DEF Over, InTable
  <2>3. table \in {0, 1, 2} /\ table' \in Tables /\ table <= table'
    BY <1>n, <2>1 DEF Tables
  <2>4. Reached' = IF table' > 1 THEN TableBase(table') ELSE TableDone(table')
    <3>1. TableBase(table)' = TableBase(table') /\ TableDone(table)' = TableDone(table')
      BY DEF TableBase, TableDone
    <3> QED BY <2>1, <2>2, <3>1 DEF Reached
  <2>5. Reached' = TableDone(table)
    <3>1. CASE table = 0
      <4>1. TableDone(0) = TableDone(1)
        BY DEF TableDone, TableBase
      <4> QED BY <2>1, <2>4, <3>1, <4>1
    <3>2. CASE table # 0
      <4>1. TableBase(table + 1) = TableDone(table)
        BY <1>n, <2>3, <3>2, BarNumbers
      <4>2. table' > 1
        BY <2>1, <2>3, <3>2
      <4> QED BY <2>1, <2>4, <4>1, <4>2
    <3> QED BY <3>1, <3>2
  <2>6. TableDone(table) \in Nat
    BY <1>n, BarNumbers
  <2>7. Onward
    BY <1>n, <2>2, <2>3, <2>5, <2>6 DEF Onward
  <2> QED BY <1>1, <2>7, PastUnsent
<1>4. CASE RunStopped \/ UNCHANGED runVars
  <2>1. UNCHANGED vars
    BY <1>4 DEF RunStopped, Stopped, runVars
  <2>2. UNCHANGED <<phase, table, walk, mk>>
    BY <2>1 DEF vars
  <2>3. Reached' = Reached /\ Over' = Over
    BY <2>2 DEF Reached, Over, InTable, KeysBehind, Processed, TableBase, TableDone
  <2>4. Onward
    BY <1>n, <2>2, <2>3 DEF Onward, Tables
  <2> QED BY <1>1, <2>4, PastUnsent
<1> QED BY <1>2, <1>3, <1>4

\* No step stores anything that is ahead of the run.
LEMMA PastStep ==
  ASSUME TypeOK, PhaseInv, SinkInv, PastInv, refuses \in Manners, [RunStep]_runVars
  PROVE  PastInv'
<1>1. CASE RunNext
  <2>1. CASE RunBeginPlot \/ RunAllocate \/ RunCancelTable \/ RunGenerateXs \/ RunBeginTable
    BY <2>1, PastBeginPlot, PastAllocate, PastCancelTable, PastGenerateXs, PastBeginTable
  <2>2. CASE RunBeginSection \/ RunCancelSection \/ RunSkipGroup \/ RunHashLeft
    BY <2>2, PastBeginSection, PastCancelSection, PastSkipGroup, PastHashLeft
  <2>3. CASE RunEndGroup \/ RunEndSection \/ RunSort
    BY <2>3, PastEndGroup, PastEndSection, PastSort
  <2>4. CASE RunSortThrows \/ RunCopyOut
    BY <2>4, PastLeaves
  <2>5. CASE RunFindPairs \/ RunPlace \/ RunStopped
    BY <2>5, PastQuiet
  <2> QED BY <1>1, <2>1, <2>2, <2>3, <2>4, <2>5 DEF RunNext
<1>2. CASE UNCHANGED runVars
  BY <1>2, PastQuiet
<1> QED BY <1>1, <1>2 DEF RunStep

\* Before the first event a load returns what the fields were made with.
LEMMA PastInit ==
  ASSUME RunInit, TypeOK, PhaseInv, SinkInv
  PROVE  PastInv
<1>1. phase = "plot" /\ table = 0 /\ fraction = 0 /\ state = "idle" /\ shown = 0 /\ past = {Latest}
  BY DEF RunInit, Init
<1>2. Latest \in Views /\ Reached \in Nat
  BY ReachedNow DEF SinkInv, ViewInv
<1>3. Latest.fraction = 0 /\ Latest.state = "idle" /\ Latest.shown = 0
  BY <1>1 DEF Latest
<1>4. Latest \in Behind(Reached, table, Over)
  BY <1>1, <1>2, <1>3 DEF Behind
<1> QED BY <1>1, <1>4 DEF PastInv

\* Whatever value a load returns, it is not ahead of the run.
LEMMA PastTellsTruth ==
  ASSUME PastInv
  PROVE  NeverAhead
<1>1. ASSUME NEW v \in past
      PROVE  v.fraction <= Reached /\ v.shown <= table /\ (v.state = "finished" => Over)
  BY DEF PastInv, Behind
<1>2. ASSUME NEW f \in Loads("fraction")
      PROVE  f <= Reached
  <2>1. \E v \in past : f = v["fraction"]
    BY DEF Loads
  <2> QED BY <1>1, <2>1
<1>3. ASSUME "finished" \in Loads("state")
      PROVE  Over
  <2>1. \E v \in past : "finished" = v["state"]
    BY <1>3 DEF Loads
  <2> QED BY <1>1, <2>1
<1>4. ASSUME NEW t \in Loads("shown")
      PROVE  t <= table
  <2>1. \E v \in past : t = v["shown"]
    BY DEF Loads
  <2> QED BY <1>1, <2>1
<1> QED BY <1>2, <1>3, <1>4 DEF NeverAhead

RunInv == IInv /\ SinkInv /\ PastInv /\ refuses \in Manners

\* The inductive invariant of a run and its sink.
LEMMA RunInvariance ==
  RunSpec => []RunInv /\ BarAdvances
<1>1. RunInit => RunInv
  BY InitInv, SinkInit, PastInit DEF RunInit, RunInv, IInv
<1>2. RunInv /\ [RunStep]_runVars => RunInv' /\ BarMoves
  <2> SUFFICES ASSUME RunInv, [RunStep]_runVars
               PROVE  RunInv' /\ BarMoves
    OBVIOUS
  <2>1. IInv /\ TypeOK /\ PhaseInv /\ SinkInv /\ PastInv /\ refuses \in Manners
    BY DEF RunInv, IInv
  <2>2. [Next]_vars
    BY RunIsPlotting
  <2>3. IInv'
    BY <2>1, <2>2, TypeStep, PhaseStep, PlaceStep, LeftStep, EmptyStep, ScratchStep, ResultStep
    DEF IInv
  <2> QED BY <2>1, <2>3, SinkStep, PastStep DEF RunInv
<1>3. RunInv /\ [RunStep]_runVars => [fraction' < fraction => phase = "table" /\ table = 1]_fraction
  BY <1>2 DEF BarMoves
<1> QED BY <1>1, <1>2, <1>3, PTL DEF RunSpec, BarAdvances

(***************************************************************************)
(* Types of a run and its sink: the scopes are never deeper than four, and *)
(* the bar stays within its length.                                        *)
(***************************************************************************)
THEOREM RunTypes ==
  RunSpec => []RunTypeOK
<1>1. RunInv => RunTypeOK
  <2> SUFFICES ASSUME RunInv
               PROVE  RunTypeOK
    OBVIOUS
  <2>1. TypeOK /\ refuses \in Manners /\ ScopeInv /\ Latest \in Views
    BY DEF RunInv, IInv, SinkInv, ViewInv
  <2>2. Depth \in 0 .. 4 /\ Len(scopes) = Depth
    BY <2>1, DepthIsNumber DEF ScopeInv
  <2>3. ASSUME NEW i \in 1 .. Len(scopes)
        PROVE  scopes[i].kind \in {"plot", "table", "section", "key", "sort"}
    <3>1. i \in {1, 2, 3, 4} /\ i <= Depth
      BY <2>2
    <3>2. CASE i = 1
      BY <2>1, <2>2, <3>1, <3>2 DEF ScopeInv, Held
    <3>3. CASE i = 2
      BY <2>1, <2>2, <3>1, <3>3 DEF ScopeInv, Held
    <3>4. CASE i = 3
      BY <2>1, <2>2, <3>1, <3>4 DEF ScopeInv
    <3>5. CASE i = 4
      BY <2>1, <2>2, <3>1, <3>5 DEF ScopeInv
    <3> QED BY <3>1, <3>2, <3>3, <3>4, <3>5
  <2>4. Len(scopes) <= 4
    BY <2>2
  <2>5. Latest \in past /\ past \subseteq Views
    BY DEF RunInv, PastInv, Behind
  <2> QED BY <2>1, <2>3, <2>4, <2>5 DEF RunTypeOK
<1> QED BY <1>1, RunInvariance, PTL

(***************************************************************************)
(* A poll from another thread, whichever stores of events its three loads  *)
(* return, is never ahead of the run: no table before it is in work, no    *)
(* match key before it is done, finished only when the run is over.  With  *)
(* the last store of every field it shows what the run is doing, whatever  *)
(* scopes were left, and how.                                              *)
(***************************************************************************)
THEOREM PollsTellTruth ==
  RunSpec => []SnapshotTrue
<1>1. RunInv => SnapshotTrue
  BY PastTellsTruth DEF RunInv, SinkInv, SnapshotTrue
<1> QED BY <1>1, RunInvariance, PTL

\* Only the beginning of table 1 ever sets the bar back.
THEOREM BarOnlyAdvances ==
  RunSpec => BarAdvances
BY RunInvariance, PTL
=============================================================================
