----------------------------- MODULE PlotLayout ------------------------------
(***************************************************************************)
(* The memory map of a plotting run (plot/PlotLayout.hpp): one buffer of   *)
(* 32 blocks, in which every phase gives its output, its sort buffer and   *)
(* its scratch for hashed left candidates a place that later phases use    *)
(* again for something else.  Tables are numbered 0 (the x values) to 3.   *)
(* Memory is counted in 4-byte words; an entry is 2, 3, 4 or 2 words.      *)
(***************************************************************************)
EXTENDS Integers, Sequences, FiniteSetsExt

CONSTANTS
  MaxSection,   \* max_section_pairs
  PlanAlign     \* kPlanAlign, in words

ASSUME LayoutAssumption == MaxSection \in Nat /\ PlanAlign \in Nat \ {0}

Tables   == 0 .. 3
Sections == 0 .. 3

Words(t)   == <<2, 3, 4, 2>>[t + 1]       \* sizeof an entry
MaxWords   == 4                           \* max_element_bytes
AlignUp(x) == ((x + PlanAlign - 1) \div PlanAlign) * PlanAlign
Block      == AlignUp((MaxSection * MaxWords) \div 4)
NumBlocks  == 32
MaxPairs   == MaxSection * 4

\* kSlotToBlock: where the output, the sort buffer and the scratch of a
\* table begin; the x values use no target scratch.
OutBlock     == 0

\* Mutant of TmpBlock: the sort buffer of table 1 one block lower.
TmpBlockLow(t) == <<24, 11, 16, 8>>[t + 1]

TmpBlock(t)  == <<24, 14, 16, 8>>[t + 1]

\* Mutant of TargetBlock: the scratch of table 3 reaches into its output.
TargetBlockLow(t) == <<0, 20, 26, 6>>[t + 1]

TargetBlock(t)  == <<0, 20, 26, 8>>[t + 1]
TargetBlocks(t) == <<0, 4, 6, 8>>[t + 1]

OutAt       == OutBlock * Block
TmpAt(t)    == TmpBlock(t) * Block
TargetAt(t) == TargetBlock(t) * Block

Memory == 0 .. NumBlocks * Block - 1

\* The words of entries first .. last-1 of a span of table t that begins at.
Cells(at, t, first, last) == at + first * Words(t) .. at + last * Words(t) - 1
=============================================================================
