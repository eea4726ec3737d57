--------------------------- MODULE MCChunkCodec ---------------------------
(***************************************************************************)
(* ChunkCodec on chunks of 64 values with 16-bit fields, and, for the      *)
(* writer's assertion, on the true constants of k = 18.                    *)
(***************************************************************************)
EXTENDS ChunkCodec

\* both sides of the first two thresholds, and both ends of the chunk
Edges == {0, 1, 11, 12, 23, 24, 63}

Sorted(S) == SetToSortSeq(S, <)

Singles == {<<Sorted(S)>> : S \in SUBSET Edges \ {{}}}

Pairs == {<<Sorted(S), Sorted(T)>> : S \in {{0}, {63}, {0, 12, 63}, {1, 11, 24}},
                                     T \in {{0}, {63}, {0, 23}, {11, 12, 63}}}

MCGroups == Singles \cup Pairs
              \cup {<< <<0, 0, 5>>, <<63, 63>>, <<7>> >>, << <<9, 9, 9, 60, 60>> >>}

\* a range that spans the chunk, as that of a chaining set does, and no range at all
ChunkOrAll(c) ==
  {[start |-> c * RangePerChunk, end |-> (c + 1) * RangePerChunk - 1],
   [start |-> 0, end |-> 2^20]}

\* k = 18: three fragments, all at the end of their chunk
Sparse == {<< <<2^24 - 3, 2^24 - 2, 2^24 - 1>> >>}
==========================================================================
