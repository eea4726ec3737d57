----------------------------- MODULE MCRadixSort -----------------------------
(***************************************************************************)
(* Small instances of RadixSort: two passes of base 3, the last one full   *)
(* (RadixSort) or narrower (sortByKey), with fewer, as many and more items *)
(* than threads, so that chunks are empty, even, and longer for the last   *)
(* thread.                                                                 *)
(***************************************************************************)
EXTENDS RadixSort

\* Equal and different low and high digits; 7 has bits beyond a narrow last digit.
MCKeys   == {0, 2, 3, 7}
MCInputs == UNION {[1 .. n -> MCKeys] : n \in {0, 1, 2, 4}} \cup
            {s \in [1 .. 5 -> MCKeys] : s[1] = 7 /\ s[3] = 3}
=============================================================================
