------------------------------ MODULE RadixSort ------------------------------
(***************************************************************************)
(* The parallel least-significant-digit radix sort behind every sorted     *)
(* span of a plot (plot/RadixSort.hpp) and behind the solver's x1 list     *)
(* (ParallelRadixSort::sortByKey).  In each pass every thread counts the   *)
(* digits of its chunk; the caller joins them and turns the counts into    *)
(* one write position per thread and digit; then every thread moves its    *)
(* chunk to those positions.  Threads of a phase interleave freely and     *)
(* write one shared buffer without locks.                                  *)
(*                                                                         *)
(* The two differ in the last digit alone: RadixSort masks the full digit, *)
(* sortByKey the bits that are left (lastRadix); an item here is the key   *)
(* and the position it came from, which stands for the rest of the record  *)
(* or for the value that travels with the key.                             *)
(***************************************************************************)
EXTENDS Integers, Sequences, FiniteSets

CONSTANTS
  Threads,     \* hardware_concurrency()
  Radix,       \* 1 << radix_bits
  LastRadixes, \* what the last digit may be: all of it, or the bits that are left
  Passes,      \* num_passes
  Inputs,      \* the key sequences considered
  Blank        \* what an unused buffer holds

ASSUME RadixAssumption ==
  /\ Threads \in Nat \ {0} /\ Radix \in Nat \ {0} /\ Passes \in Nat \ {0}
  /\ LastRadixes \subseteq 1 .. Radix
  /\ \A keys \in Inputs : keys \in Seq(Nat)

Workers == 0 .. Threads - 1
Digits  == 0 .. Radix - 1

VARIABLES
  input,       \* the keys to sort
  lastRadix,   \* the digit of the last pass
  arr,         \* the two containers, "data" and "buffer" of the first pass
  src,         \* the container that the local name data denotes
  pass, phase,
  pos,         \* index i of each thread, NotStarted before its loop
  counts,      \* counts_by_thread
  offsets      \* offsets_for_thread

vars == <<input, lastRadix, arr, src, pass, phase, pos, counts, offsets>>

NotStarted == -1

Other(c) == IF c = "data" THEN "buffer" ELSE "data"

N         == Len(input)
Positions == 0 .. N - 1
First(t)  == (N \div Threads) * t
End(t)    == IF t = Threads - 1 THEN N ELSE (N \div Threads) * (t + 1)

\* The weight of a pass's digit, and the number of keys all passes tell apart.
Weight[p \in 0 .. Passes] == IF p = 0 THEN 1 ELSE Radix * Weight[p - 1]
Modulus(p) == IF p = Passes THEN Weight[p - 1] * lastRadix ELSE Weight[p]

\* The digit that the mask of this pass keeps; sortByKey shrinks the last one.
PassRadix  == IF pass = Passes - 1 THEN lastRadix ELSE Radix
Digit(key) == (key \div Weight[pass]) % PassRadix

ZeroRow == [d \in Digits |-> 0]

Init ==
  /\ input \in Inputs
  /\ lastRadix \in LastRadixes
  /\ arr = [c \in {"data", "buffer"} |->
              [i \in 0 .. Len(input) - 1 |->
                 IF c = "data" THEN [key |-> input[i + 1], from |-> i] ELSE Blank]]
  /\ src = "data"
  /\ pass = 0 /\ phase = "count"
  /\ pos = [t \in Workers |-> NotStarted]
  /\ counts = [t \in Workers |-> ZeroRow]
  /\ offsets = [t \in Workers |-> ZeroRow]

-----------------------------------------------------------------------------
\* Mutant of StartCount: the row keeps the counts of the pass before.
StartCountStale(t) ==
  /\ phase = "count" /\ pos[t] = NotStarted
  /\ pos' = [pos EXCEPT ![t] = First(t)]
  /\ UNCHANGED <<input, lastRadix, arr, src, pass, phase, counts, offsets>>

\* A counting thread starts by clearing its own row.
StartCount(t) ==
  /\ phase = "count" /\ pos[t] = NotStarted
  /\ counts' = [counts EXCEPT ![t] = ZeroRow]
  /\ pos' = [pos EXCEPT ![t] = First(t)]
  /\ UNCHANGED <<input, lastRadix, arr, src, pass, phase, offsets>>

Count(t) ==
  /\ phase = "count" /\ pos[t] # NotStarted /\ pos[t] < End(t)
  /\ counts' = [counts EXCEPT ![t][Digit(arr[src][pos[t]].key)] = @ + 1]
  /\ pos' = [pos EXCEPT ![t] = @ + 1]
  /\ UNCHANGED <<input, lastRadix, arr, src, pass, phase, offsets>>

Joined == \A t \in Workers : pos[t] = End(t)

\* The sum of the counts of some threads and digits: <<c, n>> for each c and each n
\* below its count, of which there are as many as the sum.
SumOfCounts(cs) ==
  Cardinality({x \in cs \X Positions : x[2] < counts[x[1][1]][x[1][2]]})

\* Mutant of PrefixOffset: every thread starts a digit at the same place.
PrefixOffsetShared(t, d) == SumOfCounts({x \in Workers \X Digits : x[2] < d})

\* Mutant of PrefixOffset: later threads come first within a digit.
PrefixOffsetReversed(t, d) ==
  SumOfCounts({x \in Workers \X Digits : x[2] < d \/ (x[2] = d /\ x[1] > t)})

\* Prefix sums of the counts: all smaller digits, then the threads before
\* this one within the digit.
PrefixOffset(t, d) ==
  SumOfCounts({x \in Workers \X Digits : x[2] < d \/ (x[2] = d /\ x[1] < t)})

MergeCounts ==
  /\ phase = "count" /\ Joined
  /\ offsets' = [t \in Workers |-> [d \in Digits |-> PrefixOffset(t, d)]]
  /\ pos' = [t \in Workers |-> First(t)]
  /\ phase' = "move"
  /\ UNCHANGED <<input, lastRadix, arr, src, pass, counts>>

\* One item moves to its place; a place outside the buffer is an exception
\* that nothing catches, so the program ends.
Move(t) ==
  LET item == arr[src][pos[t]]
      d    == Digit(item.key)
      to   == offsets[t][d]
  IN  /\ phase = "move" /\ pos[t] < End(t)
      /\ offsets' = [offsets EXCEPT ![t][d] = @ + 1]
      /\ IF to >= N
           THEN phase' = "aborted" /\ UNCHANGED <<arr, pos>>
           ELSE /\ arr' = [arr EXCEPT ![Other(src)][to] = item]
                /\ pos' = [pos EXCEPT ![t] = @ + 1]
                /\ UNCHANGED phase
      /\ UNCHANGED <<input, lastRadix, src, pass, counts>>

\* All threads have moved their chunks: swap the two names, or return buffer.
EndPass ==
  /\ phase = "move" /\ Joined
  /\ IF pass < Passes - 1
       THEN /\ src' = Other(src) /\ pass' = pass + 1 /\ phase' = "count"
            /\ pos' = [t \in Workers |-> NotStarted]
       ELSE phase' = "done" /\ UNCHANGED <<src, pass, pos>>
  /\ UNCHANGED <<input, lastRadix, arr, counts, offsets>>

Finished == phase \in {"done", "aborted"}

Returned == Finished /\ UNCHANGED vars

Next ==
  \/ \E t \in Workers : StartCount(t) \/ Count(t) \/ Move(t)
  \/ MergeCounts \/ EndPass \/ Returned

Spec == Init /\ [][Next]_vars

-----------------------------------------------------------------------------
\* Type correctness.
TypeOK ==
  /\ input \in Inputs
  /\ lastRadix \in LastRadixes
  /\ DOMAIN arr = {"data", "buffer"}
  /\ src \in {"data", "buffer"}
  /\ pass \in 0 .. Passes - 1
  /\ phase \in {"count", "move", "done", "aborted"}
  /\ pos \in [Workers -> {NotStarted} \cup 0 .. N]
  /\ counts \in [Workers -> [Digits -> 0 .. N]]
  /\ offsets \in [Workers -> [Digits -> 0 .. N]]

\* An order on items: by key modulo the digits sorted so far, then by origin.
Before(x, y, m) ==
  \/ x.key % m < y.key % m
  \/ x.key % m = y.key % m /\ x.from < y.from

SortedBy(a, m) == \A i, j \in Positions : i < j => Before(a[i], a[j], m)

Complete(a) ==
  {a[i] : i \in Positions} = {[key |-> input[i + 1], from |-> i] : i \in Positions}

(***************************************************************************)
(* At the start of each pass the data is a rearrangement of the input that *)
(* is sorted, stably, by all lower digits, which is what the passes rely   *)
(* on.  The span returned is the input sorted stably by its masked key,    *)
(* and no position lies outside the buffer.                                *)
(***************************************************************************)
SortedResult ==
  /\ phase # "aborted"
  /\ phase \in {"count", "move"} =>
       SortedBy(arr[src], Weight[pass]) /\ Complete(arr[src])
  /\ phase = "done" =>
       SortedBy(arr[Other(src)], Modulus(Passes)) /\ Complete(arr[Other(src)])

\* The digits that thread t has yet to move.
ToMove(t) == {Digit(arr[src][i].key) : i \in pos[t] .. End(t) - 1}

(***************************************************************************)
(* The unlocked writes are safe: while items move, no two threads, and no  *)
(* two digits of one thread, are about to write the same position.         *)
(***************************************************************************)
PlacesApart ==
  phase = "move" =>
    \A t, u \in Workers : \A d \in ToMove(t), e \in ToMove(u) :
      offsets[t][d] = offsets[u][e] => t = u /\ d = e
=============================================================================
