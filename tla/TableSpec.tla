----------------------------- MODULE TableSpec ------------------------------
(***************************************************************************)
(* What building one table promises, with no threads, sections or slots:   *)
(* the table collects pairings one at a time, only ones that match and     *)
(* none twice, and ends in one of three ways: complete, refused because    *)
(* the matches do not fit, or abandoned because the user cancelled.        *)
(***************************************************************************)
EXTENDS FiniteSets, Naturals

CONSTANT Capacity     \* slots of the output span

VARIABLES wanted,     \* the pairings that match; fixed from the start
          pairs,      \* pairings found so far
          status      \* "building", "complete", "refused" or "abandoned"

Building == status = "building" /\ UNCHANGED wanted

Init == pairs = {} /\ status = "building"

Find ==
  /\ Building
  /\ \E p \in wanted \ pairs : pairs' = pairs \cup {p}
  /\ UNCHANGED status

Complete ==
  /\ Building
  /\ pairs = wanted /\ Cardinality(pairs) <= Capacity
  /\ status' = "complete"
  /\ UNCHANGED pairs

Refuse ==
  /\ Building
  /\ pairs = wanted /\ Cardinality(pairs) > Capacity
  /\ status' = "refused"
  /\ UNCHANGED pairs

Abandon ==
  /\ Building
  /\ status' = "abandoned"
  /\ UNCHANGED pairs

Next == Find \/ Complete \/ Refuse \/ Abandon

Spec == Init /\ [][Next]_<<wanted, pairs, status>>
=============================================================================
