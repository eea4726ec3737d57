----------------------------- MODULE TableBuild -----------------------------
(***************************************************************************)
(* TableConstructorGeneric::construct: one plot table built by a           *)
(* coordinator and, inside each match-key group, up to Threads workers.    *)
(* The coordinator walks the four section pairs, (3,0), (0,2), (2,1) and   *)
(* (1,3), and the match keys of each; for a group it hashes and sorts the  *)
(* left candidates, cuts both sides into ranges and starts one worker per  *)
(* range.  Workers merge their ranges and put every pairing into the one   *)
(* shared output span: a fetch_add on the shared cursor reserves a slot, a *)
(* later store fills it.  The two are separate steps here, and the steps   *)
(* of the workers interleave freely; the coordinator joins them all before *)
(* the next group.                                                         *)
(***************************************************************************)
EXTENDS TableMatch

CONSTANTS
  Threads,      \* std::thread::hardware_concurrency()
  Capacity,     \* out_pairs.size()
  Tables,       \* the previous tables considered
  NoPair        \* content of a slot that was never stored

Workers == 0 .. Threads - 1
Slots   == 0 .. Capacity - 1

ASSUME BuildAssumption ==
  /\ Threads \in Nat \ {0}
  /\ Capacity \in Nat
  /\ NoPair \notin (Nat \X Nat)
  /\ \A prev \in Tables : prev \in Seq(Entry) /\ SortedTable(prev)

VARIABLES
  prev,         \* the previous table
  phase,        \* where the coordinator is
  sl, mk,       \* section_l and match_key_r of the current group
  lc, rc,       \* its sorted left candidates and right candidates
  rng,          \* the ranges the group was cut into
  pc,           \* where each worker is in find_pairs_into
  left, right,  \* left_index and current_r_idx of each worker
  start,        \* start_i of each worker
  slot,         \* the slot each worker reserved last
  cursor,       \* out_count
  out,          \* out_pairs
  reserved      \* history: the pairings in the order of their fetch_add

tableVars  == <<prev, phase, sl, mk, lc, rc, rng>>
workerVars == <<pc, left, right, start, slot>>
outVars    == <<cursor, out, reserved>>
vars       == <<tableVars, workerVars, outVars>>

Pairings == Nat \X Nat

Final == {"sorted", "thrown", "cancelled"}

Init ==
  /\ prev \in Tables
  /\ phase = "table"
  /\ sl = 3 /\ mk = 0
  /\ lc = <<>> /\ rc = <<>> /\ rng = <<>>
  /\ pc = [w \in Workers |-> "idle"]
  /\ left = [w \in Workers |-> 0]
  /\ right = [w \in Workers |-> 0]
  /\ start = [w \in Workers |-> 0]
  /\ slot = [w \in Workers |-> 0]
  /\ cursor = 0
  /\ out = [s \in Slots |-> NoPair]
  /\ reserved = <<>>

-----------------------------------------------------------------------------
(* The coordinator.  TableBegin and SectionBegin events can come back      *)
(* cancelled, which abandons the table; a MatchKeyBegin event cannot.      *)

BeginTable ==
  /\ phase = "table"
  /\ phase' \in {"section", "cancelled"}
  /\ UNCHANGED <<prev, sl, mk, lc, rc, rng, workerVars, outVars>>

BeginSection ==
  /\ phase = "section"
  /\ phase' \in {"group", "cancelled"}
  /\ mk' = 0
  /\ UNCHANGED <<prev, sl, lc, rc, rng, workerVars, outVars>>

GroupLeft  == LeftTargets(prev, sl, mk)
GroupRight == RightCandidates(prev, MatchingSection(sl), mk)
GroupEmpty == GroupLeft = <<>> \/ GroupRight = <<>>

SkipGroup ==
  /\ phase = "group" /\ mk < MatchKeys
  /\ GroupEmpty
  /\ mk' = mk + 1
  /\ UNCHANGED <<prev, phase, sl, lc, rc, rng, workerVars, outVars>>

BeginGroup ==
  /\ phase = "group" /\ mk < MatchKeys
  /\ ~ GroupEmpty
  /\ phase' = "find"
  /\ lc' = StableSort(GroupLeft)
  /\ rc' = GroupRight
  /\ rng' = IF Threads > 1 THEN Splits(lc', rc', Threads)
            ELSE [i \in {0} |-> [lb |-> 0, le |-> Len(lc'), rb |-> 0, re |-> Len(rc')]]
  /\ pc' = [w \in Workers |-> IF w \in DOMAIN rng' THEN "scan" ELSE "idle"]
  /\ left' = [w \in Workers |-> IF w \in DOMAIN rng' THEN rng'[w].lb ELSE 0]
  /\ right' = [w \in Workers |-> IF w \in DOMAIN rng' THEN rng'[w].rb ELSE 0]
  /\ UNCHANGED <<prev, sl, mk, start, slot, outVars>>

\* Mutant of JoinGroup: goes on once the first worker is done.
JoinGroupEarly ==
  /\ phase = "find"
  /\ pc[0] = "idle"
  /\ phase' = "group"
  /\ mk' = mk + 1
  /\ UNCHANGED <<prev, sl, lc, rc, rng, workerVars, outVars>>

JoinGroup ==
  /\ phase = "find"
  /\ \A w \in Workers : pc[w] = "idle"
  /\ phase' = "group"
  /\ mk' = mk + 1
  /\ UNCHANGED <<prev, sl, lc, rc, rng, workerVars, outVars>>

EndSection ==
  /\ phase = "group" /\ mk = MatchKeys
  /\ sl' = MatchingSection(sl)
  /\ phase' = IF sl' = 3 THEN "count" ELSE "section"
  /\ UNCHANGED <<prev, mk, lc, rc, rng, workerVars, outVars>>

\* The overflow check, then post_construct_span sorts the slots in use.
Finish ==
  /\ phase = "count"
  /\ phase' = IF cursor > Capacity THEN "thrown" ELSE "sorted"
  /\ UNCHANGED <<prev, sl, mk, lc, rc, rng, workerVars, outVars>>

Stopped == phase \in Final /\ UNCHANGED vars

-----------------------------------------------------------------------------
(* A worker in find_pairs_into, on its own range of L and R.               *)

HasLeft(w, i) == i < rng[w].le
HasRight(w)   == right[w] < rng[w].re
LeftKey(i)    == lc[i + 1].target
RightKey(w)   == rc[right[w] + 1].target

\* Mutant of Advance: the left side does not move on.
AdvanceRightOnly(w) ==
  /\ pc[w] = "scan"
  /\ HasLeft(w, left[w]) /\ HasRight(w)
  /\ LeftKey(left[w]) # RightKey(w)
  /\ IF RightKey(w) < LeftKey(left[w])
       THEN right' = [right EXCEPT ![w] = @ + 1]
       ELSE UNCHANGED right
  /\ UNCHANGED <<tableVars, pc, left, start, slot, outVars>>

\* The keys differ: the side with the smaller one moves on.
Advance(w) ==
  /\ pc[w] = "scan"
  /\ HasLeft(w, left[w]) /\ HasRight(w)
  /\ LeftKey(left[w]) # RightKey(w)
  /\ IF RightKey(w) < LeftKey(left[w])
       THEN right' = [right EXCEPT ![w] = @ + 1] /\ UNCHANGED left
       ELSE left' = [left EXCEPT ![w] = @ + 1] /\ UNCHANGED right
  /\ UNCHANGED <<tableVars, pc, start, slot, outVars>>

EnterRun(w) ==
  /\ pc[w] = "scan"
  /\ HasLeft(w, left[w]) /\ HasRight(w)
  /\ LeftKey(left[w]) = RightKey(w)
  /\ pc' = [pc EXCEPT ![w] = "run"]
  /\ start' = [start EXCEPT ![w] = left[w]]
  /\ UNCHANGED <<tableVars, left, right, slot, outVars>>

InRun(w) == HasLeft(w, start[w]) /\ LeftKey(start[w]) = RightKey(w)

Candidate(w) == <<lc[start[w] + 1].pos, rc[right[w] + 1].pos>>

Passes(p) == <<prev[p[1]].meta, prev[p[2]].meta>> \in Pairable

\* Mutant of Reserve: the increment is lost while another store is pending.
ReserveTorn(w) ==
  /\ pc[w] = "run" /\ InRun(w)
  /\ Passes(Candidate(w))
  /\ slot' = [slot EXCEPT ![w] = cursor]
  /\ cursor' = IF \E v \in Workers : pc[v] = "store" THEN cursor ELSE cursor + 1
  /\ reserved' = Append(reserved, Candidate(w))
  /\ pc' = [pc EXCEPT ![w] = "store"]
  /\ UNCHANGED <<tableVars, left, right, start, out>>

\* Mutant of Reserve: the cursor stops at the end of the span.
ReserveSaturating(w) ==
  /\ pc[w] = "run" /\ InRun(w)
  /\ Passes(Candidate(w))
  /\ slot' = [slot EXCEPT ![w] = cursor]
  /\ cursor' = IF cursor < Capacity THEN cursor + 1 ELSE cursor
  /\ reserved' = Append(reserved, Candidate(w))
  /\ pc' = [pc EXCEPT ![w] = "store"]
  /\ UNCHANGED <<tableVars, left, right, start, out>>

\* handle_pair_into, up to the fetch_add.
Reserve(w) ==
  /\ pc[w] = "run" /\ InRun(w)
  /\ Passes(Candidate(w))
  /\ slot' = [slot EXCEPT ![w] = cursor]
  /\ cursor' = cursor + 1
  /\ reserved' = Append(reserved, Candidate(w))
  /\ pc' = [pc EXCEPT ![w] = "store"]
  /\ UNCHANGED <<tableVars, left, right, start, out>>

\* handle_pair_into returns without a pairing.
Filter(w) ==
  /\ pc[w] = "run" /\ InRun(w)
  /\ ~ Passes(Candidate(w))
  /\ start' = [start EXCEPT ![w] = @ + 1]
  /\ UNCHANGED <<tableVars, pc, left, right, slot, outVars>>

\* The store into the reserved slot; past the end of the span it is dropped.
Store(w) ==
  /\ pc[w] = "store"
  /\ out' = IF slot[w] >= Capacity THEN out
            ELSE [out EXCEPT ![slot[w]] = Candidate(w)]
  /\ start' = [start EXCEPT ![w] = @ + 1]
  /\ pc' = [pc EXCEPT ![w] = "run"]
  /\ UNCHANGED <<tableVars, left, right, slot, cursor, reserved>>

\* The run of equal left entries is done: next right entry, same left one.
LeaveRun(w) ==
  /\ pc[w] = "run" /\ ~ InRun(w)
  /\ right' = [right EXCEPT ![w] = @ + 1]
  /\ pc' = [pc EXCEPT ![w] = "scan"]
  /\ UNCHANGED <<tableVars, left, start, slot, outVars>>

Exhaust(w) ==
  /\ pc[w] = "scan"
  /\ ~ (HasLeft(w, left[w]) /\ HasRight(w))
  /\ pc' = [pc EXCEPT ![w] = "idle"]
  /\ UNCHANGED <<tableVars, left, right, start, slot, outVars>>

Work(w) ==
  \/ Advance(w) \/ EnterRun(w) \/ Reserve(w) \/ Filter(w)
  \/ Store(w) \/ LeaveRun(w) \/ Exhaust(w)

Coordinate ==
  \/ BeginTable \/ BeginSection \/ SkipGroup \/ BeginGroup
  \/ JoinGroup \/ EndSection \/ Finish

Next == Coordinate \/ (\E w \in Workers : Work(w)) \/ Stopped

\* Every thread runs until it is joined, and construct runs to its end.
Fairness == WF_vars(Coordinate) /\ \A w \in Workers : WF_vars(Work(w))

Spec     == Init /\ [][Next]_vars
FairSpec == Spec /\ Fairness

-----------------------------------------------------------------------------
(* Properties.                                                             *)

\* Type correctness of every variable of construct and its workers.
TypeOK ==
  /\ prev \in Tables
  /\ phase \in {"table", "section", "group", "find", "count"} \cup Final
  /\ sl \in Sections /\ mk \in 0 .. MatchKeys
  /\ pc \in [Workers -> {"idle", "scan", "run", "store"}]
  /\ left \in [Workers -> Nat] /\ right \in [Workers -> Nat]
  /\ start \in [Workers -> Nat] /\ slot \in [Workers -> Nat]
  /\ cursor \in Nat
  /\ DOMAIN out = Slots
  /\ reserved \in Seq(Pairings)
  /\ Len(reserved) = cursor

Storing(w) == pc[w] = "store"

\* Two workers never hold the same slot.
HeldApart ==
  \A v, w \in Workers : Storing(v) /\ Storing(w) /\ slot[v] = slot[w] => v = w

\* A held slot is below the cursor, still empty, and reserved for its holder.
HeldReserved ==
  \A w \in Workers : Storing(w) =>
    /\ slot[w] < cursor
    /\ slot[w] < Capacity => out[slot[w]] = NoPair
    /\ reserved[slot[w] + 1] = Candidate(w)

\* A slot below the cursor is held or holds what it was reserved for.
FilledBelow ==
  \A s \in Slots : s < cursor =>
    out[s] = reserved[s + 1] \/ \E w \in Workers : Storing(w) /\ slot[w] = s

EmptyAbove == \A s \in Slots : s >= cursor => out[s] = NoPair

(***************************************************************************)
(* The protocol of the shared cursor, whatever the workers' order: two     *)
(* workers never hold the same slot, a held slot is below the cursor and   *)
(* still empty, a slot below the cursor is held or holds the pairing it    *)
(* was reserved for, and a slot at or above the cursor is untouched.       *)
(***************************************************************************)
SlotProtocol == HeldApart /\ HeldReserved /\ FilledBelow /\ EmptyAbove

(***************************************************************************)
(* The output span that construct sorts has no hole and no foreign value:  *)
(* once every group is joined, each slot below the cursor holds the        *)
(* pairing of its fetch_add.                                               *)
(***************************************************************************)
DenseOutput ==
  phase \in {"count", "sorted", "thrown"} =>
    \A s \in Slots : s < cursor => out[s] = reserved[s + 1]

\* A pairing that was stored is never overwritten by another worker.
StoredOnce ==
  [][\A s \in Slots : out[s] # NoPair => out'[s] = out[s]]_out

(***************************************************************************)
(* A table that is returned holds every matching pair of the previous      *)
(* table exactly once: no pair is lost between two ranges and none is      *)
(* found by both, wherever the cuts fall among equal targets.              *)
(***************************************************************************)
EveryMatchOnce ==
  phase = "sorted" =>
    /\ cursor = Cardinality(Matches(prev))
    /\ {out[s] : s \in 0 .. cursor - 1} = Matches(prev)

(***************************************************************************)
(* construct implements TableSpec: pairings appear one at a time and only  *)
(* matching ones, and the table is completed or refused for the right      *)
(* reason.                                                                 *)
(***************************************************************************)
PairsSoFar == Range(reserved)

StatusNow == CASE phase = "sorted"    -> "complete"
               [] phase = "thrown"    -> "refused"
               [] phase = "cancelled" -> "abandoned"
               [] OTHER               -> "building"

Promise == INSTANCE TableSpec WITH
             wanted <- Matches(prev), pairs <- PairsSoFar, status <- StatusNow

ImplementsTableSpec == Promise!Spec

\* Building a table always ends: sorted, refused or cancelled.
Termination == <>(phase \in Final)
=============================================================================
