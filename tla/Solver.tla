------------------------------- MODULE Solver -------------------------------
(***************************************************************************)
(* The solver (solve/Solver.hpp, called by solve_partial_proof of          *)
(* src/api.cpp): from the fragments of a quality string back to x values.  *)
(* A fragment gives the upper half of four of its eight x values, so the   *)
(* solver                                                                  *)
(*   - hashes every x of the wanted ranges under every match key and sorts *)
(*     (hashX1Candidates, sortByKey),                                      *)
(*   - lets threads look through all x for hashes a bitmask knows, each    *)
(*     into a part of one array of its own (filterX2Candidates),           *)
(*   - joins both sorted lists section by section, threads storing matches *)
(*     at slots they take from one atomic counter (matchT1Candidates),     *)
(*   - pairs the matches of adjacent x ranges, threads appending under a   *)
(*     mutex (matchT2Candidates), and                                      *)
(*   - pairs those by the validator and multiplies the groups out          *)
(*     (matchT3Candidates, constructProofs).                               *)
(* Sorting is a step here; RadixSort is its model.                         *)
(***************************************************************************)
EXTENDS ProofValidator, FiniteSetsExt

CONSTANTS
  Threads,       \* hardware_concurrency, at least 1
  Granule,       \* the x values of a thread are a multiple of this (16)
  PrefetchDist,  \* how far ahead a thread hashes (128)
  MaxPerThread,  \* MAX_RESULTS_PER_THREAD
  MaxMatches,    \* max_matches of table 1
  Coarse,        \* 2^bitmask_shift_
  Reduce,        \* 2^REDUCE_SHIFT
  Asked,         \* the calls: pairs of a plot and a quality string
  Blank          \* the part of a thread that has not run

ASSUME SolverAssumption ==
  /\ {Threads, Granule, PrefetchDist, MaxPerThread, MaxMatches, Coarse, Reduce} \subseteq Nat \ {0}
  /\ Asked \subseteq Plots \X Seq(Blocks)

Workers  == 0 .. Threads - 1
Sections == 0 .. 3

VARIABLES
  phase,    \* the step of solve, or how it ended: "done", "thrown", "exited"
  asked,    \* plot and quality string of the call
  unique,   \* unique_x_bits_list
  mapping,  \* the x bits of the quality string, then the unique range each is
  x1s,      \* x1 candidates [hash, x], sorted by hash
  found,    \* what each thread has put into its part of x2_potential_match
  failed,   \* a thread's part was full
  x2s,      \* the filtered x2 candidates, compacted and sorted
  bounds,   \* where each section begins, in x1s and in x2s
  worker,   \* the table 1 matching of each thread
  t1,       \* t1_matches, the slots that were stored
  taken,    \* t1_num_matches
  groups,   \* t1_match_groups: a list for each unique x range
  right,    \* R_sorted of the group of table 2 in work
  next,     \* the entries of its left list each thread has still to do: [at, end]
  t2,       \* t2_matches, a list for each group so far
  t3,       \* t3_matches, a list for each fragment
  proofs    \* all_proofs

listVars  == <<unique, mapping, x1s, found, failed, x2s, bounds>>
matchVars == <<worker, t1, taken>>
pairVars  == <<groups, right, next, t2, t3, proofs>>
vars == <<phase, asked, listVars, matchVars, pairVars>>

-----------------------------------------------------------------------------
(* Lists.  These are SetToSortSeq, SelectSeq and SortSeq, written so that  *)
(* an entry is told by how many there are before it.                       *)

\* A finite set of numbers, the lowest first.
InOrder(S) ==
  [n \in 1 .. Cardinality(S) |-> CHOOSE i \in S : Cardinality({j \in S : j < i}) = n - 1]

\* The entries of a list with an index of a set, in their order.
Those(list, at) == LET kept == InOrder(at) IN [n \in DOMAIN kept |-> list[kept[n]]]

\* A stable sort by hash (radixSort.sortByKey).
SortedByHash(list) ==
  LET Before(i, j) == list[i].hash < list[j].hash \/ (list[i].hash = list[j].hash /\ i < j)
      N == DOMAIN list
  IN  [n \in N |-> list[CHOOSE i \in N : Cardinality({j \in N : Before(j, i)}) = n - 1]]

-----------------------------------------------------------------------------
(* compress_with_lookup: the unique x bits in the order they first appear. *)

Plot == asked[1]

\* Four of each fragment.
XBits ==
  [n \in 1 .. 4 * Len(asked[2]) |->
     FragmentBits(Plot, asked[2][((n - 1) \div 4) + 1])[((n - 1) % 4) + 1]]

FirstOf(list, v) == Min({i \in DOMAIN list : list[i] = v})
UniqueOf(list)   == Those(list, {FirstOf(list, list[i]) : i \in DOMAIN list})

\* parallel_for_range gives a thread a contiguous part of 0 .. total - 1.
ShareOf(total, w) == [at |-> (total * w) \div Threads, end |-> (total * (w + 1)) \div Threads]

-----------------------------------------------------------------------------
(* hashX1Candidates and the sort after it                                  *)

\* The match info that pairs in a table with a left one, under a key.
InfoToMatch(t, left, key, target) ==
  MatchingSection(SectionOf(left)) * SectionSize + key * Targets(t) + target

\* The entry of write_idx i: blocks of x ranges, in them blocks of match keys.
X1Candidate(ranges, i) ==
  LET range == ranges[(i \div (HalfXs * MatchKeys[1])) + 1]
      key   == (i \div HalfXs) % MatchKeys[1]
      x     == (range * HalfXs) + (i % HalfXs)
  IN  [hash |-> InfoToMatch(1, Info(Plot, 0, <<x>>), key, TargetOf(Plot, 1, <<x>>, key)),
       x    |-> x]

HashX1 ==
  /\ phase = "hash"
  /\ unique' = UniqueOf(mapping)
  /\ mapping' = [i \in DOMAIN mapping |-> FirstOf(unique', mapping[i])]
  /\ x1s' = SortedByHash([i \in 1 .. Len(unique') * HalfXs * MatchKeys[1] |->
                            X1Candidate(unique', i - 1)])
  /\ phase' = "filter"
  /\ UNCHANGED <<asked, found, failed, x2s, bounds, matchVars, pairVars>>

-----------------------------------------------------------------------------
(* buildX1Bitmask, filterX2Candidates                                      *)

Bitmask == {x1s[i].hash \div Coarse : i \in DOMAIN x1s}

ChunkSize == (NumXs \div Threads) - ((NumXs \div Threads) % Granule)

\* Mutant of ChunkOf: the last thread has a chunk like the others.
ChunkOfEvenly(t) == [i \in 1 .. ChunkSize |-> t * ChunkSize + i - 1]

\* The x values of a thread; the last one takes the rest.
ChunkOf(t) ==
  LET start == t * ChunkSize
      end   == IF t + 1 = Threads THEN NumXs ELSE start + ChunkSize
  IN  [i \in 1 .. end - start |-> start + i - 1]

\* A shorter part would wrap "end - PREFETCH_DIST".
ASSUME PrefetchAssumption == PrefetchDist <= ChunkSize

\* A ring holds the hashes of the next PrefetchDist values: a turn of the loop
\* takes the oldest for its x and puts the one PrefetchDist ahead in its place,
\* as long as there is one.
HitsOf(t) ==
  LET xs == ChunkOf(t)
      Hash0(i) == Info(Plot, 0, <<xs[i]>>)
      Turn(r, i) ==
        LET hash == r.ring[r.at]
        IN  [ring |-> IF i + PrefetchDist \in DOMAIN xs
                        THEN [r.ring EXCEPT ![r.at] = Hash0(i + PrefetchDist)] ELSE r.ring,
             at   |-> (r.at + 1) % PrefetchDist,
             hits |-> IF hash \div Coarse \in Bitmask
                        THEN Append(r.hits, [hash |-> hash, x |-> xs[i]]) ELSE r.hits]
      After[i \in Nat] ==
        IF i = 0
          THEN [ring |-> [a \in 0 .. PrefetchDist - 1 |-> Hash0(a + 1)], at |-> 0, hits |-> <<>>]
          ELSE Turn(After[i - 1], i)
  IN  After[Len(xs)].hits

\* A thread's loop: every hit is stored, and the one that fills the part
\* ends the loop as a failure.
FilterChunk(t) ==
  /\ phase = "filter" /\ found[t] = Blank
  /\ found' = [found EXCEPT ![t] = SubSeq(HitsOf(t), 1, Min({MaxPerThread, Len(HitsOf(t))}))]
  /\ failed' = (failed \/ Len(HitsOf(t)) >= MaxPerThread)
  /\ UNCHANGED <<phase, asked, unique, mapping, x1s, x2s, bounds, matchVars, pairVars>>

-----------------------------------------------------------------------------
(* computeSectionBoundaries: from where a section would begin if all were  *)
(* of one size, forward or backward to where it does.                      *)

SectionBound(list, s) ==
  LET N     == Len(list)
      Sec(i) == SectionOf(list[i + 1].hash)
      ideal == Min({s * (N \div 4), N - 1})
      back  == Max({i \in 0 .. ideal : i = 0 \/ Sec(i) <= s})
  IN  CASE N = 0 -> 0
        [] N > 0 /\ Sec(ideal) < s -> Min({N} \cup {i \in ideal .. N - 1 : Sec(i) >= s})
        [] N > 0 /\ Sec(ideal) > s -> IF Sec(back) < s THEN back + 1 ELSE back
        [] N > 0 /\ Sec(ideal) = s ->
             Min({i \in 0 .. ideal : \A j \in i .. ideal : Sec(j) = s})

BoundsOf(list) == [s \in Sections |-> SectionBound(list, s)]
BoundEnd(b, list, s) == IF s = 3 THEN Len(list) ELSE b[s + 1]

Idle(section) == [section |-> section, i |-> 0, j |-> 0, ti |-> 0, slot |-> 0, at |-> "enter"]

\* The parts of the first threads, moved together
PartsOf[t \in 0 .. Threads] == IF t = 0 THEN <<>> ELSE PartsOf[t - 1] \o found[t - 1]

\* All threads are joined: a failure is thrown, otherwise their parts are
\* moved together and sorted, and the sections found.
JoinFilter ==
  LET sorted == SortedByHash(PartsOf[Threads])
  IN  /\ phase = "filter" /\ \A t \in Workers : found[t] # Blank
      /\ IF failed
           THEN /\ phase' = "thrown"
                /\ UNCHANGED <<x2s, bounds, worker>>
           ELSE /\ phase' = "match1"
                /\ x2s' = sorted
                /\ bounds' = [x1 |-> BoundsOf(x1s), x2 |-> BoundsOf(sorted)]
                /\ worker' = [w \in Workers |-> Idle(ShareOf(4, w).at)]
      /\ UNCHANGED <<asked, unique, mapping, x1s, found, failed, t1, taken, pairVars>>

-----------------------------------------------------------------------------
(* matchT1Candidates: a join of both lists by hash, section by section.    *)

Step(w, rec) == worker' = [worker EXCEPT ![w] = rec]
HashAt(list, i) == list[i + 1].hash

EnterSection(w) ==
  LET me == worker[w]
  IN  /\ phase = "match1" /\ me.at = "enter"
      /\ IF me.section < ShareOf(4, w).end
           THEN Step(w, [me EXCEPT !.i = bounds.x1[me.section], !.j = bounds.x2[me.section],
                                   !.at = "scan"])
           ELSE Step(w, [me EXCEPT !.at = "done"])
      /\ UNCHANGED <<phase, asked, listVars, t1, taken, pairVars>>

\* One turn of the loop over both lists.
Scan(w) ==
  LET me  == worker[w]
      end == me.i >= BoundEnd(bounds.x1, x1s, me.section)
               \/ me.j >= BoundEnd(bounds.x2, x2s, me.section)
      h1  == HashAt(x1s, me.i)
      h2  == HashAt(x2s, me.j)
  IN  /\ phase = "match1" /\ me.at = "scan"
      /\ Step(w, CASE end            -> Idle(me.section + 1)
                   [] ~end /\ h1 = h2 -> [me EXCEPT !.ti = me.i, !.at = "run"]
                   [] ~end /\ h1 < h2 -> [me EXCEPT !.i = @ + 1]
                   [] ~end /\ h1 > h2 -> [me EXCEPT !.j = @ + 1])
      /\ UNCHANGED <<phase, asked, listVars, t1, taken, pairVars>>

\* Mutant of NoRoom: the slot after the last one is given out.
NoRoomLate(slot) == slot > MaxMatches

NoRoom(slot) == slot >= MaxMatches

InRun(me) == /\ me.ti < BoundEnd(bounds.x1, x1s, me.section)
             /\ HashAt(x1s, me.ti) = HashAt(x2s, me.j)

\* One x1 of equal hash: a pair the filter lets through takes a slot, and
\* one slot too many ends the process.
PairUp(w) ==
  LET me   == worker[w]
      pair == <<x1s[me.ti + 1].x, x2s[me.j + 1].x>>
  IN  /\ phase = "match1" /\ me.at = "run" /\ InRun(me)
      /\ IF Passes(Plot, 1, pair)
           THEN /\ taken' = taken + 1
                /\ phase' = (IF NoRoom(taken) THEN "exited" ELSE phase)
                /\ Step(w, [me EXCEPT !.slot = taken, !.at = "store"])
           ELSE /\ Step(w, [me EXCEPT !.ti = @ + 1])
                /\ UNCHANGED <<taken, phase>>
      /\ UNCHANGED <<asked, listVars, t1, pairVars>>

Store(w) ==
  LET me   == worker[w]
      pair == <<x1s[me.ti + 1].x, x2s[me.j + 1].x>>
  IN  /\ phase = "match1" /\ me.at = "store"
      /\ t1' = [s \in DOMAIN t1 \cup {me.slot} |->
                  IF s = me.slot THEN [x1 |-> pair[1], x2 |-> pair[2], hash |-> Info(Plot, 1, pair)]
                                 ELSE t1[s]]
      /\ Step(w, [me EXCEPT !.ti = @ + 1, !.at = "run"])
      /\ UNCHANGED <<phase, asked, listVars, taken, pairVars>>

EndRun(w) ==
  LET me == worker[w]
  IN  /\ phase = "match1" /\ me.at = "run" /\ ~InRun(me)
      /\ Step(w, [me EXCEPT !.j = @ + 1, !.at = "scan"])
      /\ UNCHANGED <<phase, asked, listVars, t1, taken, pairVars>>

\* groupT1Matches: the matches of each unique x range, in slot order.
GroupsOf(matches) ==
  [g \in DOMAIN unique |->
     Those(matches, {i \in DOMAIN matches : Upper(matches[i].x1) = unique[g]})]

JoinMatch1 ==
  /\ phase = "match1" /\ \A w \in Workers : worker[w].at = "done"
  /\ groups' = GroupsOf([i \in 1 .. taken |-> t1[i - 1]])
  /\ phase' = "begin2"
  /\ UNCHANGED <<asked, listVars, matchVars, right, next, t2, t3, proofs>>

-----------------------------------------------------------------------------
(* matchT2Candidates: the groups of table 2 one after the other.           *)

Fragments  == Len(asked[2])
LeftOf(g)  == groups[mapping[2 * g - 1]]
RightOf(g) == groups[mapping[2 * g]]

\* std::sort leaves the order of equal hashes open.
SortedOrders(list) ==
  LET N == DOMAIN list
  IN  {[i \in N |-> list[p[i]]] :
         p \in {q \in [N -> N] :
                  /\ \A i \in N : \E j \in N : q[j] = i
                  /\ \A i \in N \ {Len(list)} : list[q[i]].hash <= list[q[i + 1]].hash}}

Begin2 ==
  /\ phase = "begin2" /\ Len(t2) < 2 * Fragments
  /\ \E r \in SortedOrders(RightOf(Len(t2) + 1)) : right' = r
  /\ t2' = Append(t2, <<>>)
  /\ next' = [w \in Workers |-> ShareOf(Len(LeftOf(Len(t2) + 1)), w)]
  /\ phase' = "match2"
  /\ UNCHANGED <<asked, listVars, matchVars, groups, t3, proofs>>

\* Mutant of Bucket: the walk ends after its first entry.
BucketFirst(reduced) ==
  LET own == {j \in DOMAIN right : right[j].hash \div Reduce = reduced}
  IN  IF own = {} THEN {} ELSE {Min(own)}

\* The walk along right from the first entry of a reduced hash while it is that.
Bucket(reduced) ==
  LET own == {j \in DOMAIN right : right[j].hash \div Reduce = reduced}
  IN  {j \in own : \A i \in Min(own) .. j : i \in own}

\* The hash a right entry must have to match m under a key.
WantedHash(m, key) ==
  InfoToMatch(2, m.hash, key, TargetOf(Plot, 2, <<m.x1, m.x2>>, key))

\* local_out of one left entry: key after key, of each the right entries in turn.
LocalOut(m) ==
  LET Key(n) == n \div Len(right)
      At(n)  == (n % Len(right)) + 1
      Four(n) == <<m.x1, m.x2, right[At(n)].x1, right[At(n)].x2>>
      kept == InOrder({n \in 0 .. (MatchKeys[2] * Len(right)) - 1 :
                         /\ At(n) \in Bucket(WantedHash(m, Key(n)) \div Reduce)
                         /\ right[At(n)].hash = WantedHash(m, Key(n))
                         /\ Passes(Plot, 2, Four(n))})
  IN  [i \in DOMAIN kept |-> Four(kept[i])]

\* A thread handles its next left entry and appends under the mutex.
MatchLeft(w) ==
  LET g == Len(t2)
  IN  /\ phase = "match2" /\ next[w].at < next[w].end
      /\ t2' = [t2 EXCEPT ![g] = @ \o LocalOut(LeftOf(g)[next[w].at + 1])]
      /\ next' = [next EXCEPT ![w].at = @ + 1]
      /\ UNCHANGED <<phase, asked, listVars, matchVars, groups, right, t3, proofs>>

JoinMatch2 ==
  /\ phase = "match2" /\ \A w \in Workers : next[w].at = next[w].end
  /\ phase' = "begin2"
  /\ UNCHANGED <<asked, listVars, matchVars, pairVars>>

-----------------------------------------------------------------------------
(* matchT3Candidates, constructProofs and the end of solve_partial_proof   *)

\* All pairs of two lists, joined, the left one in the outer loop.
Product(A, B) ==
  [n \in 1 .. Len(A) * Len(B) |-> A[((n - 1) \div Len(B)) + 1] \o B[((n - 1) % Len(B)) + 1]]

T3Of(f) ==
  LET eights == Product(t2[2 * f - 1], t2[2 * f])
  IN  Those(eights, {i \in DOMAIN eights : ValidPairs3(Plot, eights[i])})

MatchT3 ==
  /\ phase = "begin2" /\ Len(t2) = 2 * Fragments
  /\ t3' = [f \in 1 .. Fragments |-> T3Of(f)]
  /\ phase' = "construct"
  /\ UNCHANGED <<asked, listVars, matchVars, groups, right, next, t2, proofs>>

\* buildProofs, down to group n: every match of a group after every choice from
\* those before it.
Chosen[n \in 0 .. Fragments] == IF n = 0 THEN << <<>> >> ELSE Product(Chosen[n - 1], t3[n])

Construct ==
  /\ phase = "construct"
  /\ proofs' = Chosen[Fragments]
  /\ phase' = "done"
  /\ UNCHANGED <<asked, listVars, matchVars, groups, right, next, t2, t3>>

\* What the caller gets: the first proof, or <<>> (false).
Answer == IF phase = "done" /\ proofs # <<>> THEN proofs[1] ELSE <<>>

-----------------------------------------------------------------------------
Init ==
  /\ asked \in Asked
  /\ phase = "hash" /\ unique = <<>> /\ mapping = XBits /\ x1s = <<>>
  /\ found = [t \in Workers |-> Blank] /\ failed = FALSE
  /\ x2s = <<>> /\ bounds = [x1 |-> BoundsOf(<<>>), x2 |-> BoundsOf(<<>>)]
  /\ worker = [w \in Workers |-> Idle(0)]
  /\ t1 = <<>> /\ taken = 0
  /\ groups = <<>> /\ right = <<>> /\ next = [w \in Workers |-> ShareOf(0, w)]
  /\ t2 = <<>> /\ t3 = <<>> /\ proofs = <<>>

MatchWork(w) ==
  EnterSection(w) \/ Scan(w) \/ PairUp(w) \/ Store(w) \/ EndRun(w) \/ MatchLeft(w)

Coordinate == HashX1 \/ JoinFilter \/ JoinMatch1 \/ Begin2 \/ JoinMatch2 \/ MatchT3 \/ Construct

Ended == phase \in {"done", "thrown", "exited"}

Next ==
  \/ Coordinate
  \/ \E w \in Workers : FilterChunk(w) \/ MatchWork(w)
  \/ Ended /\ UNCHANGED vars

\* Every step but the last one brings the call forward, so that a run with no
\* deadlock is one in which every call ends.
Spec == Init /\ [][Next]_vars

-----------------------------------------------------------------------------
(* Properties                                                              *)

Candidate == [hash : Xs, x : Xs]
Match     == [x1 : Xs, x2 : Xs, hash : Xs]

\* Type correctness.
TypeOK ==
  /\ asked[2] \in Seq(Blocks)
  /\ phase \in {"hash", "filter", "match1", "begin2", "match2", "construct", "done", "thrown", "exited"}
  /\ x1s \in Seq(Candidate) /\ x2s \in Seq(Candidate)
  /\ \A t \in Workers :
       found[t] # Blank => found[t] \in Seq(Candidate) /\ Len(found[t]) <= MaxPerThread
  /\ failed \in BOOLEAN
  /\ DOMAIN t1 \subseteq 0 .. MaxMatches - 1
  /\ \A s \in DOMAIN t1 : t1[s] \in Match
  /\ taken \in Nat /\ (phase # "exited" => taken <= MaxMatches)
  /\ \A g \in DOMAIN groups : groups[g] \in Seq(Match)
  /\ \A g \in DOMAIN t2 : \A i \in DOMAIN t2[g] : t2[g][i] \in [1 .. 4 -> Xs]

\* The pairs of table 1 a validator accepts whose left x has wanted upper bits.
WantedPairs ==
  {p \in Xs \X Xs : \E i \in DOMAIN unique : Upper(p[1]) = unique[i] /\ ValidPair(Plot, p)}

\* After the threads of table 1 the slots hold every pair the validator
\* accepts of the wanted ranges, each once and nothing else: a pair whose
\* half the filter threads missed, a slot taken twice or left empty, a
\* section cut short would all show here.
MatchesOnce ==
  phase = "begin2" /\ t2 = <<>> =>
    LET slots == 0 .. taken - 1
        xs(s) == <<t1[s].x1, t1[s].x2>>
    IN  /\ DOMAIN t1 = slots
        /\ {xs(s) : s \in slots} = WantedPairs
        /\ Cardinality(WantedPairs) = taken

\* All proofs of a fragment, by the validator alone: eight x values that pair
\* in every table and encode to it.
ProofsOf(fragment) ==
  LET pairs == {p \in Xs \X Xs : ValidPair(Plot, p)}
      fours == {xs \in {p \o q : p \in pairs, q \in pairs} : ValidPairs2(Plot, xs)}
  IN  {xs \in {l \o r : l \in fours, r \in fours} :
         EncodeFragment(Plot, xs) = fragment /\ ValidPairs3(Plot, xs)}

\* A search that ends finds exactly the full proofs that exist: for every
\* fragment in its place one of all its proofs, in every combination, once.
ProofsExact ==
  phase = "done" =>
    LET From[f \in Nat] == IF f > Fragments THEN {<<>>}
                            ELSE {p \o q : p \in ProofsOf(asked[2][f]), q \in From[f + 1]}
        exact == From[1]
    IN  /\ {proofs[i] : i \in DOMAIN proofs} = exact
        /\ Len(proofs) = Cardinality(exact)

\* Whatever proof the caller is given for a chain of the plot, the full
\* validator accepts it and finds in it the quality string that was asked
\* for, though it may not hold the x values the plot was made from.
AnswerValidates ==
  Answer # <<>> /\ ChainAccepts(Plot, asked[2]) =>
    ValidateFullProof(Plot, Answer) = asked[2]

\* "step forward one to land on the first s" (computeSectionBoundaries): the
\* index of a section is that of its first entry, or of where it would be.
BoundsFindSections ==
  phase = "match1" =>
    \A s \in Sections :
      /\ bounds.x1[s] = Cardinality({i \in DOMAIN x1s : SectionOf(x1s[i].hash) < s})
      /\ bounds.x2[s] = Cardinality({i \in DOMAIN x2s : SectionOf(x2s[i].hash) < s})
=============================================================================
