----------------------------- MODULE TableMatch -----------------------------
(***************************************************************************)
(* The data side of building one plot table                                *)
(* (plot/TableConstructorGeneric.hpp): which candidate pairs match, how a  *)
(* match-key group of candidates is cut out of the previous table, and how *)
(* the work of one group is divided among the threads.                     *)
(*                                                                         *)
(* An entry of the previous table is [section, key, target, meta]: the     *)
(* three fields of its match_info and the metadata it hashes.  Entries are *)
(* named by their position in the table, and a pairing by the positions of *)
(* its left and right entry.  C++ positions count from 0; a half-open      *)
(* range [b, e) of a span is here the pair b, e with elements b+1 .. e of  *)
(* a sequence.                                                             *)
(***************************************************************************)
EXTENDS Integers, Sequences, FiniteSetsExt

CONSTANTS
  MatchKeys,    \* get_num_match_keys(table_id)
  Targets,      \* the values of the match target bits
  Metas,        \* metadata of entries
  TargetOf,     \* the hash matching_target: of a meta and a match key
  Pairable      \* metadata pairs that pass the pairing filter (pairing_t1/2/3)

ASSUME MatchAssumption ==
  /\ MatchKeys \in Nat \ {0}
  /\ Targets \subseteq Nat
  /\ TargetOf \in [Metas -> [0 .. MatchKeys - 1 -> Targets]]
  /\ Pairable \subseteq Metas \X Metas

(***************************************************************************)
(* The four sections of k <= 28 (section bits are 2) and the rotation that *)
(* ProofCore::matching_section computes: rotate the two bits left, add     *)
(* one, rotate right.  From 3 it visits (3,0), (0,2), (2,1), (1,3).        *)
(***************************************************************************)
Sections == 0 .. 3

Rotate(s) == ((2 * s) % 4) + (s \div 2)      \* of two bits, left and right alike

MatchingSection(s) == Rotate((Rotate(s) + 1) % 4)

Entry == [section : Sections, key : 0 .. MatchKeys - 1,
          target : Targets, meta : Metas]

MatchInfoLeq(a, b) ==
  \/ a.section < b.section
  \/ a.section = b.section /\ a.key < b.key
  \/ a.section = b.section /\ a.key = b.key /\ a.target <= b.target

\* A table as its constructor leaves it: sorted by match_info.
SortedTable(prev) ==
  \A i, j \in DOMAIN prev : i <= j => MatchInfoLeq(prev[i], prev[j])

(***************************************************************************)
(* Reference definition: the pairs (positions of left and right entry)     *)
(* that a table must hold, straight from the matching rules and with no    *)
(* reference to how the constructor looks for them.                        *)
(***************************************************************************)
IsMatch(prev, i, j) ==
  /\ prev[j].section = MatchingSection(prev[i].section)
  /\ prev[j].target = TargetOf[prev[i].meta][prev[j].key]
  /\ <<prev[i].meta, prev[j].meta>> \in Pairable

Matches(prev) ==
  {p \in (DOMAIN prev) \X (DOMAIN prev) : IsMatch(prev, p[1], p[2])}

(***************************************************************************)
(* find_candidates_prefixes: prefix[s][m] is the number of entries that    *)
(* come before section s, key m; prefix[s][MatchKeys] ends the section.    *)
(***************************************************************************)
ComesBefore(entry, s, m) ==
  \/ entry.section < s
  \/ entry.section = s /\ entry.key < m

CandidatePrefixes(prev) ==
  [s \in Sections |-> [m \in 0 .. MatchKeys |->
     Cardinality({i \in DOMAIN prev : ComesBefore(prev[i], s, m)})]]

(***************************************************************************)
(* The left candidates of one match key: every entry of section_l with the *)
(* target it expects under that key, stably sorted by target.              *)
(***************************************************************************)
LeftTargets(prev, sl, m) ==
  LET b == CandidatePrefixes(prev)[sl][0]
      e == CandidatePrefixes(prev)[sl][MatchKeys]
  IN  [i \in 1 .. e - b |-> [pos |-> b + i,
                             target |-> TargetOf[prev[b + i].meta][m]]]

Precedes(l, j, i) ==
  \/ l[j].target < l[i].target
  \/ l[j].target = l[i].target /\ j <= i

Rank(l) == [i \in DOMAIN l |-> Cardinality({j \in DOMAIN l : Precedes(l, j, i)})]

StableSort(l) ==
  [p \in DOMAIN l |-> l[CHOOSE i \in DOMAIN l : Rank(l)[i] = p]]

\* The right candidates: a view of the entries of (section_r, match_key_r).
RightCandidates(prev, sr, m) ==
  LET b == CandidatePrefixes(prev)[sr][m]
      e == CandidatePrefixes(prev)[sr][m + 1]
  IN  [i \in 1 .. e - b |-> [pos |-> b + i, target |-> prev[b + i].target]]

-----------------------------------------------------------------------------
(* make_splits_simple: one range of L and one of R for every thread.       *)


\* First index of the run of equal targets that index idx of c lies in.
RunStart(c, idx) ==
  Min({j \in 0 .. idx :
           \A n \in j .. idx : c[n + 1].target = c[idx + 1].target})

\* Mutant of LeftSplits: even cuts, even inside a run.
LeftSplitsEven(l, n) ==
  [i \in 0 .. n |-> IF i = n THEN Len(l) ELSE i * (Len(l) \div n)]

(***************************************************************************)
(* l_splits: even chunks, each cut moved back to the start of its run and  *)
(* never below the cut before it (so the running maximum).                 *)
(***************************************************************************)
LeftSplits(l, n) ==
  LET base   == Len(l) \div n
      cut(i) == RunStart(l, Min({i * base, Len(l) - 1}))
  IN  [i \in 0 .. n |-> IF i = 0 THEN 0
                        ELSE IF i = n THEN Len(l)
                        ELSE Max({cut(m) : m \in 1 .. i})]

\* Mutant of RightSplit: stops at any equal entry, not at the first.
RightSplitAnyEqual(l, r, n, i) ==
  LET want  == l[LeftSplits(l, n)[i] + 1].target
      first == Min({(Len(r) * i) \div n, Len(r) - 1})
      down  == Max({j \in 0 .. first : j = 0 \/ want >= r[j + 1].target})
  IN  Min({j \in down .. Len(r) : j = Len(r) \/ want <= r[j + 1].target})

(***************************************************************************)
(* r_splits: from an even cut, scan down while R is above the left key,    *)
(* back to the first equal entry, then up while R is below it.             *)
(***************************************************************************)
RightSplit(l, r, n, i) ==
  LET want  == l[LeftSplits(l, n)[i] + 1].target
      first == Min({(Len(r) * i) \div n, Len(r) - 1})
      down  == Max({j \in 0 .. first : j = 0 \/ want >= r[j + 1].target})
      back  == IF r[down + 1].target = want THEN RunStart(r, down) ELSE down
  IN  Min({j \in back .. Len(r) : j = Len(r) \/ want <= r[j + 1].target})

RightSplits(l, r, n) ==
  [i \in 0 .. n |-> IF i = 0 THEN 0
                    ELSE IF i = n THEN Len(r)
                    ELSE RightSplit(l, r, n, i)]

\* The ranges; split i (from 0) is handled by thread i of parallel_for_range.
Splits(l, r, threads) ==
  LET n  == Min({threads, Len(l)})
      ls == LeftSplits(l, n)
      rs == RightSplits(l, r, n)
  IN  [i \in 0 .. n - 1 |-> [lb |-> ls[i], le |-> ls[i + 1],
                             rb |-> rs[i], re |-> rs[i + 1]]]
=============================================================================
