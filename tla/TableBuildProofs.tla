-------------------------- MODULE TableBuildProofs ---------------------------
(***************************************************************************)
(* Safety of TableBuild for any previous tables, any number of threads and *)
(* any capacity of the output span: type correctness, the protocol of the  *)
(* shared cursor, that what construct sorts has no hole, that a finished   *)
(* table holds every matching pair exactly once, and that TableBuild       *)
(* implements TableSpec.                                                   *)
(***************************************************************************)
EXTENDS TableBuild, ExtremaLemmas, FiniteSetTheorems

-----------------------------------------------------------------------------
(* The division of one match-key group among threads (TableMatch), for     *)
(* spans of any length and any number of threads.                          *)

\* Candidates as the constructor sees them, and spans sorted by target.
SpanEntry == [pos : Nat, target : Nat]

SortedSpan(c) ==
  \A i, j \in 1 .. Len(c) : i <= j => c[i].target <= c[j].target

(***************************************************************************)
(* Scanning back from idx through equal keys ends at the first of them.    *)
(***************************************************************************)
LEMMA RunStartFirst ==
  ASSUME NEW c \in Seq(SpanEntry), SortedSpan(c),
         NEW idx \in 0 .. Len(c) - 1
  PROVE  /\ RunStart(c, idx) \in 0 .. idx
         /\ c[RunStart(c, idx) + 1].target = c[idx + 1].target
         /\ \A j \in 0 .. RunStart(c, idx) - 1 :
               c[j + 1].target < c[idx + 1].target
<1> DEFINE S == {j \in 0 .. idx :
                   \A n \in j .. idx : c[n + 1].target = c[idx + 1].target}
<1> DEFINE s == RunStart(c, idx)
<1>1. S \subseteq Nat /\ idx \in S
  OBVIOUS
<1>2. s \in S /\ \A y \in S : s <= y
  <2>1. s = Min(S)
    BY DEF RunStart
  <2> HIDE DEF S, s
  <2> QED BY <1>1, <2>1, MinNat
<1>3. s \in 0 .. idx /\ c[s + 1].target = c[idx + 1].target
  BY <1>2
<1>4. ASSUME NEW j \in 0 .. s - 1
      PROVE  c[j + 1].target < c[idx + 1].target
  <2> HIDE DEF s
  <2>1. s - 1 \in 0 .. idx /\ s - 1 \notin S
    BY <1>2, <1>3
  <2>2. c[s].target # c[idx + 1].target
    <3>1. PICK n \in (s - 1) .. idx : c[n + 1].target # c[idx + 1].target
      BY <2>1
    <3>2. \A m \in s .. idx : c[m + 1].target = c[idx + 1].target
      BY <1>2
    <3>3. n = s - 1
      BY <1>3, <3>1, <3>2
    <3> QED BY <1>3, <3>1, <3>3
  <2>3. /\ c[j + 1].target <= c[s].target
        /\ c[s].target <= c[idx + 1].target
    BY <1>3, <2>1 DEF SortedSpan
  <2>4. /\ c[j + 1].target \in Nat /\ c[s].target \in Nat
        /\ c[idx + 1].target \in Nat
    <3>1. /\ c[j + 1] \in SpanEntry /\ c[s] \in SpanEntry
          /\ c[idx + 1] \in SpanEntry
      BY <1>3, <2>1
    <3> QED BY <3>1 DEF SpanEntry
  <2> HIDE DEF S
  <2>5. c[s].target < c[idx + 1].target
    BY <2>2, <2>3, <2>4
  <2> DEFINE x == c[j + 1].target
             y == c[s].target
             z == c[idx + 1].target
  <2>6. x \in Nat /\ y \in Nat /\ z \in Nat /\ x <= y /\ y < z
    BY <2>3, <2>4, <2>5
  <2>7. x < z
    <3> HIDE DEF x, y, z
    <3> QED BY <2>6
  <2> QED BY <2>7
<1> QED BY <1>3, <1>4

\* Position q begins a run: everything before it has a smaller key.
BeginsRun(l, q) ==
  /\ q \in 0 .. Len(l) - 1
  /\ \A j \in 0 .. q - 1 : l[j + 1].target < l[q + 1].target

\* The scan back of make_splits_simple ends where a run of equal targets begins.
LEMMA RunStartBegins ==
  ASSUME NEW l \in Seq(SpanEntry), SortedSpan(l),
         NEW idx \in 0 .. Len(l) - 1
  PROVE  BeginsRun(l, RunStart(l, idx))
<1> DEFINE q == RunStart(l, idx)
<1>1. /\ q \in 0 .. idx
      /\ l[q + 1].target = l[idx + 1].target
      /\ \A j \in 0 .. q - 1 : l[j + 1].target < l[idx + 1].target
  BY RunStartFirst
<1> HIDE DEF q
<1>2. q \in 0 .. Len(l) - 1
  BY <1>1
<1>3. ASSUME NEW j \in 0 .. q - 1 PROVE l[j + 1].target < l[q + 1].target
  BY <1>1, <1>3
<1>4. BeginsRun(l, q)
  BY <1>2, <1>3 DEF BeginsRun
<1> QED BY <1>4 DEF q

(***************************************************************************)
(* The cuts of the left span: they start at 0, end at its length, never    *)
(* decrease, and each inner cut is the first entry of a run of equal keys. *)
(***************************************************************************)
CutsOf(l, n, ls) ==
  /\ ls \in [0 .. n -> 0 .. Len(l)]
  /\ ls[0] = 0 /\ ls[n] = Len(l)
  /\ \A i \in 1 .. n - 1 : BeginsRun(l, ls[i])
  /\ \A i, j \in 0 .. n : i <= j => ls[i] <= ls[j]

\* Every left cut begins a run, and the cuts are in order (l_splits).
LEMMA LeftSplitsCut ==
  ASSUME NEW l \in Seq(SpanEntry), SortedSpan(l), Len(l) > 0,
         NEW n \in 1 .. Len(l)
  PROVE  CutsOf(l, n, LeftSplits(l, n))
<1> DEFINE base   == Len(l) \div n
           at(i)  == Min({i * base, Len(l) - 1})
           cut(i) == RunStart(l, at(i))
           C(i)   == {cut(m) : m \in 1 .. i}
           ls     == LeftSplits(l, n)
<1>1. base \in Nat
  OBVIOUS
<1>2. ASSUME NEW i \in Nat PROVE at(i) \in 0 .. Len(l) - 1
  <2>1. i * base \in Nat
    BY <1>1
  <2> HIDE DEF base
  <2>2. Len(l) - 1 \in Nat
    OBVIOUS
  <2>3. at(i) = IF i * base <= Len(l) - 1 THEN i * base ELSE Len(l) - 1
    BY <2>1, <2>2, MinPair
  <2> QED BY <2>1, <2>2, <2>3
<1> HIDE DEF base, at
<1>3. \A i \in Nat : BeginsRun(l, cut(i)) /\ cut(i) \in 0 .. Len(l) - 1
  BY <1>2, RunStartBegins DEF BeginsRun
<1> HIDE DEF cut
<1>4. ASSUME NEW i \in Nat \ {0}
      PROVE  Max(C(i)) \in C(i) /\ \A y \in C(i) : y <= Max(C(i))
  <2>1. C(i) \subseteq Nat /\ C(i) # {} /\ \A x \in C(i) : x <= Len(l)
    <3>1. ASSUME NEW m \in 1 .. i PROVE cut(m) \in Nat /\ cut(m) <= Len(l)
      <4>1. m \in Nat
        OBVIOUS
      <4>2. cut(m) \in 0 .. Len(l) - 1 /\ Len(l) \in Nat
        <5>1. Len(l) \in Nat OBVIOUS
        <5>2. cut(m) \in 0 .. Len(l) - 1 BY <4>1, <1>3, Zenon
        <5> QED BY <5>1, <5>2
      <4> QED BY <4>2
    <3>2. cut(1) \in C(i)
      OBVIOUS
    <3> QED BY <3>1, <3>2
  <2>2. Len(l) \in Nat
    OBVIOUS
  <2> HIDE DEF C
  <2> QED BY <2>1, <2>2, MaxNat
<1>5. ls = [i \in 0 .. n |-> IF i = 0 THEN 0
                            ELSE IF i = n THEN Len(l) ELSE Max(C(i))]
  BY DEF LeftSplits, cut, at, base
<1> HIDE DEF ls
<1>6. ASSUME NEW i \in 1 .. n - 1
      PROVE  BeginsRun(l, ls[i]) /\ ls[i] \in 0 .. Len(l) - 1
  <2>1. ls[i] = Max(C(i)) /\ i \in Nat \ {0}
    BY <1>5
  <2>2. PICK m \in 1 .. i : ls[i] = cut(m)
    BY <1>4, <2>1
  <2>3. m \in Nat
    OBVIOUS
  <2> QED BY <1>3, <2>2, <2>3
<1>7. ASSUME NEW i \in 0 .. n, NEW j \in 0 .. n, i <= j
      PROVE  ls[i] <= ls[j]
  <2>1. CASE i = 0 \/ j = n \/ i = n
    <3>1. ls[0] = 0 /\ ls[n] = Len(l)
      BY <1>5
    <3>2. \A m \in 0 .. n : ls[m] \in 0 .. Len(l)
      BY <1>6, <3>1
    <3>3. i = n => j = n
      BY <1>7
    <3> QED BY <2>1, <3>1, <3>2, <3>3
  <2>2. CASE i # 0 /\ j # n /\ i # n
    <3>1. /\ ls[i] = Max(C(i)) /\ ls[j] = Max(C(j))
          /\ i \in Nat \ {0} /\ j \in Nat \ {0}
      BY <1>5, <2>2, <1>7
    <3>2. C(i) \subseteq C(j)
      BY <1>7
    <3> QED BY <1>4, <3>1, <3>2
  <2> QED BY <2>1, <2>2
<1>8. ls \in [0 .. n -> 0 .. Len(l)] /\ ls[0] = 0 /\ ls[n] = Len(l)
  <2>1. ls[0] = 0 /\ ls[n] = Len(l)
    BY <1>5
  <2>2. \A i \in 0 .. n : ls[i] \in 0 .. Len(l)
    BY <1>6, <2>1
  <2> QED BY <1>5, <2>1, <2>2
<1> QED BY <1>6, <1>7, <1>8 DEF CutsOf, ls

(***************************************************************************)
(* An inner cut of the right span is the lower bound of the key at the     *)
(* left cut: smaller keys before it, equal or larger ones from it on,      *)
(* wherever the three scans started.                                       *)
(***************************************************************************)
LowerBound(r, want, c) ==
  /\ c \in 0 .. Len(r)
  /\ \A b \in 0 .. Len(r) - 1 : b < c <=> r[b + 1].target < want

\* A right cut separates the entries below the left cut's target from the others
\* (r_splits): the three scans together find the lower bound.
LEMMA RightSplitLowerBound ==
  ASSUME NEW l, NEW r \in Seq(SpanEntry), SortedSpan(r), Len(r) > 0,
         NEW n \in Nat \ {0}, NEW i \in Nat,
         l[LeftSplits(l, n)[i] + 1].target \in Nat
  PROVE  LowerBound(r, l[LeftSplits(l, n)[i] + 1].target, RightSplit(l, r, n, i))
<1> DEFINE want  == l[LeftSplits(l, n)[i] + 1].target
           first == Min({(Len(r) * i) \div n, Len(r) - 1})
           D     == {j \in 0 .. first : j = 0 \/ want >= r[j + 1].target}
           down  == Max(D)
           back  == IF r[down + 1].target = want THEN RunStart(r, down) ELSE down
           U     == {j \in back .. Len(r) : j = Len(r) \/ want <= r[j + 1].target}
           c     == RightSplit(l, r, n, i)
<1>0. /\ Len(r) \in Nat
      /\ \A j \in 0 .. Len(r) - 1 : r[j + 1].target \in Nat
      /\ \A a, b \in 0 .. Len(r) - 1 : a <= b => r[a + 1].target <= r[b + 1].target
  <2>1. \A j \in 0 .. Len(r) - 1 : r[j + 1] \in SpanEntry
    OBVIOUS
  <2> QED BY <2>1 DEF SpanEntry, SortedSpan
<1>1. c = Min(U)
  BY DEF RightSplit
<1>w. want \in Nat
  OBVIOUS
<1> HIDE DEF want, c
<1>2. first \in 0 .. Len(r) - 1
  <2>1. (Len(r) * i) \div n \in Nat
    <3>1. Len(r) * i \in Nat
      OBVIOUS
    <3> QED BY <3>1
  <2>2. Len(r) - 1 \in Nat
    OBVIOUS
  <2> QED BY <2>1, <2>2, MinPair
<1> HIDE DEF first
<1>3. D \subseteq Nat /\ 0 \in D /\ (\A x \in D : x <= first) /\ first \in Nat
  BY <1>2
<1>4. down \in D
  <2> HIDE DEF D
  <2> QED BY <1>3, MaxNat
<1> HIDE DEF down
<1>5. /\ down \in 0 .. Len(r) - 1
      /\ down = 0 \/ want >= r[down + 1].target
  BY <1>2, <1>4
<1>6. /\ back \in 0 .. down
      /\ \A b \in 0 .. back - 1 : r[b + 1].target < want
  <2>1. CASE r[down + 1].target = want
    <3>1. back = RunStart(r, down)
      BY <2>1
    <3> HIDE DEF back
    <3> QED BY <1>5, <2>1, <3>1, RunStartFirst
  <2>2. CASE r[down + 1].target # want
    <3>1. back = down
      BY <2>2
    <3>2. ASSUME NEW b \in 0 .. down - 1 PROVE r[b + 1].target < want
      <4>1. b \in 0 .. Len(r) - 1 /\ b <= down /\ down # 0
        BY <1>5
      <4>2. r[b + 1].target <= r[down + 1].target
        BY <4>1, <1>5, <1>0
      <4>3. r[b + 1].target \in Nat /\ r[down + 1].target \in Nat
        BY <4>1, <1>5, <1>0
      <4>4. r[down + 1].target < want
        BY <4>1, <4>3, <2>2, <1>5, <1>w
      <4> QED BY <4>2, <4>3, <4>4, <1>w
    <3> HIDE DEF back
    <3> QED BY <1>5, <3>1, <3>2
  <2> QED BY <2>1, <2>2
<1> HIDE DEF back
<1>7. U \subseteq Nat /\ Len(r) \in U
  BY <1>0, <1>5, <1>6
<1>8. c \in U /\ \A y \in U : c <= y
  <2> HIDE DEF U
  <2> QED BY <1>1, <1>7, MinNat
<1>9. ASSUME NEW b \in 0 .. Len(r) - 1
      PROVE  b < c <=> r[b + 1].target < want
  <2>0. c \in Nat /\ back <= c /\ r[b + 1].target \in Nat /\ back \in Nat
    BY <1>0, <1>5, <1>6, <1>8
  <2>1. CASE b < back
    BY <1>6, <2>0, <2>1
  <2>2. CASE back <= b /\ b < c
    <3>1. b \notin U
      BY <1>8, <2>0, <2>2
    <3> QED BY <3>1, <2>0, <2>2, <1>w
  <2>3. CASE c <= b
    <3>1. c \in 0 .. Len(r) - 1 /\ want <= r[c + 1].target
      BY <1>8, <2>0, <2>3
    <3>2. r[c + 1].target <= r[b + 1].target /\ r[c + 1].target \in Nat
      BY <1>0, <2>3, <3>1
    <3> QED BY <3>1, <3>2, <2>0, <2>3, <1>w
  <2> QED BY <2>0, <2>1, <2>2, <2>3
<1>10. c \in 0 .. Len(r)
  BY <1>8, <1>0, <1>5, <1>6
<1> QED BY <1>9, <1>10 DEF LowerBound, want, c

\* Ranges of positions of l and r, and the pairs of positions of a range.
RangesOf(l, r, sp) ==
  sp \in [DOMAIN sp -> [lb : 0 .. Len(l), le : 0 .. Len(l),
                        rb : 0 .. Len(r), re : 0 .. Len(r)]]

InRange(g, a, b) == g.lb <= a /\ a < g.le /\ g.rb <= b /\ b < g.re

(***************************************************************************)
(* The division of a group is complete and disjoint: two candidates with   *)
(* equal keys fall into the ranges of one thread and of one thread only.   *)
(* So no pairing is lost at a cut and none is found twice, for any sorted  *)
(* spans and any number of threads (make_splits_simple).                   *)
(***************************************************************************)
CoversOnce(l, r, sp) ==
  \A a \in 0 .. Len(l) - 1, b \in 0 .. Len(r) - 1 :
    l[a + 1].target = r[b + 1].target =>
      /\ \E i \in DOMAIN sp : InRange(sp[i], a, b)
      /\ \A i, j \in DOMAIN sp :
           InRange(sp[i], a, b) /\ InRange(sp[j], a, b) => i = j

\* The ranges of make_splits_simple cover every pair of equal targets exactly once,
\* for all sorted candidates and any number of threads.
THEOREM SplitsCoverOnce ==
  ASSUME NEW l \in Seq(SpanEntry), SortedSpan(l), Len(l) > 0,
         NEW r \in Seq(SpanEntry), SortedSpan(r), Len(r) > 0,
         NEW threads \in Nat \ {0}
  PROVE  /\ DOMAIN Splits(l, r, threads) \subseteq 0 .. threads - 1
         /\ RangesOf(l, r, Splits(l, r, threads))
         /\ CoversOnce(l, r, Splits(l, r, threads))
<1> DEFINE n  == Min({threads, Len(l)})
           ls == LeftSplits(l, n)
           rs == RightSplits(l, r, n)
           sp == Splits(l, r, threads)
<1>1. n \in 1 .. Len(l) /\ n <= threads
  BY MinPair
<1>2. sp = [i \in 0 .. n - 1 |-> [lb |-> ls[i], le |-> ls[i + 1],
                                 rb |-> rs[i], re |-> rs[i + 1]]]
  BY DEF Splits
<1> HIDE DEF n, sp
<1>3. CutsOf(l, n, ls)
  BY <1>1, LeftSplitsCut
<1>4. /\ Len(l) \in Nat /\ Len(r) \in Nat
      /\ \A a \in 0 .. Len(l) - 1 : l[a + 1].target \in Nat
      /\ \A b \in 0 .. Len(r) - 1 : r[b + 1].target \in Nat
  <2>1. \A a \in 0 .. Len(l) - 1 : l[a + 1] \in SpanEntry
    OBVIOUS
  <2>2. \A b \in 0 .. Len(r) - 1 : r[b + 1] \in SpanEntry
    OBVIOUS
  <2> QED BY <2>1, <2>2 DEF SpanEntry
<1>5. /\ rs[0] = 0 /\ rs[n] = Len(r)
      /\ \A i \in 1 .. n - 1 : LowerBound(r, l[ls[i] + 1].target, rs[i])
  <2>1. rs = [i \in 0 .. n |-> IF i = 0 THEN 0
                              ELSE IF i = n THEN Len(r) ELSE RightSplit(l, r, n, i)]
    BY DEF RightSplits
  <2>2. ASSUME NEW i \in 1 .. n - 1
        PROVE  LowerBound(r, l[ls[i] + 1].target, RightSplit(l, r, n, i))
    <3>1. ls[i] \in 0 .. Len(l) - 1 /\ n \in Nat \ {0} /\ i \in Nat
      BY <1>1, <1>3 DEF CutsOf, BeginsRun
    <3> QED BY <3>1, <1>4, RightSplitLowerBound
  <2> HIDE DEF rs
  <2>3. rs[0] = 0 /\ rs[n] = Len(r)
    BY <1>1, <2>1
  <2>4. \A i \in 1 .. n - 1 : rs[i] = RightSplit(l, r, n, i)
    BY <1>1, <2>1
  <2> QED BY <2>2, <2>3, <2>4
<1> HIDE DEF ls, rs
<1>6. \A i \in 0 .. n : ls[i] \in 0 .. Len(l) /\ rs[i] \in 0 .. Len(r)
  <2>1. \A i \in 0 .. n : ls[i] \in 0 .. Len(l)
    BY <1>3 DEF CutsOf
  <2>2. \A i \in 1 .. n - 1 : rs[i] \in 0 .. Len(r)
    BY <1>5 DEF LowerBound
  <2>3. rs[0] \in 0 .. Len(r) /\ rs[n] \in 0 .. Len(r)
    BY <1>4, <1>5
  <2>4. \A i \in 0 .. n : i = 0 \/ i = n \/ i \in 1 .. n - 1
    BY <1>1
  <2> QED BY <2>1, <2>2, <2>3, <2>4
<1>7. RangesOf(l, r, sp) /\ DOMAIN sp = 0 .. n - 1
  BY <1>1, <1>2, <1>6 DEF RangesOf
<1>8. ASSUME NEW a \in 0 .. Len(l) - 1, NEW b \in 0 .. Len(r) - 1,
             l[a + 1].target = r[b + 1].target,
             NEW i \in 0 .. n - 1, ls[i] <= a, a < ls[i + 1]
      PROVE  rs[i] <= b /\ b < rs[i + 1]
  <2>1. rs[i] <= b
    <3>1. CASE i = 0
      BY <1>5, <3>1
    <3>2. CASE i # 0
      <4>1. LowerBound(r, l[ls[i] + 1].target, rs[i])
        BY <1>5, <3>2
      <4>2. ls[i] \in 0 .. Len(l) - 1
        BY <1>3, <3>2 DEF CutsOf, BeginsRun
      <4>3. l[ls[i] + 1].target <= l[a + 1].target
        <5>1. ls[i] + 1 \in 1 .. Len(l) /\ a + 1 \in 1 .. Len(l) /\ ls[i] + 1 <= a + 1
          BY <4>2, <1>4, <1>8
        <5> QED BY <5>1 DEF SortedSpan
      <4>4. ~ (r[b + 1].target < l[ls[i] + 1].target)
        <5>1. l[ls[i] + 1].target \in Nat
          BY <4>2, <1>4
        <5>2. r[b + 1].target \in Nat /\ l[a + 1].target = r[b + 1].target
          BY <1>4, <1>8
        <5> QED BY <5>1, <5>2, <4>3
      <4> QED BY <4>1, <4>4, <1>4, <1>6, <1>8 DEF LowerBound
    <3> QED BY <3>1, <3>2
  <2>2. b < rs[i + 1]
    <3>1. CASE i = n - 1
      BY <1>1, <1>4, <1>5, <3>1
    <3>2. CASE i # n - 1
      <4>0. i + 1 \in 1 .. n - 1
        BY <3>2, <1>1
      <4>1. LowerBound(r, l[ls[i + 1] + 1].target, rs[i + 1])
        BY <1>5, <4>0
      <4>2. BeginsRun(l, ls[i + 1])
        BY <1>3, <4>0 DEF CutsOf
      <4>3. l[a + 1].target < l[ls[i + 1] + 1].target
        BY <4>2, <1>8, <1>4 DEF BeginsRun
      <4> QED BY <4>1, <4>3, <1>8 DEF LowerBound
    <3> QED BY <3>1, <3>2
  <2> QED BY <2>1, <2>2
<1>9. ASSUME NEW a \in 0 .. Len(l) - 1, NEW b \in 0 .. Len(r) - 1,
             l[a + 1].target = r[b + 1].target
      PROVE  /\ \E i \in DOMAIN sp : InRange(sp[i], a, b)
             /\ \A i, j \in DOMAIN sp :
                  InRange(sp[i], a, b) /\ InRange(sp[j], a, b) => i = j
  <2> DEFINE S == {i \in 0 .. n - 1 : ls[i] <= a}
             i0 == Max(S)
  <2>1. S \subseteq Nat /\ 0 \in S /\ (\A x \in S : x <= n) /\ n \in Nat
    BY <1>1, <1>3 DEF CutsOf
  <2>2. i0 \in S /\ \A y \in S : y <= i0
    <3> HIDE DEF S
    <3> QED BY <2>1, MaxNat
  <2> HIDE DEF i0
  <2>3. a < ls[i0 + 1]
    <3>1. CASE i0 = n - 1
      BY <1>1, <1>3, <1>4, <3>1 DEF CutsOf
    <3>2. CASE i0 # n - 1
      <4>1. i0 + 1 \in 0 .. n - 1 /\ i0 + 1 \notin S
        BY <1>1, <2>2, <3>2
      <4> QED BY <4>1, <1>6, <1>1
    <3> QED BY <3>1, <3>2
  <2>4. InRange(sp[i0], a, b) /\ i0 \in DOMAIN sp
    BY <1>2, <1>7, <1>8, <1>9, <2>2, <2>3 DEF InRange
  <2>5. ASSUME NEW i \in DOMAIN sp, NEW j \in DOMAIN sp,
               InRange(sp[i], a, b), InRange(sp[j], a, b), i < j
        PROVE  FALSE
    <3>1. i + 1 \in 0 .. n /\ j \in 0 .. n /\ i + 1 <= j /\ i \in 0 .. n - 1 /\ j \in 0 .. n - 1
      BY <1>1, <1>7, <2>5
    <3>2. ls[i + 1] <= ls[j]
      BY <1>3, <3>1 DEF CutsOf
    <3>3. a < ls[i + 1] /\ ls[j] <= a
      BY <1>2, <2>5, <3>1 DEF InRange
    <3> QED BY <1>6, <3>1, <3>2, <3>3
  <2>6. \A i \in DOMAIN sp : i \in Int
    BY <1>7
  <2> QED BY <2>4, <2>5, <2>6
<1>10. CoversOnce(l, r, sp)
  BY <1>9 DEF CoversOnce
<1> QED BY <1>1, <1>7, <1>10 DEF sp

-----------------------------------------------------------------------------
(* Sorting the left candidates.                                            *)

\* Ranks run through all positions, in the order of the sort.
LEMMA RankBijective ==
  ASSUME NEW l \in Seq(SpanEntry)
  PROVE  /\ Rank(l) \in [1 .. Len(l) -> 1 .. Len(l)]
         /\ \A i, j \in 1 .. Len(l) :
              j # i /\ Precedes(l, j, i) => Rank(l)[j] < Rank(l)[i]
         /\ \A p \in 1 .. Len(l) : \E i \in 1 .. Len(l) : Rank(l)[i] = p
<1> DEFINE N == 1 .. Len(l)
           B == [i \in N |-> {j \in N : Precedes(l, j, i)}]
<1>0. /\ Len(l) \in Nat
      /\ \A i \in N : l[i].target \in Nat
  <2>1. \A i \in N : l[i] \in SpanEntry
    OBVIOUS
  <2> QED BY <2>1 DEF SpanEntry
<1>1. IsFiniteSet(N) /\ Cardinality(N) = Len(l)
  <2>1. 1 \in Int /\ Len(l) \in Int
    BY <1>0
  <2>2. /\ IsFiniteSet(1 .. Len(l))
        /\ Cardinality(1 .. Len(l)) = IF 1 > Len(l) THEN 0 ELSE Len(l) - 1 + 1
    BY <2>1, FS_Interval
  <2> QED BY <2>2, <1>0
<1>2. /\ \A i, j \in N : Precedes(l, i, i) /\ (Precedes(l, i, j) \/ Precedes(l, j, i))
      /\ \A i, j \in N : Precedes(l, i, j) /\ Precedes(l, j, i) => i = j
      /\ \A h, i, j \in N : Precedes(l, h, i) /\ Precedes(l, i, j) => Precedes(l, h, j)
  BY <1>0 DEF Precedes
<1>3. Rank(l) = [i \in N |-> Cardinality(B[i])]
  <2>1. DOMAIN l = N
    BY <1>0
  <2>2. \A i \in N : B[i] = {j \in DOMAIN l : Precedes(l, j, i)}
    BY <2>1
  <2> HIDE DEF N, B
  <2> QED BY <2>1, <2>2 DEF Rank
<1>4. ASSUME NEW i \in N
      PROVE  /\ B[i] \in SUBSET N /\ i \in B[i] /\ IsFiniteSet(B[i])
             /\ Cardinality(B[i]) \in N
  <2>1. B[i] \in SUBSET N /\ i \in B[i]
    BY <1>2
  <2> HIDE DEF B, N
  <2>2. IsFiniteSet(B[i]) /\ Cardinality(B[i]) <= Cardinality(N)
    BY <2>1, <1>1, FS_Subset
  <2>3. Cardinality(B[i]) \in Nat /\ Cardinality(B[i]) # 0
    BY <2>1, <2>2, FS_CardinalityType, FS_EmptySet
  <2> QED BY <1>1, <2>1, <2>2, <2>3 DEF N
<1>5. Rank(l) \in [N -> N]
  <2> HIDE DEF B, N
  <2> QED BY <1>3, <1>4
<1>6. ASSUME NEW i \in N, NEW j \in N, j # i, Precedes(l, j, i)
      PROVE  Rank(l)[j] < Rank(l)[i]
  <2>1. B[j] \in SUBSET B[i] /\ i \notin B[j]
    BY <1>2, <1>6
  <2> HIDE DEF B, N
  <2>2. /\ Cardinality(B[j]) <= Cardinality(B[i])
        /\ Cardinality(B[i]) = Cardinality(B[j]) => B[i] = B[j]
    BY <1>4, <2>1, FS_Subset
  <2>3. Cardinality(B[j]) \in Nat /\ Cardinality(B[i]) \in Nat
    BY <1>4, FS_CardinalityType
  <2> QED BY <1>3, <1>4, <2>1, <2>2, <2>3
<1>7. Rank(l) \in Injection(N, N)
  <2>1. ASSUME NEW i \in N, NEW j \in N, i # j PROVE Rank(l)[i] # Rank(l)[j]
    <3>1. Precedes(l, i, j) \/ Precedes(l, j, i)
      BY <1>2
    <3>2. Rank(l)[i] < Rank(l)[j] \/ Rank(l)[j] < Rank(l)[i]
      <4> HIDE DEF N
      <4> QED BY <2>1, <3>1, <1>6
    <3> QED BY <3>2, <1>5
  <2>2. DOMAIN Rank(l) = N
    BY <1>5
  <2> HIDE DEF N
  <2> QED BY <2>1, <2>2, <1>5 DEF Injection, IsInjective
<1>8. Rank(l) \in Surjection(N, N)
  <2> HIDE DEF N
  <2> QED BY <1>1, <1>7, FS_Injection
<1>9. \A p \in N : \E i \in N : Rank(l)[i] = p
  <2> HIDE DEF N
  <2> QED BY <1>8 DEF Surjection
<1> QED BY <1>5, <1>6, <1>9

(***************************************************************************)
(* Sorting the left candidates keeps every one of them and orders them by  *)
(* key: the sorted span is a rearrangement of the unsorted one.            *)
(***************************************************************************)
LEMMA StableSortPermutes ==
  ASSUME NEW l \in Seq(SpanEntry)
  PROVE  /\ StableSort(l) \in Seq(SpanEntry)
         /\ Len(StableSort(l)) = Len(l)
         /\ SortedSpan(StableSort(l))
         /\ \E f \in Bijection(1 .. Len(l), 1 .. Len(l)) :
              \A p \in 1 .. Len(l) : StableSort(l)[p] = l[f[p]]
<1> DEFINE N == 1 .. Len(l)
           f == [p \in N |-> CHOOSE i \in N : Rank(l)[i] = p]
           s == StableSort(l)
<1>0. /\ Len(l) \in Nat /\ DOMAIN l = N
      /\ \A i \in N : l[i] \in SpanEntry /\ l[i].target \in Nat
  <2>1. \A i \in N : l[i] \in SpanEntry
    OBVIOUS
  <2> QED BY <2>1 DEF SpanEntry
<1>1. s = [p \in N |-> l[f[p]]]
  BY <1>0 DEF StableSort
<1>2. ASSUME NEW p \in N PROVE f[p] \in N /\ Rank(l)[f[p]] = p
  <2>1. \E i \in N : Rank(l)[i] = p
    BY RankBijective
  <2> QED BY <2>1
<1> HIDE DEF f, s
<1>3. DOMAIN f = N
  BY DEF f
<1>4. s \in Seq(SpanEntry) /\ Len(s) = Len(l)
  BY <1>0, <1>1, <1>2
<1>5. ASSUME NEW p \in N, NEW q \in N, p <= q
      PROVE  s[p].target <= s[q].target
  <2>1. Precedes(l, f[p], f[q])
    <3>1. Precedes(l, f[p], f[q]) \/ Precedes(l, f[q], f[p])
      BY <1>0, <1>2 DEF Precedes
    <3>2. CASE f[q] = f[p]
      BY <1>0, <1>2, <3>2 DEF Precedes
    <3>3. CASE f[q] # f[p] /\ Precedes(l, f[q], f[p])
      <4>1. Rank(l)[f[q]] < Rank(l)[f[p]]
        BY <1>2, <3>3, RankBijective
      <4>2. q < p
        BY <1>2, <4>1
      <4> QED BY <4>2, <1>5
    <3> QED BY <3>1, <3>2, <3>3
  <2>2. l[f[p]].target <= l[f[q]].target
    BY <2>1, <1>0, <1>2 DEF Precedes
  <2> QED BY <2>2, <1>1
<1>6. SortedSpan(s)
  BY <1>4, <1>5 DEF SortedSpan
<1>7. f \in Bijection(N, N)
  <2>1. f \in [N -> N] /\ \A p, q \in N : f[p] = f[q] => p = q
    BY <1>2, <1>3 DEF f
  <2>2. \A t \in N : f[Rank(l)[t]] = t
    <3> TAKE t \in N
    <3> DEFINE p == Rank(l)[t]
    <3>1. p \in N /\ f[p] \in N /\ Rank(l)[f[p]] = Rank(l)[t]
      BY <1>2, RankBijective
    <3>2. f[p] # t => Precedes(l, f[p], t) \/ Precedes(l, t, f[p])
      BY <3>1, <1>0 DEF Precedes
    <3>3. f[p] # t => Rank(l)[f[p]] < Rank(l)[t] \/ Rank(l)[t] < Rank(l)[f[p]]
      BY <3>1, <3>2, RankBijective
    <3>4. Rank(l)[t] \in Nat
      BY <3>1
    <3> QED BY <3>1, <3>3, <3>4
  <2>3. \A t \in N : Rank(l)[t] \in N
    BY RankBijective
  <2> HIDE DEF N
  <2> QED BY <2>1, <2>2, <2>3 DEF Bijection, Injection, Surjection, IsInjective
<1> QED BY <1>1, <1>4, <1>6, <1>7 DEF s

-----------------------------------------------------------------------------
(* Cutting a match-key group out of the previous table.                    *)

\* The fields of an entry are numbers, and so is any target it expects.
LEMMA EntryFields ==
  ASSUME NEW x \in Entry
  PROVE  /\ MatchKeys \in Nat \ {0}
         /\ x.section \in Int /\ x.section \in Sections
         /\ x.key \in Int /\ x.key \in 0 .. MatchKeys - 1
         /\ x.target \in Nat
         /\ \A m \in 0 .. MatchKeys - 1 : TargetOf[x.meta][m] \in Nat
<1>1. /\ MatchKeys \in Nat \ {0}
      /\ Targets \subseteq Nat
      /\ TargetOf \in [Metas -> [0 .. MatchKeys - 1 -> Targets]]
  BY MatchAssumption, Zenon
<1>2. /\ x.section \in Sections /\ x.key \in 0 .. MatchKeys - 1
      /\ x.target \in Targets /\ x.meta \in Metas
  BY DEF Entry
<1>3. ASSUME NEW m \in 0 .. MatchKeys - 1 PROVE TargetOf[x.meta][m] \in Nat
  BY <1>1, <1>2
<1>4. x.section \in Int /\ x.key \in Int
  BY <1>1, <1>2 DEF Sections
<1>5. x.target \in Nat
  BY <1>1, <1>2
<1> QED BY <1>1, <1>2, <1>3, <1>4, <1>5


(***************************************************************************)
(* In a sorted table the counted prefixes are positions: prefix[s][m]      *)
(* separates the entries before section s, key m from those at or after.   *)
(***************************************************************************)
LEMMA PrefixSeparates ==
  ASSUME NEW table \in Seq(Entry), SortedTable(table),
         NEW s \in Sections, NEW m \in 0 .. MatchKeys
  PROVE  /\ CandidatePrefixes(table)[s][m] \in 0 .. Len(table)
         /\ \A i \in 1 .. Len(table) :
              i <= CandidatePrefixes(table)[s][m] <=> ComesBefore(table[i], s, m)
<1> DEFINE S == {i \in DOMAIN table : ComesBefore(table[i], s, m)}
           k == CandidatePrefixes(table)[s][m]
<1>0. /\ Len(table) \in Nat /\ DOMAIN table = 1 .. Len(table)
      /\ MatchKeys \in Nat
      /\ \A i \in DOMAIN table : table[i].section \in Int /\ table[i].key \in Int /\ table[i].target \in Int
  <2>1. ASSUME NEW i \in DOMAIN table
        PROVE  /\ table[i].section \in Int /\ table[i].key \in Int
               /\ table[i].target \in Int
    <3>1. table[i] \in Entry
      OBVIOUS
    <3> QED BY <3>1, EntryFields
  <2>2. MatchKeys \in Nat
    BY MatchAssumption, Zenon
  <2> QED BY <2>1, <2>2
<1>1. k = Cardinality(S)
  BY DEF CandidatePrefixes
<1>2. \A i, j \in DOMAIN table : i <= j /\ j \in S => i \in S
  <2>1. \A i, j \in DOMAIN table : i <= j => MatchInfoLeq(table[i], table[j])
    BY DEF SortedTable
  <2>2. s \in Int /\ m \in Int
    BY <1>0 DEF Sections
  <2> QED BY <1>0, <2>1, <2>2 DEF MatchInfoLeq, ComesBefore
<1> HIDE DEF k
<1>3. S \subseteq 1 .. Len(table)
  BY <1>0
<1>4. \E x \in 0 .. Len(table) : S = 1 .. x
  <2>1. CASE S = {}
    <3>1. S = 1 .. 0 /\ 0 \in 0 .. Len(table)
      BY <2>1, <1>0
    <3> HIDE DEF S
    <3> QED BY <3>1
  <2>2. CASE S # {}
    <3>1. Max(S) \in S /\ \A y \in S : y <= Max(S)
      <4>1. S \subseteq Nat /\ \A x \in S : x <= Len(table)
        BY <1>0, <1>3
      <4> HIDE DEF S
      <4> QED BY <4>1, <2>2, <1>0, MaxNat
    <3>2. Max(S) \in 1 .. Len(table)
      BY <1>3, <3>1
    <3>3. \A i \in 1 .. Max(S) : i \in S
      BY <1>0, <1>2, <3>1, <3>2
    <3> DEFINE x == Max(S)
    <3> HIDE DEF x
    <3>4. x \in 1 .. Len(table) /\ (\A y \in S : y <= x) /\ (\A i \in 1 .. x : i \in S)
      BY <3>1, <3>2, <3>3 DEF x
    <3> HIDE DEF S
    <3>5. \A y \in S : y \in 1 .. x
      BY <1>3, <3>4
    <3>6. S = 1 .. x
      BY <3>4, <3>5
    <3>7. x \in 0 .. Len(table)
      BY <3>4
    <3> QED BY <3>6, <3>7
  <2> QED BY <2>1, <2>2
<1>5. PICK x \in 0 .. Len(table) : S = 1 .. x
  BY <1>4
<1>6. k = x
  <2>1. 1 \in Int /\ x \in Int
    BY <1>0
  <2>2. Cardinality(1 .. x) = IF 1 > x THEN 0 ELSE x - 1 + 1
    BY <2>1, FS_Interval
  <2> HIDE DEF S
  <2> QED BY <1>1, <1>5, <2>1, <2>2
<1>7. \A i \in 1 .. Len(table) : i <= k <=> ComesBefore(table[i], s, m)
  BY <1>0, <1>5, <1>6
<1> QED BY <1>5, <1>6, <1>7 DEF k

(***************************************************************************)
(* The left span of a group is exactly the entries of section_l, each      *)
(* with the target it expects under the match key; the right span is       *)
(* exactly the entries of section_r with that key, in sorted order.        *)
(***************************************************************************)
LEMMA LeftTargetsAre ==
  ASSUME NEW table \in Seq(Entry), SortedTable(table),
         NEW sec \in Sections, NEW m \in 0 .. MatchKeys - 1
  PROVE  LET l == LeftTargets(table, sec, m)
         IN  /\ l \in Seq(SpanEntry)
             /\ \A p \in 1 .. Len(l) :
                  /\ l[p].pos \in 1 .. Len(table)
                  /\ table[l[p].pos].section = sec
                  /\ l[p].target = TargetOf[table[l[p].pos].meta][m]
             /\ \A p, q \in 1 .. Len(l) : l[p].pos = l[q].pos => p = q
             /\ \A i \in 1 .. Len(table) : table[i].section = sec =>
                  \E p \in 1 .. Len(l) : l[p].pos = i
<1> DEFINE b == CandidatePrefixes(table)[sec][0]
           e == CandidatePrefixes(table)[sec][MatchKeys]
           l == LeftTargets(table, sec, m)
<1>0. /\ MatchKeys \in Nat \ {0} /\ Len(table) \in Nat
      /\ \A i \in 1 .. Len(table) : /\ table[i].section \in Int
                                   /\ table[i].key \in 0 .. MatchKeys - 1
                                   /\ TargetOf[table[i].meta][m] \in Nat
  <2>1. ASSUME NEW i \in 1 .. Len(table)
        PROVE  /\ table[i].section \in Int
               /\ table[i].key \in 0 .. MatchKeys - 1
               /\ TargetOf[table[i].meta][m] \in Nat
    <3>1. table[i] \in Entry
      OBVIOUS
    <3> QED BY <3>1, EntryFields
  <2>2. MatchKeys \in Nat \ {0}
    BY MatchAssumption, Zenon
  <2> QED BY <2>1, <2>2
<1>1. l = [i \in 1 .. e - b |-> [pos |-> b + i, target |-> TargetOf[table[b + i].meta][m]]]
  BY DEF LeftTargets
<1>2. /\ b \in 0 .. Len(table)
      /\ \A i \in 1 .. Len(table) : i <= b <=> ComesBefore(table[i], sec, 0)
  <2>1. 0 \in 0 .. MatchKeys
    BY <1>0
  <2> QED BY <2>1, PrefixSeparates
<1>3. /\ e \in 0 .. Len(table)
      /\ \A i \in 1 .. Len(table) : i <= e <=> ComesBefore(table[i], sec, MatchKeys)
  <2>1. MatchKeys \in 0 .. MatchKeys
    BY <1>0
  <2> QED BY <2>1, PrefixSeparates
<1> HIDE DEF b, e, l
<1>4. \A i \in 1 .. Len(table) : b < i /\ i <= e <=> table[i].section = sec
  BY <1>0, <1>2, <1>3 DEF ComesBefore, Sections
<1>5. b <= e
  <2>1. CASE b = 0
    BY <1>2, <1>3, <2>1
  <2>2. CASE b # 0
    <3>1. ComesBefore(table[b], sec, 0) /\ b \in 1 .. Len(table)
      BY <1>2, <2>2
    <3>2. ComesBefore(table[b], sec, MatchKeys)
      BY <3>1, <1>0 DEF ComesBefore
    <3> QED BY <1>3, <3>1, <3>2
  <2> QED BY <2>1, <2>2
<1>6. e - b \in Nat
  BY <1>2, <1>3, <1>5
<1>7. \A i \in 1 .. e - b : b + i \in 1 .. Len(table) /\ b < b + i /\ b + i <= e
  BY <1>2, <1>3, <1>6
<1>8. l \in Seq(SpanEntry) /\ Len(l) = e - b
  <2>1. \A i \in 1 .. e - b : [pos |-> b + i, target |-> TargetOf[table[b + i].meta][m]] \in SpanEntry
    BY <1>0, <1>7 DEF SpanEntry
  <2> QED BY <1>1, <1>6, <2>1
<1>9. \A p \in 1 .. Len(l) : /\ l[p].pos = b + p
                            /\ l[p].target = TargetOf[table[b + p].meta][m]
  BY <1>1, <1>8
<1>10. ASSUME NEW i \in 1 .. Len(table), table[i].section = sec
       PROVE  \E p \in 1 .. Len(l) : l[p].pos = i
  <2>1. i - b \in 1 .. Len(l) /\ b + (i - b) = i
    BY <1>2, <1>3, <1>4, <1>8, <1>10
  <2>2. l[i - b].pos = b + (i - b)
    BY <2>1, <1>9
  <2>3. l[i - b].pos = i
    BY <2>1, <2>2
  <2> QED BY <2>1, <2>3, Zenon
<1>11. \A p, q \in 1 .. Len(l) : l[p].pos = l[q].pos => p = q
  BY <1>2, <1>6, <1>8, <1>9
<1>12. \A p \in 1 .. Len(l) : /\ l[p].pos \in 1 .. Len(table)
                             /\ table[l[p].pos].section = sec
                             /\ l[p].target = TargetOf[table[l[p].pos].meta][m]
  BY <1>4, <1>7, <1>8, <1>9
<1> QED BY <1>8, <1>10, <1>11, <1>12 DEF l

\* The right candidates are exactly the entries of their section and match key.
LEMMA RightCandidatesAre ==
  ASSUME NEW table \in Seq(Entry), SortedTable(table),
         NEW sr \in Sections, NEW m \in 0 .. MatchKeys - 1
  PROVE  LET r == RightCandidates(table, sr, m)
         IN  /\ r \in Seq(SpanEntry) /\ SortedSpan(r)
             /\ \A p \in 1 .. Len(r) :
                  /\ r[p].pos \in 1 .. Len(table)
                  /\ table[r[p].pos].section = sr /\ table[r[p].pos].key = m
                  /\ r[p].target = table[r[p].pos].target
             /\ \A p, q \in 1 .. Len(r) : r[p].pos = r[q].pos => p = q
             /\ \A i \in 1 .. Len(table) : table[i].section = sr /\ table[i].key = m =>
                  \E p \in 1 .. Len(r) : r[p].pos = i
<1> DEFINE b == CandidatePrefixes(table)[sr][m]
           e == CandidatePrefixes(table)[sr][m + 1]
           r == RightCandidates(table, sr, m)
<1>0. /\ MatchKeys \in Nat \ {0} /\ Len(table) \in Nat
      /\ \A i \in 1 .. Len(table) : /\ table[i].section \in Int
                                   /\ table[i].key \in Int
                                   /\ table[i].target \in Nat
  <2>1. ASSUME NEW i \in 1 .. Len(table)
        PROVE  /\ table[i].section \in Int
               /\ table[i].key \in Int
               /\ table[i].target \in Nat
    <3>1. table[i] \in Entry
      OBVIOUS
    <3> QED BY <3>1, EntryFields
  <2>2. MatchKeys \in Nat \ {0}
    BY MatchAssumption, Zenon
  <2> QED BY <2>1, <2>2
<1>1. r = [i \in 1 .. e - b |-> [pos |-> b + i, target |-> table[b + i].target]]
  BY DEF RightCandidates
<1>2. /\ b \in 0 .. Len(table)
      /\ \A i \in 1 .. Len(table) : i <= b <=> ComesBefore(table[i], sr, m)
  <2>1. m \in 0 .. MatchKeys
    BY <1>0
  <2> QED BY <2>1, PrefixSeparates
<1>3. /\ e \in 0 .. Len(table)
      /\ \A i \in 1 .. Len(table) : i <= e <=> ComesBefore(table[i], sr, m + 1)
  <2>1. m + 1 \in 0 .. MatchKeys
    BY <1>0
  <2> QED BY <2>1, PrefixSeparates
<1> HIDE DEF b, e, r
<1>4. \A i \in 1 .. Len(table) :
        b < i /\ i <= e <=> table[i].section = sr /\ table[i].key = m
  BY <1>0, <1>2, <1>3 DEF ComesBefore, Sections
<1>5. b <= e
  <2>1. CASE b = 0
    BY <1>2, <1>3, <2>1
  <2>2. CASE b # 0
    <3>1. ComesBefore(table[b], sr, m) /\ b \in 1 .. Len(table)
      BY <1>2, <2>2
    <3>2. ComesBefore(table[b], sr, m + 1)
      BY <3>1, <1>0 DEF ComesBefore
    <3> QED BY <1>3, <3>1, <3>2
  <2> QED BY <2>1, <2>2
<1>6. e - b \in Nat
  BY <1>2, <1>3, <1>5
<1>7. \A i \in 1 .. e - b : b + i \in 1 .. Len(table) /\ b < b + i /\ b + i <= e
  BY <1>2, <1>3, <1>6
<1>8. r \in Seq(SpanEntry) /\ Len(r) = e - b
  <2>1. \A i \in 1 .. e - b : [pos |-> b + i, target |-> table[b + i].target] \in SpanEntry
    BY <1>0, <1>7 DEF SpanEntry
  <2> QED BY <1>1, <1>6, <2>1
<1>9. \A p \in 1 .. Len(r) : r[p].pos = b + p /\ r[p].target = table[b + p].target
  BY <1>1, <1>8
<1>10. SortedSpan(r)
  <2> SUFFICES ASSUME NEW p \in 1 .. Len(r), NEW q \in 1 .. Len(r), p <= q
               PROVE  r[p].target <= r[q].target
    BY DEF SortedSpan
  <2>1. /\ b + p \in 1 .. Len(table) /\ b + q \in 1 .. Len(table) /\ b + p <= b + q
        /\ table[b + p].section = sr /\ table[b + q].section = sr
        /\ table[b + p].key = m /\ table[b + q].key = m
    BY <1>2, <1>4, <1>7, <1>8
  <2>2. MatchInfoLeq(table[b + p], table[b + q])
    BY <2>1 DEF SortedTable
  <2>3. table[b + p].target <= table[b + q].target
    BY <2>1, <2>2, <1>0 DEF MatchInfoLeq, Sections
  <2> QED BY <2>3, <1>9
<1>11. ASSUME NEW i \in 1 .. Len(table), table[i].section = sr, table[i].key = m
       PROVE  \E p \in 1 .. Len(r) : r[p].pos = i
  <2>1. i - b \in 1 .. Len(r) /\ b + (i - b) = i
    BY <1>2, <1>3, <1>4, <1>8, <1>11
  <2>2. r[i - b].pos = b + (i - b)
    BY <2>1, <1>9
  <2>3. r[i - b].pos = i
    BY <2>1, <2>2
  <2> QED BY <2>1, <2>3, Zenon
<1>12. \A p, q \in 1 .. Len(r) : r[p].pos = r[q].pos => p = q
  BY <1>2, <1>6, <1>8, <1>9
<1>13. \A p \in 1 .. Len(r) : /\ r[p].pos \in 1 .. Len(table)
                             /\ table[r[p].pos].section = sr /\ table[r[p].pos].key = m
                             /\ r[p].target = table[r[p].pos].target
  BY <1>4, <1>7, <1>8, <1>9
<1> QED BY <1>8, <1>10, <1>11, <1>12, <1>13 DEF r

-----------------------------------------------------------------------------
(* The construction                                                        *)

(***************************************************************************)
(* Inside a group the two spans are sorted and not empty and the ranges    *)
(* lie within them, one per worker at most.                                *)
(***************************************************************************)
GroupInv ==
  phase = "find" =>
    /\ mk < MatchKeys
    /\ lc \in Seq(SpanEntry) /\ SortedSpan(lc)
    /\ rc \in Seq(SpanEntry) /\ SortedSpan(rc)
    /\ DOMAIN rng \subseteq Workers
    /\ RangesOf(lc, rc, rng)

\* Workers run inside a group only, and look at entries of their own ranges.
WorkerInv ==
  \A w \in Workers : pc[w] # "idle" =>
    /\ phase = "find"
    /\ w \in DOMAIN rng
    /\ pc[w] \in {"run", "store"} => right[w] < rng[w].re
    /\ pc[w] = "store" => start[w] < rng[w].le

IInv == TypeOK /\ GroupInv /\ WorkerInv /\ SlotProtocol

-----------------------------------------------------------------------------

\* The rotation of a section is a section again (matching_section).
LEMMA MatchingSectionType ==
  ASSUME NEW s \in Sections
  PROVE  MatchingSection(s) \in Sections
BY DEF Sections, MatchingSection, Rotate

\* Worker and slot numbers are naturals.
LEMMA ConstantTypes ==
  /\ MatchKeys \in Nat \ {0}
  /\ Threads \in Nat \ {0} /\ Capacity \in Nat /\ NoPair \notin Pairings
  /\ Workers \subseteq Nat /\ Slots \subseteq Nat
<1>1. MatchKeys \in Nat \ {0}
  BY MatchAssumption, Zenon
<1>2. Threads \in Nat \ {0} /\ Capacity \in Nat /\ NoPair \notin Pairings
  BY BuildAssumption, Zenon DEF Pairings
<1> QED BY <1>1, <1>2 DEF Workers, Slots

\* The spans cut out of a sorted table for one group hold positions of that table.
LEMMA GroupSpans ==
  ASSUME NEW t \in Tables, NEW s \in Sections, NEW m \in 0 .. MatchKeys - 1
  PROVE  /\ LeftTargets(t, s, m) \in Seq(SpanEntry)
         /\ RightCandidates(t, MatchingSection(s), m) \in Seq(SpanEntry)
         /\ SortedSpan(RightCandidates(t, MatchingSection(s), m))
<1>1. t \in Seq(Entry) /\ SortedTable(t)
  BY BuildAssumption, Zenon
<1> QED BY <1>1, MatchingSectionType, LeftTargetsAre, RightCandidatesAre, Zenon

\* A group is entered with sorted, non-empty spans and ranges within them.
LEMMA GroupEntered ==
  ASSUME TypeOK, BeginGroup
  PROVE  GroupInv'
<1>1. mk \in 0 .. MatchKeys - 1
  BY ConstantTypes DEF TypeOK, BeginGroup
<1>2. /\ GroupLeft \in Seq(SpanEntry)
      /\ GroupRight \in Seq(SpanEntry) /\ SortedSpan(GroupRight)
  <2>1. prev \in Tables /\ sl \in Sections
    BY DEF TypeOK
  <2> QED BY <1>1, <2>1, GroupSpans, Zenon DEF GroupLeft, GroupRight
<1>3. GroupLeft # <<>> /\ GroupRight # <<>>
  BY DEF BeginGroup, GroupEmpty
<1>4. lc' = StableSort(GroupLeft) /\ rc' = GroupRight /\ mk' = mk
  BY DEF BeginGroup
<1>5. /\ lc' \in Seq(SpanEntry) /\ SortedSpan(lc') /\ Len(lc') = Len(GroupLeft)
      /\ rc' \in Seq(SpanEntry) /\ SortedSpan(rc')
  <2> HIDE DEF GroupLeft, GroupRight
  <2> QED BY <1>2, <1>4, StableSortPermutes, Zenon
<1>6. Len(lc') > 0 /\ Len(rc') > 0
  <2> HIDE DEF GroupLeft, GroupRight
  <2> QED BY <1>2, <1>3, <1>4, <1>5
<1>7. DOMAIN rng' \subseteq Workers /\ RangesOf(lc', rc', rng')
  <2>1. CASE Threads > 1
    <3>1. rng' = Splits(lc', rc', Threads)
      BY <2>1 DEF BeginGroup
    <3>2. Threads \in Nat \ {0}
      BY ConstantTypes
    <3> QED BY <1>5, <1>6, <3>1, <3>2, SplitsCoverOnce DEF Workers
  <2>2. CASE ~ (Threads > 1)
    <3>1. rng' = [i \in {0} |-> [lb |-> 0, le |-> Len(lc'), rb |-> 0, re |-> Len(rc')]]
      BY <2>2 DEF BeginGroup
    <3>2. 0 \in Workers
      BY ConstantTypes DEF Workers
    <3>3. Len(lc') \in 0 .. Len(lc') /\ Len(rc') \in 0 .. Len(rc')
          /\ 0 \in 0 .. Len(lc') /\ 0 \in 0 .. Len(rc')
      BY <1>5
    <3> QED BY <3>1, <3>2, <3>3 DEF RangesOf
  <2> QED BY <2>1, <2>2
<1>8. mk' < MatchKeys
  BY <1>1, <1>4, ConstantTypes
<1> QED BY <1>5, <1>7, <1>8 DEF GroupInv

\* The pairing a worker looks at in a run is a pair of positions.
LEMMA CandidateType ==
  ASSUME TypeOK, GroupInv, WorkerInv, NEW w \in Workers,
         pc[w] \in {"run", "store"}, start[w] < rng[w].le
  PROVE  Candidate(w) \in Pairings
<1>1. /\ phase = "find" /\ w \in DOMAIN rng /\ right[w] < rng[w].re
  BY DEF WorkerInv
<1>2. /\ lc \in Seq(SpanEntry) /\ rc \in Seq(SpanEntry)
      /\ rng[w].le \in 0 .. Len(lc) /\ rng[w].re \in 0 .. Len(rc)
  BY <1>1 DEF GroupInv, RangesOf
<1>3. start[w] \in Nat /\ right[w] \in Nat
  BY DEF TypeOK
<1>4. start[w] + 1 \in 1 .. Len(lc) /\ right[w] + 1 \in 1 .. Len(rc)
  BY <1>1, <1>2, <1>3
<1>5. lc[start[w] + 1] \in SpanEntry /\ rc[right[w] + 1] \in SpanEntry
  BY <1>2, <1>4
<1> QED BY <1>5 DEF Candidate, Pairings, SpanEntry

-----------------------------------------------------------------------------
(* Type correctness is kept by every step.                                 *)

\* Every step of construct and of find_pairs_into keeps the type invariant.
LEMMA TypeStep ==
  ASSUME TypeOK, GroupInv, WorkerInv, [Next]_vars
  PROVE  TypeOK'
<1>0. /\ MatchKeys \in Nat \ {0} /\ Workers \subseteq Nat
      /\ Len(reserved) = cursor
  BY ConstantTypes DEF TypeOK
<1>1. CASE BeginTable
  BY <1>1 DEF TypeOK, BeginTable, workerVars, outVars, Final
<1>2. CASE BeginSection
  BY <1>0, <1>2 DEF TypeOK, BeginSection, workerVars, outVars, Final
<1>3. CASE SkipGroup
  <2>1. mk' \in 0 .. MatchKeys
    BY <1>0, <1>3 DEF TypeOK, SkipGroup
  <2> QED BY <2>1, <1>3 DEF TypeOK, SkipGroup, workerVars, outVars
<1>4. CASE BeginGroup
  <2>1. phase' = "find" /\ RangesOf(lc', rc', rng') /\ lc' \in Seq(SpanEntry) /\ rc' \in Seq(SpanEntry)
    BY <1>4, GroupEntered DEF BeginGroup, GroupInv
  <2>2. \A w \in DOMAIN rng' : rng'[w].lb \in Nat /\ rng'[w].rb \in Nat
    BY <2>1 DEF RangesOf
  <2>3. left' \in [Workers -> Nat] /\ right' \in [Workers -> Nat]
    BY <1>4, <2>2 DEF BeginGroup
  <2>4. pc' \in [Workers -> {"idle", "scan", "run", "store"}]
    BY <1>4 DEF BeginGroup
  <2>5. UNCHANGED <<prev, sl, mk, start, slot, cursor, out, reserved>>
    BY <1>4 DEF BeginGroup, outVars
  <2> QED BY <2>1, <2>3, <2>4, <2>5 DEF TypeOK
<1>5. CASE JoinGroup
  <2>1. mk' \in 0 .. MatchKeys
    BY <1>0, <1>5 DEF TypeOK, JoinGroup, GroupInv
  <2> QED BY <2>1, <1>5 DEF TypeOK, JoinGroup, workerVars, outVars
<1>6. CASE EndSection
  <2>1. sl' \in Sections
    BY <1>6, MatchingSectionType DEF EndSection, TypeOK
  <2>2. phase' \in {"count", "section"}
    BY <1>6 DEF EndSection
  <2>3. UNCHANGED <<prev, mk, pc, left, right, start, slot, cursor, out, reserved>>
    BY <1>6 DEF EndSection, workerVars, outVars
  <2> QED BY <2>1, <2>2, <2>3 DEF TypeOK
<1>7. CASE Finish
  BY <1>7 DEF TypeOK, Finish, workerVars, outVars, Final
<1>8. ASSUME NEW w \in Workers, Advance(w)
      PROVE  TypeOK'
  <2>1. \/ right' = [right EXCEPT ![w] = @ + 1] /\ UNCHANGED left
        \/ left' = [left EXCEPT ![w] = @ + 1] /\ UNCHANGED right
    BY <1>8, Zenon DEF Advance
  <2>3. left' \in [Workers -> Nat] /\ right' \in [Workers -> Nat]
    BY <2>1 DEF TypeOK
  <2>2. UNCHANGED <<prev, phase, sl, mk, pc, start, slot, cursor, out, reserved>>
    BY <1>8 DEF Advance, tableVars, outVars
  <2> QED BY <2>2, <2>3 DEF TypeOK
<1>9. ASSUME NEW w \in Workers, EnterRun(w)
      PROVE  TypeOK'
  BY <1>9 DEF TypeOK, EnterRun, tableVars, outVars
<1>10. ASSUME NEW w \in Workers, Reserve(w)
       PROVE  TypeOK'
  <2>1. Candidate(w) \in Pairings
    BY <1>10, CandidateType DEF Reserve, InRun, HasLeft
  <2>2. reserved' = Append(reserved, Candidate(w))
    BY <1>10 DEF Reserve
  <2> HIDE DEF Pairings, Candidate
  <2>3. reserved' \in Seq(Pairings) /\ Len(reserved') = Len(reserved) + 1
    BY <2>1, <2>2 DEF TypeOK
  <2>4. cursor' = cursor + 1
    BY <1>10 DEF Reserve
  <2>5. slot' \in [Workers -> Nat]
    BY <1>10 DEF Reserve, TypeOK
  <2>6. pc' \in [Workers -> {"idle", "scan", "run", "store"}]
    BY <1>10 DEF Reserve, TypeOK
  <2>7. UNCHANGED <<prev, phase, sl, mk, left, right, start, out>>
    BY <1>10 DEF Reserve, tableVars
  <2> QED BY <1>0, <2>3, <2>4, <2>5, <2>6, <2>7 DEF TypeOK
<1>11. ASSUME NEW w \in Workers, Filter(w)
       PROVE  TypeOK'
  BY <1>11 DEF TypeOK, Filter, tableVars, outVars
<1>12. ASSUME NEW w \in Workers, Store(w)
       PROVE  TypeOK'
  <2>1. DOMAIN out' = DOMAIN out
    BY <1>12 DEF Store
  <2>2. /\ start' \in [Workers -> Nat]
        /\ pc' \in [Workers -> {"idle", "scan", "run", "store"}]
    BY <1>12 DEF Store, TypeOK
  <2>3. UNCHANGED <<prev, phase, sl, mk, left, right, slot, cursor, reserved>>
    BY <1>12 DEF Store, tableVars
  <2> QED BY <2>1, <2>2, <2>3 DEF TypeOK
<1>13. ASSUME NEW w \in Workers, LeaveRun(w)
       PROVE  TypeOK'
  BY <1>13 DEF TypeOK, LeaveRun, tableVars, outVars
<1>14. ASSUME NEW w \in Workers, Exhaust(w)
       PROVE  TypeOK'
  BY <1>14 DEF TypeOK, Exhaust, tableVars, outVars
<1>15. CASE Stopped \/ UNCHANGED vars
  BY <1>15 DEF TypeOK, Stopped, vars, tableVars, workerVars, outVars
<1> QED
  BY <1>1, <1>2, <1>3, <1>4, <1>5, <1>6, <1>7, <1>8, <1>9, <1>10, <1>11,
     <1>12, <1>13, <1>14, <1>15 DEF Next, Coordinate, Work

-----------------------------------------------------------------------------
(* The spans and ranges of a group stay as BeginGroup left them.           *)

\* A group, once begun, keeps its spans and ranges until its workers are joined.
LEMMA GroupStep ==
  ASSUME TypeOK, GroupInv, [Next]_vars
  PROVE  GroupInv'
<1>1. CASE BeginGroup
  BY <1>1, GroupEntered
<1>2. CASE BeginTable \/ BeginSection \/ JoinGroup \/ EndSection \/ Finish
  <2>1. phase' # "find"
    BY <1>2 DEF BeginTable, BeginSection, JoinGroup, EndSection, Finish
  <2> QED BY <2>1 DEF GroupInv
<1>3. CASE SkipGroup
  BY <1>3 DEF GroupInv, SkipGroup
<1>4. CASE \/ \E w \in Workers : Work(w)
           \/ Stopped \/ UNCHANGED vars
  <2>1. UNCHANGED <<phase, mk, lc, rc, rng>>
    BY <1>4 DEF Work, Advance, EnterRun, Reserve, Filter, Store, LeaveRun,
                Exhaust, Stopped, vars, tableVars
  <2> QED BY <2>1 DEF GroupInv, SortedSpan, RangesOf
<1> QED BY <1>1, <1>2, <1>3, <1>4 DEF Next, Coordinate

\* A worker's indexes stay within the range it was given (find_pairs_into).
LEMMA WorkerStep ==
  ASSUME TypeOK, WorkerInv, [Next]_vars
  PROVE  WorkerInv'
<1>1. CASE BeginGroup
  BY <1>1 DEF WorkerInv, BeginGroup
<1>2. CASE JoinGroup
  BY <1>2 DEF WorkerInv, JoinGroup, workerVars
<1>3. CASE BeginTable \/ BeginSection \/ SkipGroup \/ EndSection \/ Finish
  <2>1. phase # "find" /\ UNCHANGED pc
    BY <1>3 DEF BeginTable, BeginSection, SkipGroup, EndSection, Finish, workerVars
  <2> QED BY <2>1 DEF WorkerInv
<1>4. ASSUME NEW w \in Workers, Work(w)
      PROVE  WorkerInv'
  <2>0. UNCHANGED <<phase, rng, lc, rc>>
    BY <1>4 DEF Work, Advance, EnterRun, Reserve, Filter, Store, LeaveRun,
                Exhaust, tableVars
  <2>1. ASSUME NEW v \in Workers, v # w
        PROVE  pc'[v] = pc[v] /\ right'[v] = right[v] /\ start'[v] = start[v]
    BY <1>4, <2>1 DEF TypeOK, Work, Advance, EnterRun, Reserve, Filter, Store,
                      LeaveRun, Exhaust
  <2>2. pc[w] # "idle" /\ phase = "find" /\ w \in DOMAIN rng
    BY <1>4 DEF WorkerInv, Work, Advance, EnterRun, Reserve, Filter, Store,
                LeaveRun, Exhaust
  <2>3. /\ pc'[w] \in {"run", "store"} => right'[w] < rng[w].re
        /\ pc'[w] = "store" => start'[w] < rng[w].le
    <3>1. CASE Advance(w) \/ LeaveRun(w) \/ Exhaust(w)
      BY <3>1 DEF TypeOK, Advance, LeaveRun, Exhaust
    <3>2. CASE EnterRun(w)
      BY <3>2 DEF TypeOK, EnterRun, HasRight
    <3>3. CASE Reserve(w)
      BY <3>3 DEF TypeOK, WorkerInv, Reserve, InRun, HasLeft
    <3>4. CASE Filter(w)
      BY <3>4 DEF TypeOK, WorkerInv, Filter
    <3>5. CASE Store(w)
      BY <3>5 DEF TypeOK, WorkerInv, Store
    <3> QED BY <1>4, <3>1, <3>2, <3>3, <3>4, <3>5 DEF Work
  <2> QED BY <2>0, <2>1, <2>2, <2>3 DEF WorkerInv
<1>5. CASE Stopped \/ UNCHANGED vars
  BY <1>5 DEF WorkerInv, Stopped, vars, tableVars, workerVars
<1> QED BY <1>1, <1>2, <1>3, <1>4, <1>5 DEF Next, Coordinate

-----------------------------------------------------------------------------
(* The protocol of the cursor: only Reserve and Store disturb it.          *)

\* A fetch_add gives out a slot that nobody has, the next one above all others.
LEMMA ReserveKeepsProtocol ==
  ASSUME TypeOK, GroupInv, WorkerInv, SlotProtocol,
         NEW w \in Workers, Reserve(w)
  PROVE  SlotProtocol'
<1>0. /\ cursor \in Nat /\ Len(reserved) = cursor /\ DOMAIN out = Slots
      /\ reserved \in Seq(Pairings)
      /\ slot \in [Workers -> Nat] /\ Slots \subseteq Nat /\ Capacity \in Nat
  BY ConstantTypes DEF TypeOK
<1>1. /\ slot' = [slot EXCEPT ![w] = cursor] /\ cursor' = cursor + 1
      /\ pc' = [pc EXCEPT ![w] = "store"]
      /\ reserved' = Append(reserved, Candidate(w))
      /\ UNCHANGED <<lc, rc, right, start, out>>
      /\ pc[w] = "run"
  BY DEF Reserve, tableVars
<1>2. Candidate(w) \in Pairings
  BY CandidateType DEF Reserve, InRun, HasLeft
<1>3. \A v \in Workers : Candidate(v)' = Candidate(v)
  BY <1>1 DEF Candidate
<1>4. /\ \A s \in 0 .. cursor - 1 : reserved'[s + 1] = reserved[s + 1]
      /\ reserved'[cursor + 1] = Candidate(w)
  <2> HIDE DEF Pairings, Candidate
  <2> QED BY <1>0, <1>1, <1>2
<1>5. /\ slot'[w] = cursor /\ Storing(w)'
      /\ \A v \in Workers : v # w => slot'[v] = slot[v] /\ (Storing(v)' <=> Storing(v))
  BY <1>0, <1>1 DEF TypeOK, Storing
<1>6. HeldApart'
  BY <1>0, <1>5 DEF SlotProtocol, HeldApart, HeldReserved
<1>7. HeldReserved'
  <2> SUFFICES ASSUME NEW v \in Workers, Storing(v)'
               PROVE  /\ slot'[v] < cursor'
                      /\ slot'[v] < Capacity => out'[slot'[v]] = NoPair
                      /\ reserved'[slot'[v] + 1] = Candidate(v)'
    BY DEF HeldReserved
  <2>1. CASE v = w
    BY <2>1, <1>0, <1>1, <1>3, <1>4, <1>5 DEF SlotProtocol, EmptyAbove, Slots
  <2>2. CASE v # w
    <3>1. Storing(v) /\ slot'[v] = slot[v]
      BY <2>2, <1>5
    <3>2. slot[v] \in 0 .. cursor - 1
      BY <3>1, <1>0 DEF SlotProtocol, HeldReserved
    <3> QED BY <3>1, <3>2, <1>0, <1>1, <1>3, <1>4 DEF SlotProtocol, HeldReserved
  <2> QED BY <2>1, <2>2
<1>8. FilledBelow'
  <2> SUFFICES ASSUME NEW s \in Slots, s < cursor'
               PROVE  \/ out'[s] = reserved'[s + 1]
                      \/ \E v \in Workers : Storing(v)' /\ slot'[v] = s
    BY DEF FilledBelow
  <2>1. CASE s = cursor
    BY <2>1, <1>5
  <2>2. CASE s # cursor
    <3>1. s \in 0 .. cursor - 1
      BY <2>2, <1>0, <1>1
    <3>2. CASE out[s] = reserved[s + 1]
      BY <3>1, <3>2, <1>1, <1>4
    <3>3. CASE \E v \in Workers : Storing(v) /\ slot[v] = s
      <4>1. PICK v \in Workers : Storing(v) /\ slot[v] = s
        BY <3>3
      <4>2. v # w
        BY <4>1, <1>1 DEF Storing
      <4> QED BY <4>1, <4>2, <1>5
    <3> QED BY <3>1, <3>2, <3>3, <1>0 DEF SlotProtocol, FilledBelow
  <2> QED BY <2>1, <2>2
<1>9. EmptyAbove'
  BY <1>0, <1>1 DEF SlotProtocol, EmptyAbove
<1> QED BY <1>6, <1>7, <1>8, <1>9 DEF SlotProtocol

\* A store fills the slot its worker reserved, and that slot alone.
LEMMA StoreKeepsProtocol ==
  ASSUME TypeOK, SlotProtocol, NEW w \in Workers, Store(w)
  PROVE  SlotProtocol'
<1>0. /\ cursor \in Nat /\ DOMAIN out = Slots
      /\ slot \in [Workers -> Nat] /\ Slots \subseteq Nat /\ Capacity \in Nat
  BY ConstantTypes DEF TypeOK
<1>1. /\ Storing(w)
      /\ out' = IF slot[w] >= Capacity THEN out
                ELSE [out EXCEPT ![slot[w]] = Candidate(w)]
      /\ UNCHANGED <<lc, rc, right, slot, cursor, reserved>>
  BY DEF Store, Storing, tableVars
<1>2. /\ ~ Storing(w)'
      /\ \A v \in Workers : v # w => /\ Storing(v)' <=> Storing(v)
                                    /\ Candidate(v)' = Candidate(v)
  BY <1>1 DEF TypeOK, Store, Storing, Candidate
<1>3. slot[w] < cursor /\ reserved[slot[w] + 1] = Candidate(w)
  BY <1>1 DEF SlotProtocol, HeldReserved
<1>4. \A s \in Slots : out'[s] = IF s = slot[w] THEN reserved[s + 1] ELSE out[s]
  BY <1>0, <1>1, <1>3 DEF Slots
<1>5. HeldApart'
  BY <1>1, <1>2 DEF SlotProtocol, HeldApart
<1>6. HeldReserved'
  <2> SUFFICES ASSUME NEW v \in Workers, Storing(v)'
               PROVE  /\ slot'[v] < cursor'
                      /\ slot'[v] < Capacity => out'[slot'[v]] = NoPair
                      /\ reserved'[slot'[v] + 1] = Candidate(v)'
    BY DEF HeldReserved
  <2>1. v # w /\ Storing(v) /\ Candidate(v)' = Candidate(v)
    BY <1>2
  <2>2. slot[v] # slot[w]
    BY <2>1, <1>1 DEF SlotProtocol, HeldApart
  <2>3. slot[v] < Capacity => slot[v] \in Slots
    BY <1>0 DEF Slots
  <2> QED BY <2>1, <2>2, <2>3, <1>1, <1>4 DEF SlotProtocol, HeldReserved
<1>7. FilledBelow'
  <2> SUFFICES ASSUME NEW s \in Slots, s < cursor'
               PROVE  \/ out'[s] = reserved'[s + 1]
                      \/ \E v \in Workers : Storing(v)' /\ slot'[v] = s
    BY DEF FilledBelow
  <2>1. CASE s = slot[w]
    BY <2>1, <1>1, <1>4
  <2>2. CASE s # slot[w] /\ out[s] = reserved[s + 1]
    BY <2>2, <1>1, <1>4
  <2>3. CASE s # slot[w] /\ \E v \in Workers : Storing(v) /\ slot[v] = s
    BY <2>3, <1>1, <1>2
  <2> QED BY <2>1, <2>2, <2>3, <1>1 DEF SlotProtocol, FilledBelow
<1>8. EmptyAbove'
  BY <1>0, <1>1, <1>3, <1>4 DEF SlotProtocol, EmptyAbove, Slots
<1> QED BY <1>5, <1>6, <1>7, <1>8 DEF SlotProtocol

\* Every other step leaves the slots and what is meant for them alone.
LEMMA OthersKeepProtocol ==
  ASSUME SlotProtocol,
         UNCHANGED <<slot, cursor, out, reserved>>,
         \A w \in Workers : /\ Storing(w)' <=> Storing(w)
                            /\ Storing(w) => Candidate(w)' = Candidate(w)
  PROVE  SlotProtocol'
<1>1. HeldApart'
  BY DEF SlotProtocol, HeldApart
<1>2. HeldReserved'
  BY DEF SlotProtocol, HeldReserved
<1>3. FilledBelow'
  BY DEF SlotProtocol, FilledBelow
<1>4. EmptyAbove'
  BY DEF SlotProtocol, EmptyAbove
<1> QED BY <1>1, <1>2, <1>3, <1>4 DEF SlotProtocol

\* Every step keeps the slot protocol of handle_pair_into.
LEMMA SlotStep ==
  ASSUME TypeOK, GroupInv, WorkerInv, SlotProtocol, [Next]_vars
  PROVE  SlotProtocol'
<1>1. ASSUME NEW w \in Workers, Reserve(w) PROVE SlotProtocol'
  BY <1>1, ReserveKeepsProtocol
<1>2. ASSUME NEW w \in Workers, Store(w) PROVE SlotProtocol'
  BY <1>2, StoreKeepsProtocol
<1>3. CASE BeginGroup
  <2>1. \A w \in Workers : ~ Storing(w)
    BY <1>3 DEF BeginGroup, WorkerInv, Storing
  <2>2. \A w \in Workers : ~ Storing(w)'
    BY <1>3 DEF BeginGroup, Storing
  <2>3. UNCHANGED <<slot, cursor, out, reserved>>
    BY <1>3 DEF BeginGroup, outVars
  <2> QED BY <2>1, <2>2, <2>3, OthersKeepProtocol
<1>4. CASE \/ BeginTable \/ BeginSection \/ SkipGroup \/ JoinGroup
           \/ EndSection \/ Finish \/ Stopped \/ UNCHANGED vars
  <2>1. UNCHANGED <<lc, rc, pc, right, start, slot, cursor, out, reserved>>
    BY <1>4 DEF BeginTable, BeginSection, SkipGroup, JoinGroup, EndSection,
                Finish, Stopped, vars, tableVars, workerVars, outVars
  <2>2. \A w \in Workers : (Storing(w)' <=> Storing(w)) /\ Candidate(w)' = Candidate(w)
    BY <2>1 DEF Storing, Candidate
  <2> QED BY <2>1, <2>2, OthersKeepProtocol
<1>5. ASSUME NEW w \in Workers,
             Advance(w) \/ EnterRun(w) \/ Filter(w) \/ LeaveRun(w) \/ Exhaust(w)
      PROVE  SlotProtocol'
  <2>1. UNCHANGED <<lc, rc, slot, cursor, out, reserved>>
    BY <1>5 DEF Advance, EnterRun, Filter, LeaveRun, Exhaust, tableVars, outVars
  <2>2. ~ Storing(w) /\ ~ Storing(w)'
    BY <1>5 DEF TypeOK, Storing, Advance, EnterRun, Filter, LeaveRun, Exhaust
  <2>3. \A v \in Workers : v # w => (Storing(v)' <=> Storing(v)) /\ Candidate(v)' = Candidate(v)
    BY <1>5, <2>1 DEF TypeOK, Storing, Candidate, Advance, EnterRun, Filter, LeaveRun, Exhaust
  <2> QED BY <2>1, <2>2, <2>3, OthersKeepProtocol
<1> QED BY <1>1, <1>2, <1>3, <1>4, <1>5 DEF Next, Coordinate, Work

-----------------------------------------------------------------------------
(* The theorems.                                                           *)

\* The inductive invariant holds when construct begins.
LEMMA InitInv ==
  Init => IInv
<1> SUFFICES ASSUME Init PROVE IInv
  OBVIOUS
<1>1. TypeOK
  BY ConstantTypes DEF Init, TypeOK, Sections, Final
<1>2. GroupInv /\ WorkerInv
  BY DEF Init, GroupInv, WorkerInv
<1>3. SlotProtocol
  BY ConstantTypes DEF Init, SlotProtocol, HeldApart, HeldReserved, FilledBelow,
                       EmptyAbove, Storing, Slots
<1> QED BY <1>1, <1>2, <1>3 DEF IInv

\* The inductive invariant holds throughout construct: types, the spans and ranges
\* of the running group, the place of each worker, and the slot protocol.
THEOREM Invariance ==
  Spec => []IInv
<1>1. IInv /\ [Next]_vars => IInv'
  BY TypeStep, GroupStep, WorkerStep, SlotStep DEF IInv
<1> QED BY InitInv, <1>1, PTL DEF Spec

(***************************************************************************)
(* Every variable keeps its type; the history of reservations has one      *)
(* entry per fetch_add.                                                    *)
(***************************************************************************)
THEOREM TypeCorrect ==
  Spec => []TypeOK
<1>1. IInv => TypeOK
  BY DEF IInv
<1> QED BY Invariance, <1>1, PTL

(***************************************************************************)
(* The protocol of the shared cursor holds for any number of workers.      *)
(***************************************************************************)
THEOREM SlotsProtected ==
  Spec => []SlotProtocol
<1>1. IInv => SlotProtocol
  BY DEF IInv
<1> QED BY Invariance, <1>1, PTL

(***************************************************************************)
(* Joined means stored: the span handed to post_construct has no hole.     *)
(***************************************************************************)
THEOREM OutputDense ==
  Spec => []DenseOutput
<1>1. IInv => DenseOutput
  BY DEF IInv, WorkerInv, SlotProtocol, FilledBelow, DenseOutput, Storing, Final
<1> QED BY Invariance, <1>1, PTL

(***************************************************************************)
(* No store overwrites an earlier one.                                     *)
(***************************************************************************)
THEOREM NothingOverwritten ==
  Spec => StoredOnce
<1>1. IInv /\ [Next]_vars =>
        [\A s \in Slots : out[s] # NoPair => out'[s] = out[s]]_out
  <2> SUFFICES ASSUME IInv, [Next]_vars, out' # out,
                      NEW s \in Slots, out[s] # NoPair
               PROVE  out'[s] = out[s]
    OBVIOUS
  <2>1. PICK w \in Workers : Store(w)
    BY DEF Next, Coordinate, Work, BeginTable, BeginSection, SkipGroup,
           BeginGroup, JoinGroup, EndSection, Finish, Stopped, Advance, EnterRun,
           Reserve, Filter, LeaveRun, Exhaust, vars, outVars
  <2>2. slot[w] < Capacity => out[slot[w]] = NoPair
    BY <2>1 DEF IInv, SlotProtocol, HeldReserved, Store, Storing
  <2>3. slot[w] \in Nat /\ DOMAIN out = Slots /\ Capacity \in Nat
    BY ConstantTypes DEF IInv, TypeOK
  <2> QED BY <2>1, <2>2, <2>3 DEF Store
<1> QED BY Invariance, <1>1, PTL DEF Spec, StoredOnce

-----------------------------------------------------------------------------
(***************************************************************************)
(* What construct finds.  The history of the reservations is compared with *)
(* the pairs that the workers have gone past.  Between groups these are    *)
(* the pairs of the sections and keys gone past; inside a group they are,  *)
(* for each worker, the pairs of its range that its merge has left behind. *)
(***************************************************************************)


\* The place of a left section in the walk of construct.
Turn(s) == IF s = 3 THEN 0 ELSE IF s = 0 THEN 1 ELSE IF s = 2 THEN 2 ELSE 3

LeftSection(p) == prev[p[1]].section
RightKeyOf(p)  == prev[p[2]].key

\* The pairing at index a of the left span and b of the right one.
PairAt(a, b) == <<lc[a + 1].pos, rc[b + 1].pos>>

SameTarget(a, b) == lc[a + 1].target = rc[b + 1].target

(***************************************************************************)
(* The left and the right span of the running group are exactly the        *)
(* entries of its section and key, none twice, and each pair of equal      *)
(* targets lies in the range of one worker.                                *)
(***************************************************************************)
IsLeftSpan(t, s, m, l) ==
  /\ \A a \in 1 .. Len(l) :
       /\ l[a].pos \in 1 .. Len(t)
       /\ t[l[a].pos].section = s
       /\ l[a].target = TargetOf[t[l[a].pos].meta][m]
  /\ \A a, b \in 1 .. Len(l) : l[a].pos = l[b].pos => a = b
  /\ \A i \in 1 .. Len(t) : t[i].section = s => \E a \in 1 .. Len(l) : l[a].pos = i

IsRightSpan(t, s, m, r) ==
  /\ \A b \in 1 .. Len(r) :
       /\ r[b].pos \in 1 .. Len(t)
       /\ t[r[b].pos].section = s /\ t[r[b].pos].key = m
       /\ r[b].target = t[r[b].pos].target
  /\ \A a, b \in 1 .. Len(r) : r[a].pos = r[b].pos => a = b
  /\ \A i \in 1 .. Len(t) :
       t[i].section = s /\ t[i].key = m => \E b \in 1 .. Len(r) : r[b].pos = i

SpansExact ==
  phase = "find" =>
    /\ IsLeftSpan(prev, sl, mk, lc)
    /\ IsRightSpan(prev, MatchingSection(sl), mk, rc)
    /\ CoversOnce(lc, rc, rng)

(***************************************************************************)
(* The merge of a worker: all left entries behind left_index are smaller   *)
(* than every right entry from current_r_idx on, and a run begins at the   *)
(* first left entry of its key.                                            *)
(***************************************************************************)
LeftBehind(w) ==
  \A a \in 0 .. Len(lc) - 1, b \in 0 .. Len(rc) - 1 :
    InRange(rng[w], a, b) /\ a < left[w] /\ right[w] <= b =>
      lc[a + 1].target < rc[b + 1].target

MergeOf(w) ==
  /\ rng[w].lb <= left[w] /\ rng[w].rb <= right[w]
  /\ LeftBehind(w)
  /\ pc[w] \in {"run", "store"} =>
       /\ left[w] < rng[w].le /\ SameTarget(left[w], right[w])
       /\ left[w] <= start[w]

MergeInv == \A w \in Workers : pc[w] # "idle" => MergeOf(w)

\* The pairs of its range that a worker has gone past.
Seen(w, a, b) ==
  \/ pc[w] = "idle"
  \/ b < right[w]
  \/ b = right[w] /\ pc[w] = "run" /\ a < start[w]
  \/ b = right[w] /\ pc[w] = "store" /\ a <= start[w]

\* The pairs of the running group that have been reserved are those seen.
FoundBy(w) ==
  \A a \in 0 .. Len(lc) - 1, b \in 0 .. Len(rc) - 1 :
    InRange(rng[w], a, b) /\ SameTarget(a, b) /\ Passes(PairAt(a, b)) =>
      (PairAt(a, b) \in Range(reserved) <=> Seen(w, a, b))

FoundInGroup == phase = "find" => \A w \in DOMAIN rng : FoundBy(w)

InGroup(p) == LeftSection(p) = sl /\ RightKeyOf(p) = mk

\* The pairs of the sections and keys that construct has gone past.
Behind(p) ==
  \/ phase \in {"count", "sorted", "thrown"}
  \/ Turn(LeftSection(p)) < Turn(sl)
  \/ phase \in {"group", "find"} /\ LeftSection(p) = sl /\ RightKeyOf(p) < mk

\* Of the other pairs those behind have been reserved.
FoundElsewhere ==
  phase # "cancelled" =>
    \A p \in Matches(prev) :
      ~ (phase = "find" /\ InGroup(p)) => (p \in Range(reserved) <=> Behind(p))

\* Only matching pairs have been reserved, and each once.
OnlyMatches  == phase # "cancelled" => Range(reserved) \subseteq Matches(prev)
ReservedOnce == \A i, j \in 1 .. Len(reserved) : reserved[i] = reserved[j] => i = j

\* The walk begins and ends at section 3, the keys run through to the last.
WalkInv ==
  /\ phase \in {"table", "count", "sorted", "thrown"} => sl = 3
  /\ phase = "sorted" => cursor <= Capacity
  /\ phase = "thrown" => cursor > Capacity
  /\ phase \in {"table"} => reserved = <<>>

FoundInv ==
  /\ SpansExact /\ MergeInv
  /\ FoundInGroup /\ FoundElsewhere
  /\ OnlyMatches /\ ReservedOnce /\ WalkInv

ExactInv == IInv /\ FoundInv
-----------------------------------------------------------------------------
(* The spans and ranges of the running group.                              *)

\* Inside a group indexes of a range are indexes of the spans, whose targets and
\* positions are numbers in the order of the targets.
LEMMA GroupNumbers ==
  ASSUME TypeOK, GroupInv, phase = "find"
  PROVE  /\ Len(lc) \in Nat /\ Len(rc) \in Nat
         /\ \A a \in 0 .. Len(lc) - 1 : lc[a + 1].target \in Nat /\ lc[a + 1].pos \in Nat
         /\ \A b \in 0 .. Len(rc) - 1 : rc[b + 1].target \in Nat /\ rc[b + 1].pos \in Nat
         /\ \A a, b \in 0 .. Len(lc) - 1 : a <= b => lc[a + 1].target <= lc[b + 1].target
         /\ \A a, b \in 0 .. Len(rc) - 1 : a <= b => rc[a + 1].target <= rc[b + 1].target
         /\ \A w \in DOMAIN rng :
              /\ w \in Workers
              /\ rng[w].lb \in Nat /\ rng[w].rb \in Nat
              /\ rng[w].le \in 0 .. Len(lc) /\ rng[w].re \in 0 .. Len(rc)
<1>1. /\ lc \in Seq(SpanEntry) /\ SortedSpan(lc)
      /\ rc \in Seq(SpanEntry) /\ SortedSpan(rc)
      /\ DOMAIN rng \subseteq Workers /\ RangesOf(lc, rc, rng)
  BY DEF GroupInv
<1>2. Len(lc) \in Nat /\ Len(rc) \in Nat
  BY <1>1
<1>3. ASSUME NEW a \in 0 .. Len(lc) - 1
      PROVE  a + 1 \in 1 .. Len(lc) /\ lc[a + 1] \in SpanEntry
  BY <1>1, <1>2, <1>3
<1>4. ASSUME NEW b \in 0 .. Len(rc) - 1
      PROVE  b + 1 \in 1 .. Len(rc) /\ rc[b + 1] \in SpanEntry
  BY <1>1, <1>2, <1>4
<1>5. ASSUME NEW a \in 0 .. Len(lc) - 1, NEW b \in 0 .. Len(lc) - 1, a <= b
      PROVE  lc[a + 1].target <= lc[b + 1].target
  <2>1. a + 1 \in 1 .. Len(lc) /\ b + 1 \in 1 .. Len(lc) /\ a + 1 <= b + 1
    BY <1>2, <1>5
  <2> QED BY <1>1, <2>1 DEF SortedSpan
<1>6. ASSUME NEW a \in 0 .. Len(rc) - 1, NEW b \in 0 .. Len(rc) - 1, a <= b
      PROVE  rc[a + 1].target <= rc[b + 1].target
  <2>1. a + 1 \in 1 .. Len(rc) /\ b + 1 \in 1 .. Len(rc) /\ a + 1 <= b + 1
    BY <1>2, <1>6
  <2> QED BY <1>1, <2>1 DEF SortedSpan
<1>7. ASSUME NEW w \in DOMAIN rng
      PROVE  /\ rng[w].lb \in 0 .. Len(lc) /\ rng[w].rb \in 0 .. Len(rc)
             /\ rng[w].le \in 0 .. Len(lc) /\ rng[w].re \in 0 .. Len(rc)
  BY <1>1 DEF RangesOf
<1>8. \A w \in DOMAIN rng : w \in Workers /\ rng[w].lb \in Nat /\ rng[w].rb \in Nat
  BY <1>1, <1>2, <1>7
<1> QED BY <1>2, <1>3, <1>4, <1>5, <1>6, <1>7, <1>8 DEF SpanEntry

\* The candidates of a group are exactly its entries, sorted or not.
LEMMA CandidatesExact ==
  ASSUME NEW t \in Seq(Entry), SortedTable(t),
         NEW s \in Sections, NEW m \in 0 .. MatchKeys - 1
  PROVE  /\ IsLeftSpan(t, s, m, LeftTargets(t, s, m))
         /\ IsRightSpan(t, s, m, RightCandidates(t, s, m))
<1>1. IsLeftSpan(t, s, m, LeftTargets(t, s, m))
  <2> DEFINE l == LeftTargets(t, s, m)
  <2>1. /\ \A p \in 1 .. Len(l) :
             /\ l[p].pos \in 1 .. Len(t)
             /\ t[l[p].pos].section = s
             /\ l[p].target = TargetOf[t[l[p].pos].meta][m]
        /\ \A p, q \in 1 .. Len(l) : l[p].pos = l[q].pos => p = q
        /\ \A i \in 1 .. Len(t) : t[i].section = s => \E p \in 1 .. Len(l) : l[p].pos = i
    BY LeftTargetsAre
  <2> HIDE DEF l
  <2>2. IsLeftSpan(t, s, m, l)
    BY <2>1 DEF IsLeftSpan
  <2> QED BY <2>2 DEF l
<1>2. IsRightSpan(t, s, m, RightCandidates(t, s, m))
  <2> DEFINE r == RightCandidates(t, s, m)
  <2>1. /\ \A p \in 1 .. Len(r) :
             /\ r[p].pos \in 1 .. Len(t)
             /\ t[r[p].pos].section = s /\ t[r[p].pos].key = m
             /\ r[p].target = t[r[p].pos].target
        /\ \A p, q \in 1 .. Len(r) : r[p].pos = r[q].pos => p = q
        /\ \A i \in 1 .. Len(t) : t[i].section = s /\ t[i].key = m =>
             \E p \in 1 .. Len(r) : r[p].pos = i
    BY RightCandidatesAre
  <2> HIDE DEF r
  <2>2. IsRightSpan(t, s, m, r)
    BY <2>1 DEF IsRightSpan
  <2> QED BY <2>2 DEF r
<1> QED BY <1>1, <1>2

\* Sorting the left candidates loses none of them.
LEMMA SortedExact ==
  ASSUME NEW t, NEW s, NEW m, NEW l \in Seq(SpanEntry), IsLeftSpan(t, s, m, l)
  PROVE  IsLeftSpan(t, s, m, StableSort(l))
<1> DEFINE n == Len(l)
           k == StableSort(l)
<1>1. Len(k) = n /\ \E f \in Bijection(1 .. n, 1 .. n) : \A p \in 1 .. n : k[p] = l[f[p]]
  BY StableSortPermutes, Zenon
<1> HIDE DEF n, k
<1>2. PICK f \in Bijection(1 .. n, 1 .. n) : \A p \in 1 .. n : k[p] = l[f[p]]
  BY <1>1
<1>3. /\ \A p \in 1 .. n : f[p] \in 1 .. n
      /\ \A p, q \in 1 .. n : f[p] = f[q] => p = q
      /\ \A q \in 1 .. n : \E p \in 1 .. n : f[p] = q
  BY DEF Bijection, Injection, Surjection, IsInjective
<1>4. /\ \A a \in 1 .. n : /\ l[a].pos \in 1 .. Len(t)
                           /\ t[l[a].pos].section = s
                           /\ l[a].target = TargetOf[t[l[a].pos].meta][m]
      /\ \A a, b \in 1 .. n : l[a].pos = l[b].pos => a = b
      /\ \A i \in 1 .. Len(t) : t[i].section = s => \E a \in 1 .. n : l[a].pos = i
  BY DEF IsLeftSpan, n
<1>5. ASSUME NEW a \in 1 .. n
      PROVE  /\ k[a].pos \in 1 .. Len(t)
             /\ t[k[a].pos].section = s
             /\ k[a].target = TargetOf[t[k[a].pos].meta][m]
  <2>1. f[a] \in 1 .. n /\ k[a] = l[f[a]]
    BY <1>2, <1>3
  <2> QED BY <1>4, <2>1
<1>6. ASSUME NEW a \in 1 .. n, NEW b \in 1 .. n, k[a].pos = k[b].pos
      PROVE  a = b
  <2>1. /\ f[a] \in 1 .. n /\ k[a] = l[f[a]]
        /\ f[b] \in 1 .. n /\ k[b] = l[f[b]]
    BY <1>2, <1>3
  <2>2. f[a] = f[b]
    BY <1>4, <1>6, <2>1
  <2> QED BY <1>3, <2>2, Zenon
<1>7. ASSUME NEW i \in 1 .. Len(t), t[i].section = s
      PROVE  \E a \in 1 .. n : k[a].pos = i
  <2>1. PICK q \in 1 .. n : l[q].pos = i
    BY <1>4, <1>7
  <2>2. PICK p \in 1 .. n : f[p] = q
    BY <1>3
  <2>3. k[p] = l[q]
    BY <1>2, <2>2
  <2> QED BY <2>1, <2>3, Zenon
<1> QED BY <1>1, <1>5, <1>6, <1>7, Zenon DEF IsLeftSpan, k

\* A group is entered with exactly its entries, and ranges that divide all its pairs.
LEMMA SpansEntered ==
  ASSUME TypeOK, BeginGroup
  PROVE  SpansExact'
<1>1. mk \in 0 .. MatchKeys - 1 /\ prev \in Tables /\ sl \in Sections
  BY ConstantTypes DEF TypeOK, BeginGroup
<1>2. prev \in Seq(Entry) /\ SortedTable(prev) /\ MatchingSection(sl) \in Sections
  BY <1>1, BuildAssumption, MatchingSectionType, Zenon
<1>3. /\ lc' = StableSort(LeftTargets(prev, sl, mk))
      /\ rc' = RightCandidates(prev, MatchingSection(sl), mk)
      /\ UNCHANGED <<prev, sl, mk>>
  BY DEF BeginGroup, GroupLeft, GroupRight
<1>4. LeftTargets(prev, sl, mk) \in Seq(SpanEntry)
  BY <1>1, GroupSpans, Zenon
<1>5. /\ IsLeftSpan(prev, sl, mk, lc')
      /\ IsRightSpan(prev, MatchingSection(sl), mk, rc')
  BY <1>1, <1>2, <1>3, <1>4, CandidatesExact, SortedExact, Zenon
<1>6. CoversOnce(lc', rc', rng')
  <2>1. /\ lc' \in Seq(SpanEntry) /\ SortedSpan(lc') /\ Len(lc') > 0
        /\ rc' \in Seq(SpanEntry) /\ SortedSpan(rc') /\ Len(rc') > 0
    <3>1. LeftTargets(prev, sl, mk) # <<>> /\ rc' # <<>>
      BY <1>3 DEF BeginGroup, GroupEmpty, GroupLeft, GroupRight
    <3>2. /\ lc' \in Seq(SpanEntry) /\ SortedSpan(lc')
          /\ rc' \in Seq(SpanEntry) /\ SortedSpan(rc')
          /\ Len(lc') = Len(LeftTargets(prev, sl, mk))
      BY <1>1, <1>3, <1>4, GroupSpans, StableSortPermutes, Zenon
    <3> QED BY <1>4, <3>1, <3>2
  <2>2. CASE Threads > 1
    <3>1. rng' = Splits(lc', rc', Threads) /\ Threads \in Nat \ {0}
      BY <2>2, ConstantTypes DEF BeginGroup
    <3> QED BY <2>1, <3>1, SplitsCoverOnce
  <2>3. CASE ~ (Threads > 1)
    <3>1. rng' = [i \in {0} |-> [lb |-> 0, le |-> Len(lc'), rb |-> 0, re |-> Len(rc')]]
      BY <2>3 DEF BeginGroup
    <3>2. Len(lc') \in Nat /\ Len(rc') \in Nat
      BY <2>1
    <3> QED BY <3>1, <3>2 DEF CoversOnce, InRange
  <2> QED BY <2>2, <2>3
<1> QED BY <1>3, <1>5, <1>6 DEF SpansExact

\* The spans stay exact until the workers are joined.
LEMMA SpansStep ==
  ASSUME TypeOK, SpansExact, [Next]_vars
  PROVE  SpansExact'
<1>1. CASE BeginGroup
  BY <1>1, SpansEntered
<1>2. CASE BeginTable \/ BeginSection \/ SkipGroup \/ JoinGroup \/ EndSection \/ Finish
  <2>1. phase' # "find"
    BY <1>2 DEF BeginTable, BeginSection, SkipGroup, JoinGroup, EndSection, Finish
  <2> QED BY <2>1 DEF SpansExact
<1>3. CASE (\E w \in Workers : Work(w)) \/ Stopped \/ UNCHANGED vars
  <2>1. UNCHANGED <<prev, phase, sl, mk, lc, rc, rng>>
    BY <1>3 DEF Work, Advance, EnterRun, Reserve, Filter, Store, LeaveRun,
                Exhaust, Stopped, vars, tableVars
  <2> QED BY <2>1 DEF SpansExact
<1> QED BY <1>1, <1>2, <1>3 DEF Next, Coordinate

-----------------------------------------------------------------------------
(* The merge of a worker (find_pairs_into).                                *)

\* A worker that moves is inside a group and changes its own indexes alone.
LEMMA OnlyOwnIndexes ==
  ASSUME TypeOK, WorkerInv, NEW w \in Workers, Work(w)
  PROVE  /\ phase = "find" /\ w \in DOMAIN rng /\ pc[w] # "idle"
         /\ UNCHANGED <<prev, phase, sl, mk, lc, rc, rng>>
         /\ \A v \in Workers : v # w =>
              /\ pc'[v] = pc[v] /\ left'[v] = left[v]
              /\ right'[v] = right[v] /\ start'[v] = start[v]
<1>1. /\ UNCHANGED <<prev, phase, sl, mk, lc, rc, rng>>
      /\ pc[w] # "idle"
  BY DEF Work, Advance, EnterRun, Reserve, Filter, Store, LeaveRun, Exhaust, tableVars
<1>2. phase = "find" /\ w \in DOMAIN rng
  BY <1>1 DEF WorkerInv
<1>3. ASSUME NEW v \in Workers, v # w
      PROVE  /\ pc'[v] = pc[v] /\ left'[v] = left[v]
             /\ right'[v] = right[v] /\ start'[v] = start[v]
  BY <1>3 DEF TypeOK, Work, Advance, EnterRun, Reserve, Filter, Store, LeaveRun, Exhaust
<1> QED BY <1>1, <1>2, <1>3

\* The left entry of the smaller key is smaller than all right entries to come.
LEMMA AdvanceKeepsMerge ==
  ASSUME TypeOK, GroupInv, WorkerInv, NEW w \in Workers, MergeOf(w), Advance(w)
  PROVE  MergeOf(w)'
<1>1. /\ phase = "find" /\ w \in DOMAIN rng /\ UNCHANGED <<lc, rc, rng>>
      /\ pc[w] = "scan" /\ pc'[w] = "scan"
  BY OnlyOwnIndexes DEF Work, Advance
<1>2. /\ left[w] \in Nat /\ right[w] \in Nat
      /\ left[w] < rng[w].le /\ right[w] < rng[w].re
  BY DEF TypeOK, Advance, HasLeft, HasRight
<1>3. /\ rng[w].le \in 0 .. Len(lc) /\ rng[w].re \in 0 .. Len(rc)
      /\ Len(lc) \in Nat /\ Len(rc) \in Nat /\ rng[w].lb \in Nat /\ rng[w].rb \in Nat
      /\ \A a \in 0 .. Len(lc) - 1 : lc[a + 1].target \in Nat
      /\ \A b \in 0 .. Len(rc) - 1 : rc[b + 1].target \in Nat
      /\ \A a, b \in 0 .. Len(rc) - 1 : a <= b => rc[a + 1].target <= rc[b + 1].target
  BY <1>1, GroupNumbers
<1>4. left[w] \in 0 .. Len(lc) - 1 /\ right[w] \in 0 .. Len(rc) - 1
  BY <1>2, <1>3
<1>5. CASE rc[right[w] + 1].target < lc[left[w] + 1].target
  <2>1. right'[w] = right[w] + 1 /\ left'[w] = left[w]
    BY <1>5 DEF Advance, TypeOK, RightKey, LeftKey
  <2>2. LeftBehind(w)'
    BY <1>1, <1>2, <1>3, <2>1 DEF MergeOf, LeftBehind
  <2> QED BY <1>1, <1>2, <1>3, <2>1, <2>2 DEF MergeOf
<1>6. CASE ~ (rc[right[w] + 1].target < lc[left[w] + 1].target)
  <2>1. left'[w] = left[w] + 1 /\ right'[w] = right[w]
    BY <1>6 DEF Advance, TypeOK, RightKey, LeftKey
  <2>2. lc[left[w] + 1].target < rc[right[w] + 1].target
    <3>1. lc[left[w] + 1].target # rc[right[w] + 1].target
      BY DEF Advance, LeftKey, RightKey
    <3>2. lc[left[w] + 1].target \in Nat /\ rc[right[w] + 1].target \in Nat
      BY <1>3, <1>4
    <3> QED BY <1>6, <3>1, <3>2
  <2>3. ASSUME NEW a \in 0 .. Len(lc) - 1, NEW b \in 0 .. Len(rc) - 1,
               InRange(rng[w], a, b), a < left[w] + 1, right[w] <= b
        PROVE  lc[a + 1].target < rc[b + 1].target
    <3>1. CASE a < left[w]
      BY <2>3, <3>1 DEF MergeOf, LeftBehind
    <3>2. CASE ~ (a < left[w])
      <4>1. a = left[w]
        BY <1>2, <2>3, <3>2
      <4>2. rc[right[w] + 1].target <= rc[b + 1].target
        BY <1>3, <1>4, <2>3
      <4>3. /\ lc[left[w] + 1].target \in Nat /\ rc[right[w] + 1].target \in Nat
            /\ rc[b + 1].target \in Nat
        BY <1>3, <1>4
      <4> QED BY <2>2, <4>1, <4>2, <4>3
    <3> QED BY <3>1, <3>2
  <2>4. LeftBehind(w)'
    BY <1>1, <2>1, <2>3 DEF LeftBehind
  <2> QED BY <1>1, <1>2, <1>3, <2>1, <2>4 DEF MergeOf
<1> QED BY <1>5, <1>6

\* Every step of a worker keeps what its merge has left behind.
LEMMA WorkKeepsMerge ==
  ASSUME TypeOK, GroupInv, WorkerInv, NEW w \in Workers, MergeOf(w), Work(w)
  PROVE  MergeOf(w)'
<1>1. /\ phase = "find" /\ w \in DOMAIN rng /\ UNCHANGED <<lc, rc, rng>>
  BY OnlyOwnIndexes
<1>2. /\ rng[w].le \in 0 .. Len(lc) /\ rng[w].re \in 0 .. Len(rc)
      /\ Len(lc) \in Nat /\ Len(rc) \in Nat /\ rng[w].lb \in Nat /\ rng[w].rb \in Nat
  BY <1>1, GroupNumbers
<1>3. left[w] \in Nat /\ right[w] \in Nat /\ start[w] \in Nat
  BY DEF TypeOK
<1>4. CASE Advance(w)
  BY <1>4, AdvanceKeepsMerge
<1>5. CASE EnterRun(w)
  <2>1. /\ left'[w] = left[w] /\ right'[w] = right[w] /\ start'[w] = left[w]
        /\ left[w] < rng[w].le /\ SameTarget(left[w], right[w])
    BY <1>5 DEF EnterRun, TypeOK, HasLeft, LeftKey, RightKey, SameTarget
  <2> QED BY <1>1, <1>3, <2>1 DEF MergeOf, LeftBehind, SameTarget
<1>6. CASE Reserve(w) \/ Filter(w) \/ Store(w)
  <2>1. /\ left'[w] = left[w] /\ right'[w] = right[w]
        /\ start'[w] = start[w] \/ start'[w] = start[w] + 1
        /\ pc[w] \in {"run", "store"}
    BY <1>6 DEF Reserve, Filter, Store, TypeOK
  <2>2. left[w] <= start'[w]
    BY <1>3, <2>1 DEF MergeOf
  <2> QED BY <1>1, <2>1, <2>2 DEF MergeOf, LeftBehind, SameTarget
<1>7. CASE LeaveRun(w)
  <2>1. left'[w] = left[w] /\ right'[w] = right[w] + 1 /\ pc'[w] = "scan"
    BY <1>7 DEF LeaveRun, TypeOK
  <2>2. LeftBehind(w)'
    <3>1. ASSUME NEW a \in 0 .. Len(lc) - 1, NEW b \in 0 .. Len(rc) - 1,
                 InRange(rng[w], a, b), a < left[w], right[w] + 1 <= b
          PROVE  lc[a + 1].target < rc[b + 1].target
      <4>1. right[w] <= b
        BY <1>2, <1>3, <3>1
      <4> QED BY <3>1, <4>1 DEF MergeOf, LeftBehind
    <3> QED BY <1>1, <2>1, <3>1 DEF LeftBehind
  <2> QED BY <1>1, <1>2, <1>3, <2>1, <2>2 DEF MergeOf
<1>8. CASE Exhaust(w)
  <2>1. left'[w] = left[w] /\ right'[w] = right[w] /\ pc'[w] = "idle"
    BY <1>8 DEF Exhaust, TypeOK
  <2> QED BY <1>1, <2>1 DEF MergeOf, LeftBehind
<1> QED BY <1>4, <1>5, <1>6, <1>7, <1>8 DEF Work

\* Every step keeps MergeInv; a group begins with all indexes at their range's start.
LEMMA MergeStep ==
  ASSUME IInv, MergeInv, [Next]_vars
  PROVE  MergeInv'
<1>0. TypeOK /\ GroupInv /\ WorkerInv
  BY DEF IInv
<1>1. CASE BeginGroup
  <2>1. GroupInv' /\ phase' = "find"
    BY <1>0, <1>1, GroupEntered DEF BeginGroup
  <2>2. \A w \in DOMAIN rng' : rng'[w].lb \in Nat /\ rng'[w].rb \in Nat
    BY <2>1 DEF GroupInv, RangesOf
  <2>3. ASSUME NEW w \in Workers, pc'[w] # "idle"
        PROVE  /\ w \in DOMAIN rng' /\ pc'[w] = "scan"
               /\ left'[w] = rng'[w].lb /\ right'[w] = rng'[w].rb
    BY <1>1, <2>3 DEF BeginGroup
  <2>4. ASSUME NEW w \in Workers, pc'[w] # "idle"
        PROVE  MergeOf(w)'
    <3>1. LeftBehind(w)'
      <4>1. ASSUME NEW a \in 0 .. Len(lc') - 1, NEW b, InRange(rng'[w], a, b), a < left'[w]
            PROVE  FALSE
        BY <2>2, <2>3, <2>4, <4>1 DEF InRange
      <4> QED BY <4>1 DEF LeftBehind
    <3> QED BY <2>2, <2>3, <2>4, <3>1 DEF MergeOf
  <2> QED BY <2>4 DEF MergeInv
<1>2. CASE BeginTable \/ BeginSection \/ SkipGroup \/ JoinGroup \/ EndSection \/ Finish
  <2>1. UNCHANGED pc /\ \A w \in Workers : pc[w] = "idle"
    BY <1>0, <1>2 DEF BeginTable, BeginSection, SkipGroup, JoinGroup, EndSection, Finish,
                      WorkerInv, workerVars
  <2> QED BY <2>1 DEF MergeInv
<1>3. CASE Stopped \/ UNCHANGED vars
  BY <1>3 DEF MergeInv, MergeOf, LeftBehind, SameTarget, Stopped, vars, tableVars, workerVars
<1>4. ASSUME NEW w \in Workers, Work(w)
      PROVE  MergeInv'
  <2>1. MergeOf(w)'
    BY <1>0, <1>4, OnlyOwnIndexes, WorkKeepsMerge DEF MergeInv
  <2>2. ASSUME NEW v \in Workers, v # w, pc'[v] # "idle"
        PROVE  MergeOf(v)'
    <3>1. /\ UNCHANGED <<lc, rc, rng>>
          /\ pc'[v] = pc[v] /\ left'[v] = left[v]
          /\ right'[v] = right[v] /\ start'[v] = start[v]
      BY <1>0, <1>4, <2>2, OnlyOwnIndexes
    <3>2. MergeOf(v)
      BY <2>2, <3>1 DEF MergeInv
    <3> QED BY <3>1, <3>2 DEF MergeOf, LeftBehind, SameTarget
  <2> QED BY <2>1, <2>2 DEF MergeInv
<1> QED BY <1>1, <1>2, <1>3, <1>4 DEF Next, Coordinate

-----------------------------------------------------------------------------
(* The pairs of a group.                                                   *)

\* Two pairs of indexes name the same pairing only when they are the same.
LEMMA PairAtUnique ==
  ASSUME TypeOK, GroupInv, SpansExact, phase = "find",
         NEW a \in 0 .. Len(lc) - 1, NEW b \in 0 .. Len(rc) - 1,
         NEW c \in 0 .. Len(lc) - 1, NEW d \in 0 .. Len(rc) - 1,
         PairAt(a, b) = PairAt(c, d)
  PROVE  a = c /\ b = d
<1>1. lc[a + 1].pos = lc[c + 1].pos /\ rc[b + 1].pos = rc[d + 1].pos
  BY DEF PairAt
<1>2. Len(lc) \in Nat /\ Len(rc) \in Nat
  BY GroupNumbers
<1>3. /\ a + 1 \in 1 .. Len(lc) /\ c + 1 \in 1 .. Len(lc)
      /\ b + 1 \in 1 .. Len(rc) /\ d + 1 \in 1 .. Len(rc)
  BY <1>2
<1>4. a + 1 = c + 1 /\ b + 1 = d + 1
  BY <1>1, <1>3 DEF SpansExact, IsLeftSpan, IsRightSpan
<1> QED BY <1>2, <1>4

\* Entries of the two spans that have equal targets and pass the filter match.
SpansOfMatches(t, s, m, l, r) ==
  \A a \in 0 .. Len(l) - 1, b \in 0 .. Len(r) - 1 :
    /\ l[a + 1].target = r[b + 1].target
    /\ <<t[l[a + 1].pos].meta, t[r[b + 1].pos].meta>> \in Pairable
    => /\ <<l[a + 1].pos, r[b + 1].pos>> \in Matches(t)
       /\ t[l[a + 1].pos].section = s /\ t[r[b + 1].pos].key = m

\* The spans of a group have this property.
LEMMA SpansMatch ==
  ASSUME NEW t \in Seq(Entry), NEW s, NEW m,
         NEW l \in Seq(SpanEntry), IsLeftSpan(t, s, m, l),
         NEW r \in Seq(SpanEntry), IsRightSpan(t, MatchingSection(s), m, r)
  PROVE  SpansOfMatches(t, s, m, l, r)
<1> SUFFICES ASSUME NEW a \in 0 .. Len(l) - 1, NEW b \in 0 .. Len(r) - 1,
                    l[a + 1].target = r[b + 1].target,
                    <<t[l[a + 1].pos].meta, t[r[b + 1].pos].meta>> \in Pairable
             PROVE  /\ <<l[a + 1].pos, r[b + 1].pos>> \in Matches(t)
                    /\ t[l[a + 1].pos].section = s /\ t[r[b + 1].pos].key = m
  BY DEF SpansOfMatches
<1> DEFINE i == l[a + 1].pos
           j == r[b + 1].pos
<1>1. a + 1 \in 1 .. Len(l) /\ b + 1 \in 1 .. Len(r)
  OBVIOUS
<1>2. /\ i \in 1 .. Len(t) /\ t[i].section = s
      /\ l[a + 1].target = TargetOf[t[i].meta][m]
  BY <1>1 DEF IsLeftSpan
<1>3. /\ j \in 1 .. Len(t) /\ t[j].section = MatchingSection(s) /\ t[j].key = m
      /\ r[b + 1].target = t[j].target
  BY <1>1 DEF IsRightSpan
<1>4. <<t[i].meta, t[j].meta>> \in Pairable
  OBVIOUS
<1> HIDE DEF i, j
<1>5. IsMatch(t, i, j)
  BY <1>2, <1>3, <1>4 DEF IsMatch
<1>6. <<i, j>> \in Matches(t)
  BY <1>2, <1>3, <1>5 DEF Matches
<1> QED BY <1>2, <1>3, <1>6 DEF i, j

\* A pair of equal targets that passes the filter is a match of the running group.
LEMMA PairMatches ==
  ASSUME TypeOK, GroupInv, SpansExact, phase = "find",
         NEW a \in 0 .. Len(lc) - 1, NEW b \in 0 .. Len(rc) - 1,
         SameTarget(a, b), Passes(PairAt(a, b))
  PROVE  PairAt(a, b) \in Matches(prev) /\ InGroup(PairAt(a, b))
<1>1. /\ prev \in Seq(Entry) /\ lc \in Seq(SpanEntry) /\ rc \in Seq(SpanEntry)
      /\ IsLeftSpan(prev, sl, mk, lc) /\ IsRightSpan(prev, MatchingSection(sl), mk, rc)
  BY BuildAssumption, Zenon DEF TypeOK, GroupInv, SpansExact
<1>2. /\ lc[a + 1].target = rc[b + 1].target
      /\ <<prev[lc[a + 1].pos].meta, prev[rc[b + 1].pos].meta>> \in Pairable
  BY DEF SameTarget, Passes, PairAt
<1>3. SpansOfMatches(prev, sl, mk, lc, rc)
  BY <1>1, SpansMatch, Zenon
<1>4. /\ <<lc[a + 1].pos, rc[b + 1].pos>> \in Matches(prev)
      /\ prev[lc[a + 1].pos].section = sl /\ prev[rc[b + 1].pos].key = mk
  BY <1>2, <1>3 DEF SpansOfMatches
<1> QED BY <1>4 DEF PairAt, InGroup, LeftSection, RightKeyOf

\* Every match of the running group lies in the range of some worker.
LEMMA MatchHasPlace ==
  ASSUME TypeOK, GroupInv, SpansExact, phase = "find",
         NEW p \in Matches(prev), InGroup(p)
  PROVE  \E w \in DOMAIN rng, a \in 0 .. Len(lc) - 1, b \in 0 .. Len(rc) - 1 :
           /\ InRange(rng[w], a, b) /\ SameTarget(a, b)
           /\ PairAt(a, b) = p /\ Passes(PairAt(a, b))
<1>1. prev \in Seq(Entry)
  BY BuildAssumption, Zenon DEF TypeOK
<1>2. /\ p[1] \in 1 .. Len(prev) /\ p[2] \in 1 .. Len(prev) /\ p = <<p[1], p[2]>>
      /\ IsMatch(prev, p[1], p[2])
  BY <1>1 DEF Matches
<1>3. prev[p[1]].section = sl /\ prev[p[2]].key = mk
  BY DEF InGroup, LeftSection, RightKeyOf
<1>4. prev[p[2]].section = MatchingSection(sl)
  BY <1>2, <1>3 DEF IsMatch
<1>5. PICK a1 \in 1 .. Len(lc) : lc[a1].pos = p[1]
  BY <1>2, <1>3 DEF SpansExact, IsLeftSpan
<1>6. PICK b1 \in 1 .. Len(rc) : rc[b1].pos = p[2]
  BY <1>2, <1>3, <1>4 DEF SpansExact, IsRightSpan
<1> DEFINE a == a1 - 1
           b == b1 - 1
<1>7. /\ a \in 0 .. Len(lc) - 1 /\ a + 1 = a1
      /\ b \in 0 .. Len(rc) - 1 /\ b + 1 = b1
  BY GroupNumbers
<1>8. /\ lc[a1].target = TargetOf[prev[p[1]].meta][mk]
      /\ rc[b1].target = prev[p[2]].target
  BY <1>5, <1>6 DEF SpansExact, IsLeftSpan, IsRightSpan
<1> HIDE DEF a, b
<1>9. SameTarget(a, b) /\ PairAt(a, b) = p
  BY <1>2, <1>3, <1>5, <1>6, <1>7, <1>8 DEF SameTarget, PairAt, IsMatch
<1>10. Passes(PairAt(a, b))
  BY <1>2, <1>9 DEF Passes, IsMatch
<1>11. \E w \in DOMAIN rng : InRange(rng[w], a, b)
  BY <1>7, <1>9 DEF SpansExact, CoversOnce, SameTarget
<1> QED BY <1>7, <1>9, <1>10, <1>11

-----------------------------------------------------------------------------
(* What a worker goes past is what it has reserved.                        *)

\* A step goes past no pair that matches, except the one that Reserve takes.
LEMMA SeenStep ==
  ASSUME TypeOK, GroupInv, WorkerInv, NEW w \in Workers, MergeOf(w), Work(w),
         NEW a \in 0 .. Len(lc) - 1, NEW b \in 0 .. Len(rc) - 1,
         InRange(rng[w], a, b), SameTarget(a, b), Passes(PairAt(a, b)),
         ~ (Reserve(w) /\ a = start[w] /\ b = right[w])
  PROVE  Seen(w, a, b)' <=> Seen(w, a, b)
<1>1. /\ phase = "find" /\ w \in DOMAIN rng /\ UNCHANGED <<lc, rc, rng>>
      /\ left[w] \in Nat /\ right[w] \in Nat /\ start[w] \in Nat
  BY OnlyOwnIndexes DEF TypeOK
<1>2. /\ Len(lc) \in Nat /\ Len(rc) \in Nat
      /\ rng[w].le \in 0 .. Len(lc) /\ rng[w].re \in 0 .. Len(rc)
      /\ \A i \in 0 .. Len(lc) - 1 : lc[i + 1].target \in Nat
      /\ \A i \in 0 .. Len(rc) - 1 : rc[i + 1].target \in Nat
      /\ \A i, j \in 0 .. Len(lc) - 1 : i <= j => lc[i + 1].target <= lc[j + 1].target
  BY <1>1, GroupNumbers
<1>3. /\ a \in Nat /\ b \in Nat /\ a < rng[w].le /\ b < rng[w].re
      /\ lc[a + 1].target = rc[b + 1].target
      /\ lc[a + 1].target \in Nat /\ rc[b + 1].target \in Nat
  BY <1>2 DEF InRange, SameTarget
<1>4. a < left[w] => b < right[w]
  BY <1>1, <1>3 DEF MergeOf, LeftBehind
<1>5. CASE Advance(w)
  <2>1. CASE rc[right[w] + 1].target < lc[left[w] + 1].target
    <3>1. pc[w] = "scan" /\ pc'[w] = "scan" /\ right'[w] = right[w] + 1
      BY <1>5, <2>1 DEF Advance, TypeOK, RightKey, LeftKey
    <3>2. b # right[w]
      <4>1. SUFFICES ASSUME b = right[w] PROVE FALSE
        OBVIOUS
      <4>2. left[w] <= a
        BY <1>1, <1>3, <1>4, <4>1
      <4>3. left[w] \in 0 .. Len(lc) - 1
        BY <1>1, <1>2, <1>3, <4>2
      <4>4. lc[left[w] + 1].target <= lc[a + 1].target /\ lc[left[w] + 1].target \in Nat
        BY <1>2, <4>2, <4>3
      <4> QED BY <1>3, <2>1, <4>1, <4>4
    <3> QED BY <1>1, <1>3, <3>1, <3>2 DEF Seen
  <2>2. CASE ~ (rc[right[w] + 1].target < lc[left[w] + 1].target)
    <3>1. pc[w] = "scan" /\ pc'[w] = "scan" /\ right'[w] = right[w]
      BY <1>5, <2>2 DEF Advance, TypeOK, RightKey, LeftKey
    <3> QED BY <3>1 DEF Seen
  <2> QED BY <2>1, <2>2
<1>6. CASE EnterRun(w)
  <2>1. pc[w] = "scan" /\ pc'[w] = "run" /\ right'[w] = right[w] /\ start'[w] = left[w]
    BY <1>6 DEF EnterRun, TypeOK
  <2> QED BY <1>4, <2>1 DEF Seen
<1>7. CASE Reserve(w)
  <2>1. pc[w] = "run" /\ pc'[w] = "store" /\ right'[w] = right[w] /\ start'[w] = start[w]
    BY <1>7 DEF Reserve, TypeOK
  <2> QED BY <1>1, <1>3, <1>7, <2>1 DEF Seen
<1>8. CASE Filter(w)
  <2>1. pc[w] = "run" /\ pc'[w] = "run" /\ right'[w] = right[w] /\ start'[w] = start[w] + 1
    BY <1>8 DEF Filter, TypeOK
  <2>2. ~ (a = start[w] /\ b = right[w])
    BY <1>8 DEF Filter, Candidate, PairAt
  <2> QED BY <1>1, <1>3, <2>1, <2>2 DEF Seen
<1>9. CASE Store(w)
  <2>1. pc[w] = "store" /\ pc'[w] = "run" /\ right'[w] = right[w] /\ start'[w] = start[w] + 1
    BY <1>9 DEF Store, TypeOK
  <2> QED BY <1>1, <1>3, <2>1 DEF Seen
<1>10. CASE LeaveRun(w)
  <2>1. pc[w] = "run" /\ pc'[w] = "scan" /\ right'[w] = right[w] + 1
    BY <1>10 DEF LeaveRun, TypeOK
  <2>2. /\ left[w] < rng[w].le /\ left[w] <= start[w]
        /\ lc[left[w] + 1].target = rc[right[w] + 1].target
    BY <2>1 DEF MergeOf, SameTarget
  <2>3. b = right[w] => a < start[w]
    <3>1. SUFFICES ASSUME b = right[w], start[w] <= a PROVE FALSE
      BY <1>1, <1>3
    <3>2. start[w] < rng[w].le
      BY <1>1, <1>2, <1>3, <3>1
    <3>3. lc[start[w] + 1].target # rc[right[w] + 1].target
      BY <1>10, <3>2 DEF LeaveRun, InRun, HasLeft, LeftKey, RightKey
    <3>4. left[w] \in 0 .. Len(lc) - 1 /\ start[w] \in 0 .. Len(lc) - 1
      BY <1>1, <1>2, <2>2, <3>2
    <3>5. /\ lc[left[w] + 1].target <= lc[start[w] + 1].target
          /\ lc[start[w] + 1].target <= lc[a + 1].target
          /\ lc[start[w] + 1].target \in Nat
      BY <1>2, <2>2, <3>1, <3>4
    <3> QED BY <1>3, <2>2, <3>1, <3>3, <3>5
  <2> QED BY <1>1, <1>3, <2>1, <2>3 DEF Seen
<1>11. CASE Exhaust(w)
  <2>1. pc[w] = "scan" /\ pc'[w] = "idle"
    BY <1>11 DEF Exhaust, TypeOK
  <2>2. left[w] >= rng[w].le \/ right[w] >= rng[w].re
    BY <1>1, <1>2, <1>11 DEF Exhaust, HasLeft, HasRight
  <2>3. b < right[w]
    BY <1>1, <1>2, <1>3, <1>4, <2>2
  <2> QED BY <2>1, <2>3 DEF Seen
<1> QED BY <1>5, <1>6, <1>7, <1>8, <1>9, <1>10, <1>11 DEF Work

\* A fetch_add reserves a match of the running group that nobody has reserved.
LEMMA ReserveAdds ==
  ASSUME IInv, FoundInv, NEW w \in Workers, Reserve(w)
  PROVE  /\ Candidate(w) \in Matches(prev) /\ InGroup(Candidate(w))
         /\ Candidate(w) \notin Range(reserved)
         /\ start[w] \in 0 .. Len(lc) - 1 /\ right[w] \in 0 .. Len(rc) - 1
         /\ InRange(rng[w], start[w], right[w])
         /\ SameTarget(start[w], right[w]) /\ Candidate(w) = PairAt(start[w], right[w])
         /\ reserved' = Append(reserved, Candidate(w))
         /\ Range(reserved') = Range(reserved) \cup {Candidate(w)}
<1>0. TypeOK /\ GroupInv /\ WorkerInv /\ SpansExact /\ MergeInv /\ FoundInGroup
  BY DEF IInv, FoundInv
<1>1. /\ phase = "find" /\ w \in DOMAIN rng
      /\ left[w] \in Nat /\ right[w] \in Nat /\ start[w] \in Nat
  BY <1>0, OnlyOwnIndexes DEF Work, TypeOK
<1>2. /\ Len(lc) \in Nat /\ Len(rc) \in Nat /\ rng[w].lb \in Nat /\ rng[w].rb \in Nat
      /\ rng[w].le \in 0 .. Len(lc) /\ rng[w].re \in 0 .. Len(rc)
  BY <1>0, <1>1, GroupNumbers
<1>3. /\ pc[w] = "run" /\ start[w] < rng[w].le
      /\ lc[start[w] + 1].target = rc[right[w] + 1].target
      /\ Passes(Candidate(w))
      /\ reserved' = Append(reserved, Candidate(w))
  BY DEF Reserve, InRun, HasLeft, LeftKey, RightKey
<1>4. right[w] < rng[w].re
  BY <1>0, <1>3 DEF WorkerInv
<1>5. rng[w].lb <= left[w] /\ left[w] <= start[w] /\ rng[w].rb <= right[w]
  BY <1>0, <1>3 DEF MergeInv, MergeOf
<1>6. /\ start[w] \in 0 .. Len(lc) - 1 /\ right[w] \in 0 .. Len(rc) - 1
      /\ InRange(rng[w], start[w], right[w])
  <2>1. start[w] \in 0 .. Len(lc) - 1
    BY <1>1, <1>2, <1>3
  <2>2. right[w] \in 0 .. Len(rc) - 1
    BY <1>1, <1>2, <1>4
  <2>3. rng[w].lb <= start[w]
    BY <1>1, <1>2, <1>5
  <2> QED BY <1>3, <1>4, <1>5, <2>1, <2>2, <2>3 DEF InRange
<1>7. SameTarget(start[w], right[w]) /\ Candidate(w) = PairAt(start[w], right[w])
  BY <1>3 DEF SameTarget, Candidate, PairAt
<1>8. Candidate(w) \in Matches(prev) /\ InGroup(Candidate(w))
  BY <1>0, <1>1, <1>3, <1>6, <1>7, PairMatches
<1>9. Candidate(w) \notin Range(reserved)
  <2>1. ~ Seen(w, start[w], right[w])
    BY <1>1, <1>3 DEF Seen
  <2> QED BY <1>0, <1>1, <1>3, <1>6, <1>7, <2>1 DEF FoundInGroup, FoundBy
<1>10. Range(reserved') = Range(reserved) \cup {Candidate(w)}
  <2>1. Candidate(w) \in Pairings /\ reserved \in Seq(Pairings)
    BY <1>0, <1>3, CandidateType DEF TypeOK
  <2> HIDE DEF Candidate, Pairings
  <2>2. /\ Len(reserved) \in Nat /\ Len(reserved') = Len(reserved) + 1
        /\ DOMAIN reserved = 1 .. Len(reserved) /\ DOMAIN reserved' = 1 .. Len(reserved')
        /\ \A i \in 1 .. Len(reserved) : reserved'[i] = reserved[i]
        /\ reserved'[Len(reserved) + 1] = Candidate(w)
    BY <1>3, <2>1
  <2> QED BY <2>2 DEF Range
<1> QED BY <1>3, <1>6, <1>7, <1>8, <1>9, <1>10

\* After a fetch_add the pair that was reserved, and no other, has been gone past.
LEMMA ReserveKeepsFound ==
  ASSUME IInv, FoundInv, NEW w \in Workers, Reserve(w)
  PROVE  FoundInGroup' /\ FoundElsewhere' /\ OnlyMatches' /\ ReservedOnce'
<1>0. TypeOK /\ GroupInv /\ WorkerInv /\ SpansExact /\ MergeInv /\ Work(w)
  BY DEF IInv, FoundInv, Work
<1>1. /\ phase = "find" /\ w \in DOMAIN rng /\ UNCHANGED <<prev, phase, sl, mk, lc, rc, rng>>
      /\ MergeOf(w)
      /\ \A v \in Workers : v # w =>
           pc'[v] = pc[v] /\ right'[v] = right[v] /\ start'[v] = start[v]
  BY <1>0, OnlyOwnIndexes DEF MergeInv
<1>2. /\ Candidate(w) \in Matches(prev) /\ InGroup(Candidate(w))
      /\ Candidate(w) \notin Range(reserved)
      /\ start[w] \in 0 .. Len(lc) - 1 /\ right[w] \in 0 .. Len(rc) - 1
      /\ InRange(rng[w], start[w], right[w])
      /\ SameTarget(start[w], right[w]) /\ Candidate(w) = PairAt(start[w], right[w])
      /\ reserved' = Append(reserved, Candidate(w))
      /\ Range(reserved') = Range(reserved) \cup {Candidate(w)}
  BY ReserveAdds
<1>3. ASSUME NEW v \in DOMAIN rng, NEW a \in 0 .. Len(lc) - 1, NEW b \in 0 .. Len(rc) - 1,
             InRange(rng[v], a, b), SameTarget(a, b), Passes(PairAt(a, b))
      PROVE  PairAt(a, b) \in Range(reserved') <=> Seen(v, a, b)'
  <2>0. PairAt(a, b) \in Range(reserved) <=> Seen(v, a, b)
    BY <1>1, <1>3 DEF FoundInv, FoundInGroup, FoundBy
  <2>1. CASE a = start[w] /\ b = right[w]
    <3>1. v = w
      BY <1>0, <1>1, <1>2, <1>3, <2>1 DEF SpansExact, CoversOnce, SameTarget
    <3>2. Seen(w, start[w], right[w])'
      <4>1. pc'[w] = "store" /\ right'[w] = right[w] /\ start'[w] = start[w] /\ start[w] \in Nat
        BY <1>0 DEF Reserve, TypeOK
      <4> QED BY <4>1 DEF Seen
    <3> QED BY <1>0, <1>2, <2>1, <3>1, <3>2 DEF Reserve, Seen, TypeOK
  <2>2. CASE ~ (a = start[w] /\ b = right[w])
    <3>1. PairAt(a, b) # Candidate(w)
      <4>1. SUFFICES ASSUME PairAt(a, b) = PairAt(start[w], right[w]) PROVE FALSE
        BY <1>2
      <4>2. ASSUME NEW c \in 0 .. Len(lc) - 1, NEW d \in 0 .. Len(rc) - 1,
                   PairAt(a, b) = PairAt(c, d)
            PROVE  a = c /\ b = d
        BY <1>0, <1>1, <4>2, PairAtUnique
      <4> QED BY <1>2, <2>2, <4>1, <4>2
    <3>2. Seen(v, a, b)' <=> Seen(v, a, b)
      <4>1. CASE v = w
        BY <1>0, <1>1, <1>3, <2>2, <4>1, SeenStep
      <4>2. CASE v # w
        <5>1. v \in Workers
          BY <1>0, <1>1, GroupNumbers
        <5> QED BY <1>1, <4>2, <5>1 DEF Seen
      <4> QED BY <4>1, <4>2
    <3> QED BY <1>2, <2>0, <3>1, <3>2
  <2> QED BY <2>1, <2>2
<1>4. FoundInGroup'
  BY <1>1, <1>3 DEF FoundInGroup, FoundBy, SameTarget, Passes, PairAt
<1>5. FoundElsewhere'
  <2>1. \A p \in Matches(prev) : (InGroup(p)' <=> InGroup(p)) /\ (Behind(p)' <=> Behind(p))
    BY <1>1 DEF InGroup, Behind, LeftSection, RightKeyOf
  <2>2. Matches(prev)' = Matches(prev)
    BY <1>1
  <2> QED BY <1>1, <1>2, <2>1, <2>2 DEF FoundInv, FoundElsewhere
<1>6. OnlyMatches'
  BY <1>1, <1>2 DEF FoundInv, OnlyMatches
<1>7. ReservedOnce'
  <2>1. Candidate(w) \in Pairings /\ reserved \in Seq(Pairings)
    BY <1>0, CandidateType DEF TypeOK, Reserve, InRun, HasLeft
  <2> HIDE DEF Candidate, Pairings
  <2>2. /\ Len(reserved) \in Nat /\ Len(reserved') = Len(reserved) + 1
        /\ DOMAIN reserved = 1 .. Len(reserved)
        /\ \A i \in 1 .. Len(reserved) : reserved'[i] = reserved[i]
        /\ reserved'[Len(reserved) + 1] = Candidate(w)
    BY <1>2, <2>1
  <2>3. \A i \in 1 .. Len(reserved) : reserved[i] # Candidate(w)
    BY <1>2, <2>2 DEF Range
  <2> QED BY <2>2, <2>3 DEF FoundInv, ReservedOnce
<1> QED BY <1>4, <1>5, <1>6, <1>7

\* The other steps of a worker go past no match and reserve none.
LEMMA WorkKeepsFound ==
  ASSUME IInv, FoundInv, NEW w \in Workers, Work(w), ~ Reserve(w)
  PROVE  FoundInGroup' /\ FoundElsewhere' /\ OnlyMatches' /\ ReservedOnce'
<1>0. TypeOK /\ GroupInv /\ WorkerInv /\ MergeInv
  BY DEF IInv, FoundInv
<1>1. /\ phase = "find" /\ w \in DOMAIN rng /\ UNCHANGED <<prev, phase, sl, mk, lc, rc, rng>>
      /\ MergeOf(w)
      /\ \A v \in Workers : v # w =>
           pc'[v] = pc[v] /\ right'[v] = right[v] /\ start'[v] = start[v]
  BY <1>0, OnlyOwnIndexes DEF MergeInv
<1>2. UNCHANGED reserved
  BY DEF Work, Advance, EnterRun, Filter, Store, LeaveRun, Exhaust, outVars
<1>3. ASSUME NEW v \in DOMAIN rng, NEW a \in 0 .. Len(lc) - 1, NEW b \in 0 .. Len(rc) - 1,
             InRange(rng[v], a, b), SameTarget(a, b), Passes(PairAt(a, b))
      PROVE  Seen(v, a, b)' <=> Seen(v, a, b)
  <2>1. CASE v = w
    BY <1>0, <1>1, <1>3, <2>1, SeenStep
  <2>2. CASE v # w
    <3>1. v \in Workers
      BY <1>0, <1>1, GroupNumbers
    <3> QED BY <1>1, <2>2, <3>1 DEF Seen
  <2> QED BY <2>1, <2>2
<1>4. FoundInGroup'
  <2>1. ASSUME NEW v \in DOMAIN rng, NEW a \in 0 .. Len(lc) - 1, NEW b \in 0 .. Len(rc) - 1,
               InRange(rng[v], a, b), SameTarget(a, b), Passes(PairAt(a, b))
        PROVE  PairAt(a, b) \in Range(reserved) <=> Seen(v, a, b)'
    BY <1>1, <1>3, <2>1 DEF FoundInv, FoundInGroup, FoundBy
  <2> QED BY <1>1, <1>2, <2>1 DEF FoundInGroup, FoundBy, SameTarget, Passes, PairAt
<1>5. FoundElsewhere'
  BY <1>1, <1>2 DEF FoundInv, FoundElsewhere, Matches, InGroup, Behind, LeftSection, RightKeyOf
<1> QED BY <1>1, <1>2, <1>4, <1>5 DEF FoundInv, OnlyMatches, ReservedOnce

-----------------------------------------------------------------------------
(* What construct goes past between the groups.                            *)

\* The section and the key of a matching pair are ones that construct visits.
LEMMA MatchFields ==
  ASSUME TypeOK, NEW p \in Matches(prev)
  PROVE  /\ LeftSection(p) \in Sections
         /\ RightKeyOf(p) \in 0 .. MatchKeys - 1
<1>1. prev \in Seq(Entry)
  BY BuildAssumption, Zenon DEF TypeOK
<1>2. p[1] \in DOMAIN prev /\ p[2] \in DOMAIN prev
  BY DEF Matches
<1>3. prev[p[1]] \in Entry /\ prev[p[2]] \in Entry
  BY <1>1, <1>2
<1> QED BY <1>3, EntryFields, Zenon DEF LeftSection, RightKeyOf

\* A step outside of groups that goes past no match keeps the reservations in step.
LEMMA SamePlace ==
  ASSUME FoundInv, phase \notin {"find", "cancelled"}, phase' # "find",
         UNCHANGED <<prev, reserved>>,
         phase' # "cancelled" => \A p \in Matches(prev) : Behind(p)' <=> Behind(p)
  PROVE  FoundInGroup' /\ FoundElsewhere' /\ OnlyMatches' /\ ReservedOnce'
<1>1. FoundInGroup'
  BY DEF FoundInGroup
<1>2. FoundElsewhere'
  BY DEF FoundInv, FoundElsewhere, Matches
<1> QED BY <1>1, <1>2 DEF FoundInv, OnlyMatches, ReservedOnce

\* A group that is skipped has no match.
LEMMA SkipKeepsFound ==
  ASSUME IInv, FoundInv, SkipGroup
  PROVE  FoundInGroup' /\ FoundElsewhere' /\ OnlyMatches' /\ ReservedOnce'
<1>1. /\ phase = "group" /\ phase' = "group" /\ mk' = mk + 1
      /\ mk \in 0 .. MatchKeys - 1
      /\ UNCHANGED <<prev, sl, reserved>>
      /\ TypeOK /\ MatchKeys \in Nat
  BY ConstantTypes DEF IInv, TypeOK, SkipGroup, outVars
<1>2. /\ prev \in Seq(Entry) /\ SortedTable(prev)
      /\ sl \in Sections /\ MatchingSection(sl) \in Sections
  BY <1>1, BuildAssumption, MatchingSectionType, Zenon DEF TypeOK
<1>3. /\ IsLeftSpan(prev, sl, mk, GroupLeft)
      /\ IsRightSpan(prev, MatchingSection(sl), mk, GroupRight)
  BY <1>1, <1>2, CandidatesExact, Zenon DEF GroupLeft, GroupRight
<1>4. ASSUME NEW p \in Matches(prev), InGroup(p)
      PROVE  FALSE
  <2>1. /\ p[1] \in 1 .. Len(prev) /\ p[2] \in 1 .. Len(prev)
        /\ IsMatch(prev, p[1], p[2])
    BY <1>2 DEF Matches
  <2>2. /\ prev[p[1]].section = sl /\ prev[p[2]].key = mk
        /\ prev[p[2]].section = MatchingSection(sl)
    BY <1>4, <2>1 DEF InGroup, LeftSection, RightKeyOf, IsMatch
  <2>3. \E a \in 1 .. Len(GroupLeft) : TRUE
    <3> HIDE DEF GroupLeft
    <3> QED BY <1>3, <2>1, <2>2 DEF IsLeftSpan
  <2>4. \E b \in 1 .. Len(GroupRight) : TRUE
    <3> HIDE DEF GroupRight
    <3> QED BY <1>3, <2>1, <2>2 DEF IsRightSpan
  <2>5. GroupLeft = <<>> \/ GroupRight = <<>>
    BY DEF SkipGroup, GroupEmpty
  <2> HIDE DEF GroupLeft, GroupRight
  <2> QED BY <2>3, <2>4, <2>5
<1>5. ASSUME NEW p \in Matches(prev)
      PROVE  Behind(p)' <=> Behind(p)
  <2>1. RightKeyOf(p) \in 0 .. MatchKeys - 1 /\ ~ InGroup(p)
    BY <1>1, <1>4, MatchFields
  <2>2. LeftSection(p) = sl => (RightKeyOf(p) < mk + 1 <=> RightKeyOf(p) < mk)
    BY <1>1, <2>1 DEF InGroup
  <2> QED BY <1>1, <2>2 DEF Behind, LeftSection, RightKeyOf
<1> QED BY <1>1, <1>5, SamePlace

\* A section ends when all its keys have been gone past; the last one ends the walk.
LEMMA EndSectionKeepsFound ==
  ASSUME IInv, FoundInv, EndSection
  PROVE  FoundInGroup' /\ FoundElsewhere' /\ OnlyMatches' /\ ReservedOnce'
<1>1. /\ phase = "group" /\ mk = MatchKeys /\ sl' = MatchingSection(sl)
      /\ phase' = (IF sl' = 3 THEN "count" ELSE "section")
      /\ UNCHANGED <<prev, reserved>>
      /\ TypeOK /\ sl \in Sections /\ MatchKeys \in Nat
  BY ConstantTypes DEF IInv, TypeOK, EndSection, outVars
<1>2. ASSUME NEW p \in Matches(prev)
      PROVE  Behind(p)' <=> Behind(p)
  <2>1. LeftSection(p) \in Sections /\ RightKeyOf(p) \in 0 .. MatchKeys - 1
    BY <1>1, MatchFields
  <2>2. Behind(p) <=> Turn(LeftSection(p)) <= Turn(sl)
    BY <1>1, <2>1 DEF Behind, Sections, Turn
  <2>3. Behind(p)' <=> sl' = 3 \/ Turn(LeftSection(p)) < Turn(sl')
    BY <1>1 DEF Behind, LeftSection
  <2>4. (sl' = 3 \/ Turn(LeftSection(p)) < Turn(sl')) <=> Turn(LeftSection(p)) <= Turn(sl)
    <3>1. sl \in {0, 1, 2, 3} /\ LeftSection(p) \in {0, 1, 2, 3}
      BY <1>1, <2>1 DEF Sections
    <3>2. /\ sl = 3 => sl' = 0
          /\ sl = 0 => sl' = 2
          /\ sl = 2 => sl' = 1
          /\ sl = 1 => sl' = 3
      BY <1>1 DEF MatchingSection, Rotate
    <3> HIDE DEF LeftSection
    <3> QED BY <3>1, <3>2 DEF Turn
  <2> QED BY <2>2, <2>3, <2>4
<1> QED BY <1>1, <1>2, SamePlace

\* At the start of a group no worker has gone past a pair and none is reserved.
LEMMA BeginGroupKeepsFound ==
  ASSUME IInv, FoundInv, BeginGroup
  PROVE  FoundInGroup' /\ FoundElsewhere' /\ OnlyMatches' /\ ReservedOnce'
<1>0. TypeOK
  BY DEF IInv
<1>1. /\ phase = "group" /\ phase' = "find" /\ mk \in 0 .. MatchKeys - 1
      /\ UNCHANGED <<prev, sl, mk, reserved>>
      /\ DOMAIN rng' \subseteq Workers
      /\ lc' \in Seq(SpanEntry) /\ rc' \in Seq(SpanEntry)
      /\ RangesOf(lc', rc', rng')
  BY <1>0, GroupEntered, ConstantTypes DEF BeginGroup, GroupInv, TypeOK, outVars
<1>2. /\ prev \in Seq(Entry)
      /\ IsLeftSpan(prev, sl, mk, lc') /\ IsRightSpan(prev, MatchingSection(sl), mk, rc')
  <2>1. SpansExact'
    BY <1>0, SpansEntered
  <2> QED BY <1>0, <1>1, <2>1, BuildAssumption, Zenon DEF SpansExact, TypeOK
<1>3. ASSUME NEW w \in DOMAIN rng', NEW a \in 0 .. Len(lc') - 1, NEW b \in 0 .. Len(rc') - 1,
             InRange(rng'[w], a, b), SameTarget(a, b)', Passes(PairAt(a, b))'
      PROVE  PairAt(a, b)' \notin Range(reserved) /\ ~ Seen(w, a, b)'
  <2>1. /\ lc'[a + 1].target = rc'[b + 1].target
        /\ <<prev[lc'[a + 1].pos].meta, prev[rc'[b + 1].pos].meta>> \in Pairable
    BY <1>1, <1>3 DEF SameTarget, Passes, PairAt
  <2>2. /\ PairAt(a, b)' \in Matches(prev)
        /\ LeftSection(PairAt(a, b)') = sl /\ RightKeyOf(PairAt(a, b)') = mk
    <3>1. SpansOfMatches(prev, sl, mk, lc', rc')
      BY <1>1, <1>2, SpansMatch, Zenon
    <3>2. /\ <<lc'[a + 1].pos, rc'[b + 1].pos>> \in Matches(prev)
          /\ prev[lc'[a + 1].pos].section = sl /\ prev[rc'[b + 1].pos].key = mk
      BY <2>1, <3>1 DEF SpansOfMatches
    <3> QED BY <3>2 DEF PairAt, LeftSection, RightKeyOf
  <2>3. ~ Behind(PairAt(a, b)')
    <3>1. ~ (mk < mk) /\ ~ (Turn(sl) < Turn(sl))
      BY <1>1 DEF Turn
    <3> QED BY <1>1, <2>2, <3>1 DEF Behind
  <2>4. PairAt(a, b)' \notin Range(reserved)
    BY <1>1, <2>2, <2>3 DEF FoundInv, FoundElsewhere
  <2>5. pc'[w] = "scan" /\ right'[w] = rng'[w].rb
    BY <1>1 DEF BeginGroup
  <2>6. rng'[w].rb \in Nat /\ b \in Nat /\ rng'[w].rb <= b
    BY <1>1, <1>3 DEF RangesOf, InRange
  <2> QED BY <2>4, <2>5, <2>6 DEF Seen
<1>4. FoundInGroup'
  BY <1>1, <1>3 DEF FoundInGroup, FoundBy
<1>5. FoundElsewhere'
  <2>1. \A p \in Matches(prev) : Behind(p)' <=> Behind(p)
    BY <1>1 DEF Behind, LeftSection, RightKeyOf
  <2> QED BY <1>1, <2>1 DEF FoundInv, FoundElsewhere, Matches
<1> QED BY <1>1, <1>4, <1>5 DEF FoundInv, OnlyMatches, ReservedOnce

\* When all workers have gone past their ranges, every match of the group is reserved.
LEMMA JoinKeepsFound ==
  ASSUME IInv, FoundInv, JoinGroup
  PROVE  FoundInGroup' /\ FoundElsewhere' /\ OnlyMatches' /\ ReservedOnce'
<1>0. TypeOK /\ GroupInv /\ SpansExact /\ MatchKeys \in Nat
  BY ConstantTypes DEF IInv, FoundInv
<1>1. /\ phase = "find" /\ phase' = "group" /\ mk' = mk + 1 /\ mk \in Nat
      /\ \A w \in Workers : pc[w] = "idle"
      /\ UNCHANGED <<prev, sl, reserved>>
  BY <1>0 DEF JoinGroup, TypeOK, outVars
<1>2. ASSUME NEW p \in Matches(prev)
      PROVE  p \in Range(reserved) <=> Behind(p)'
  <2>1. CASE InGroup(p)
    <3>1. PICK w \in DOMAIN rng, a \in 0 .. Len(lc) - 1, b \in 0 .. Len(rc) - 1 :
            /\ InRange(rng[w], a, b) /\ SameTarget(a, b)
            /\ PairAt(a, b) = p /\ Passes(PairAt(a, b))
      BY <1>0, <1>1, <2>1, MatchHasPlace
    <3>2. Seen(w, a, b)
      BY <1>0, <1>1, GroupNumbers DEF Seen
    <3>3. p \in Range(reserved)
      BY <1>1, <3>1, <3>2 DEF FoundInv, FoundInGroup, FoundBy
    <3>4. Behind(p)'
      <4>1. LeftSection(p) = sl /\ RightKeyOf(p) < mk + 1
        BY <1>1, <2>1 DEF InGroup
      <4> QED BY <1>1, <4>1 DEF Behind, LeftSection, RightKeyOf
    <3> QED BY <3>3, <3>4
  <2>2. CASE ~ InGroup(p)
    <3>1. p \in Range(reserved) <=> Behind(p)
      BY <1>1, <2>2 DEF FoundInv, FoundElsewhere
    <3>2. RightKeyOf(p) \in 0 .. MatchKeys - 1
      BY <1>0, MatchFields
    <3>3. LeftSection(p) = sl => (RightKeyOf(p) < mk + 1 <=> RightKeyOf(p) < mk)
      BY <1>0, <1>1, <2>2, <3>2 DEF InGroup
    <3> QED BY <1>1, <3>1, <3>3 DEF Behind, LeftSection, RightKeyOf
  <2> QED BY <2>1, <2>2
<1>3. FoundElsewhere'
  BY <1>1, <1>2 DEF FoundElsewhere, Matches
<1> QED BY <1>1, <1>3 DEF FoundInv, FoundInGroup, OnlyMatches, ReservedOnce

-----------------------------------------------------------------------------
(* The inductive invariant.                                                *)

\* The walk of the coordinator keeps its course.
LEMMA WalkStep ==
  ASSUME IInv, FoundInv, [Next]_vars
  PROVE  WalkInv'
<1>0. WalkInv /\ cursor \in Nat /\ Capacity \in Nat
  BY ConstantTypes DEF IInv, TypeOK, FoundInv
<1>1. CASE BeginTable \/ BeginSection \/ SkipGroup \/ BeginGroup \/ JoinGroup
  BY <1>1 DEF BeginTable, BeginSection, SkipGroup, BeginGroup, JoinGroup, WalkInv
<1>2. CASE EndSection
  BY <1>2 DEF EndSection, WalkInv
<1>3. CASE Finish
  BY <1>0, <1>3 DEF Finish, WalkInv, outVars
<1>4. ASSUME NEW w \in Workers, Work(w)
      PROVE  WalkInv'
  <2>1. phase' = "find"
    BY <1>4, OnlyOwnIndexes DEF IInv
  <2> QED BY <2>1 DEF WalkInv
<1>5. CASE Stopped \/ UNCHANGED vars
  BY <1>0, <1>5 DEF Stopped, WalkInv, vars, tableVars, outVars
<1> QED BY <1>1, <1>2, <1>3, <1>4, <1>5 DEF Next, Coordinate

\* Every step keeps the reservations in step with what has been gone past.
LEMMA FoundStep ==
  ASSUME IInv, FoundInv, [Next]_vars
  PROVE  FoundInGroup' /\ FoundElsewhere' /\ OnlyMatches' /\ ReservedOnce'
<1>0. TypeOK
  BY DEF IInv
<1>1. CASE BeginTable
  <2>1. /\ phase = "table" /\ phase' \in {"section", "cancelled"}
        /\ UNCHANGED <<prev, sl, mk, reserved>>
    BY <1>1 DEF BeginTable, outVars
  <2>2. ASSUME NEW p \in Matches(prev), phase' # "cancelled"
        PROVE  Behind(p)' <=> Behind(p)
    BY <2>1, <2>2 DEF Behind, LeftSection
  <2> QED BY <2>1, <2>2, SamePlace
<1>2. CASE BeginSection
  <2>1. /\ phase = "section" /\ phase' \in {"group", "cancelled"} /\ mk' = 0
        /\ UNCHANGED <<prev, sl, reserved>>
    BY <1>2 DEF BeginSection, outVars
  <2>2. ASSUME NEW p \in Matches(prev), phase' # "cancelled"
        PROVE  Behind(p)' <=> Behind(p)
    <3>1. RightKeyOf(p) \in 0 .. MatchKeys - 1
      BY <1>0, MatchFields
    <3>2. ~ (RightKeyOf(p) < 0)
      BY <3>1
    <3> QED BY <2>1, <2>2, <3>2 DEF Behind, LeftSection, RightKeyOf
  <2> QED BY <2>1, <2>2, SamePlace
<1>3. CASE Finish
  <2>1. /\ phase = "count" /\ phase' \in {"sorted", "thrown"}
        /\ UNCHANGED <<prev, sl, mk, reserved>>
    BY <1>3 DEF Finish, outVars
  <2>2. ASSUME NEW p \in Matches(prev)
        PROVE  Behind(p)' <=> Behind(p)
    BY <2>1 DEF Behind
  <2> QED BY <2>1, <2>2, SamePlace
<1>4. CASE Stopped \/ UNCHANGED vars
  <2>1. UNCHANGED vars
    BY <1>4 DEF Stopped
  <2>2. /\ UNCHANGED <<prev, phase, sl, mk, lc, rc, rng>>
        /\ UNCHANGED <<pc, right, start, reserved>>
    BY <2>1 DEF vars, tableVars, workerVars, outVars
  <2>3. ASSUME NEW w \in DOMAIN rng PROVE FoundBy(w)' <=> FoundBy(w)
    BY <2>2 DEF FoundBy, Seen, SameTarget, PairAt, Passes
  <2>4. FoundInGroup'
    BY <2>2, <2>3 DEF FoundInv, FoundInGroup
  <2>5. \A p \in Matches(prev) : (InGroup(p)' <=> InGroup(p)) /\ (Behind(p)' <=> Behind(p))
    BY <2>2 DEF InGroup, Behind, LeftSection, RightKeyOf
  <2>6. FoundElsewhere'
    BY <2>2, <2>5 DEF FoundInv, FoundElsewhere
  <2> QED BY <2>2, <2>4, <2>6 DEF FoundInv, OnlyMatches, ReservedOnce
<1>5. ASSUME NEW w \in Workers, Work(w)
      PROVE  FoundInGroup' /\ FoundElsewhere' /\ OnlyMatches' /\ ReservedOnce'
  BY <1>5, ReserveKeepsFound, WorkKeepsFound
<1>6. CASE SkipGroup \/ BeginGroup \/ JoinGroup \/ EndSection
  BY <1>6, SkipKeepsFound, BeginGroupKeepsFound, JoinKeepsFound, EndSectionKeepsFound
<1> QED BY <1>1, <1>2, <1>3, <1>4, <1>5, <1>6 DEF Next, Coordinate

\* Nothing has been gone past and nothing reserved when construct begins.
LEMMA InitFound ==
  Init => FoundInv
<1> SUFFICES ASSUME Init PROVE FoundInv
  OBVIOUS
<1>1. /\ prev \in Tables /\ phase = "table" /\ sl = 3 /\ reserved = <<>>
      /\ \A w \in Workers : pc[w] = "idle"
  BY DEF Init
<1>2. Range(reserved) = {}
  BY <1>1 DEF Range
<1>3. TypeOK
  BY InitInv DEF IInv
<1>4. ASSUME NEW p \in Matches(prev)
      PROVE  ~ Behind(p)
  <2>1. LeftSection(p) \in {0, 1, 2, 3}
    BY <1>3, MatchFields DEF Sections
  <2> HIDE DEF LeftSection
  <2> QED BY <1>1, <2>1 DEF Behind, Turn
<1>5. FoundElsewhere /\ OnlyMatches /\ ReservedOnce
  BY <1>1, <1>2, <1>4 DEF FoundElsewhere, OnlyMatches, ReservedOnce
<1>6. SpansExact /\ MergeInv /\ FoundInGroup /\ WalkInv
  BY <1>1 DEF SpansExact, MergeInv, FoundInGroup, WalkInv
<1> QED BY <1>5, <1>6 DEF FoundInv

\* The strengthened invariant: between groups and within them, the pairs that have
\* been reserved are the matches that the workers have gone past.
THEOREM Exactness ==
  Spec => []ExactInv
<1>1. Init => ExactInv
  BY InitInv, InitFound DEF ExactInv
<1>2. ExactInv /\ [Next]_vars => ExactInv'
  <2> SUFFICES ASSUME IInv, FoundInv, [Next]_vars PROVE IInv' /\ FoundInv'
    BY DEF ExactInv
  <2>1. IInv'
    BY TypeStep, GroupStep, WorkerStep, SlotStep DEF IInv
  <2>2. SpansExact' /\ MergeInv'
    BY SpansStep, MergeStep DEF IInv, FoundInv
  <2> QED BY <2>1, <2>2, FoundStep, WalkStep DEF FoundInv
<1> QED BY <1>1, <1>2, PTL DEF Spec

\* When all groups are done, the reservations are the matches, and as many.
LEMMA AllFound ==
  ASSUME ExactInv, phase \in {"count", "sorted", "thrown"}
  PROVE  /\ Range(reserved) = Matches(prev)
         /\ IsFiniteSet(Matches(prev)) /\ Cardinality(Matches(prev)) = cursor
<1>1. Range(reserved) = Matches(prev)
  BY DEF ExactInv, FoundInv, FoundElsewhere, OnlyMatches, Behind
<1>2. /\ reserved \in Seq(Pairings) /\ Len(reserved) = cursor /\ cursor \in Nat
      /\ \A i, j \in 1 .. cursor : reserved[i] = reserved[j] => i = j
  BY DEF ExactInv, IInv, TypeOK, FoundInv, ReservedOnce
<1>3. reserved \in Bijection(1 .. cursor, Range(reserved))
  <2>1. DOMAIN reserved = 1 .. cursor
    BY <1>2
  <2> HIDE DEF Pairings
  <2>2. reserved \in [1 .. cursor -> Range(reserved)]
    BY <1>2, <2>1 DEF Range
  <2> QED BY <1>2, <2>1, <2>2 DEF Bijection, Injection, Surjection, IsInjective, Range
<1>4. IsFiniteSet(1 .. cursor) /\ Cardinality(1 .. cursor) = cursor
  BY <1>2, FS_Interval
<1>5. IsFiniteSet(Range(reserved)) /\ Cardinality(Range(reserved)) = cursor
  <2>1. ExistsBijection(1 .. cursor, Range(reserved))
    BY <1>3 DEF ExistsBijection
  <2> QED BY <1>4, <2>1, FS_Bijection
<1> QED BY <1>1, <1>5

(***************************************************************************)
(* A table that construct returns holds every pair that matches, once: no  *)
(* pair is lost between the ranges of two threads and none is found twice. *)
(***************************************************************************)
THEOREM EveryMatchFound ==
  Spec => []EveryMatchOnce
<1>1. ExactInv => EveryMatchOnce
  <2> SUFFICES ASSUME ExactInv, phase = "sorted"
               PROVE  /\ cursor = Cardinality(Matches(prev))
                      /\ {out[s] : s \in 0 .. cursor - 1} = Matches(prev)
    BY DEF EveryMatchOnce
  <2>1. Range(reserved) = Matches(prev) /\ Cardinality(Matches(prev)) = cursor
    BY AllFound
  <2>2. /\ cursor \in Nat /\ cursor <= Capacity /\ Capacity \in Nat
        /\ reserved \in Seq(Pairings) /\ Len(reserved) = cursor
    BY ConstantTypes DEF ExactInv, IInv, TypeOK, FoundInv, WalkInv
  <2>3. \A s \in 0 .. cursor - 1 : out[s] = reserved[s + 1]
    <3>1. \A w \in Workers : ~ Storing(w)
      BY DEF ExactInv, IInv, WorkerInv, Storing
    <3>2. \A s \in 0 .. cursor - 1 : s \in Slots /\ s < cursor
      BY <2>2 DEF Slots
    <3> QED BY <3>1, <3>2 DEF ExactInv, IInv, SlotProtocol, FilledBelow
  <2>4. {out[s] : s \in 0 .. cursor - 1} = Range(reserved)
    <3>1. DOMAIN reserved = 1 .. cursor
      BY <2>2
    <3>2. ASSUME NEW s \in 0 .. cursor - 1
          PROVE  out[s] \in Range(reserved)
      BY <2>2, <2>3, <3>1 DEF Range
    <3>3. ASSUME NEW x \in Range(reserved)
          PROVE  \E s \in 0 .. cursor - 1 : out[s] = x
      <4>1. PICK i \in 1 .. cursor : reserved[i] = x
        BY <3>1 DEF Range
      <4>2. i - 1 \in 0 .. cursor - 1 /\ (i - 1) + 1 = i
        BY <2>2
      <4>3. out[i - 1] = reserved[i]
        BY <2>3, <4>2
      <4> QED BY <4>1, <4>2, <4>3
    <3> QED BY <3>2, <3>3
  <2> QED BY <2>1, <2>4
<1> QED BY Exactness, <1>1, PTL

-----------------------------------------------------------------------------
(* The refinement.                                                         *)

\* A reservation finds one more pairing that is wanted.
LEMMA ReserveFinds ==
  ASSUME ExactInv, NEW w \in Workers, Reserve(w)
  PROVE  Promise!Find
<1>1. /\ phase = "find" /\ UNCHANGED <<prev, phase>>
      /\ Candidate(w) \in Matches(prev) \ Range(reserved)
      /\ Range(reserved') = Range(reserved) \cup {Candidate(w)}
  <2>1. IInv /\ FoundInv /\ Work(w)
    BY DEF ExactInv, Work
  <2>2. /\ Candidate(w) \in Matches(prev) /\ Candidate(w) \notin Range(reserved)
        /\ Range(reserved') = Range(reserved) \cup {Candidate(w)}
    BY <2>1, ReserveAdds
  <2>3. phase = "find" /\ UNCHANGED <<prev, phase>>
    BY <2>1, OnlyOwnIndexes DEF IInv
  <2> QED BY <2>2, <2>3
<1>2. StatusNow = "building" /\ StatusNow' = "building"
  BY <1>1 DEF StatusNow
<1>3. Matches(prev)' = Matches(prev)
  BY <1>1
<1> QED BY <1>1, <1>2, <1>3 DEF Promise!Find, Promise!Building, PairsSoFar

\* TableSpec counts with the Cardinality of its own instance, which is the same.
LEMMA SameCount ==
  ASSUME NEW S
  PROVE  Promise!Cardinality(S) = Cardinality(S)
BY DEF Promise!Cardinality, Cardinality

\* The overflow check completes or refuses the table for the promised reason.
LEMMA FinishDecides ==
  ASSUME ExactInv, Finish
  PROVE  Promise!Complete \/ Promise!Refuse
<1>1. /\ phase = "count" /\ UNCHANGED <<prev, reserved>>
      /\ phase' = IF cursor > Capacity THEN "thrown" ELSE "sorted"
  BY DEF Finish, outVars
<1>2. /\ PairsSoFar = Matches(prev) /\ Cardinality(PairsSoFar) = cursor
      /\ PairsSoFar' = PairsSoFar
  <2>1. Range(reserved) = Matches(prev) /\ Cardinality(Matches(prev)) = cursor
    BY <1>1, AllFound
  <2>2. PairsSoFar = Range(reserved) /\ PairsSoFar' = PairsSoFar
    BY <1>1 DEF PairsSoFar
  <2> QED BY <2>1, <2>2
<1>3. /\ StatusNow = "building"
      /\ StatusNow' = IF cursor > Capacity THEN "refused" ELSE "complete"
  BY <1>1 DEF StatusNow
<1>4. cursor \in Nat /\ Capacity \in Nat /\ Matches(prev)' = Matches(prev)
  <2>1. cursor \in Nat /\ Capacity \in Nat
    BY ConstantTypes DEF ExactInv, IInv, TypeOK
  <2> QED BY <1>1, <2>1
<1>5. CASE cursor > Capacity
  <2>1. StatusNow' = "refused" /\ Promise!Cardinality(PairsSoFar) > Capacity
    BY <1>2, <1>3, <1>5, SameCount
  <2> QED BY <1>2, <1>3, <1>4, <2>1, Zenon DEF Promise!Refuse, Promise!Building
<1>6. CASE ~ (cursor > Capacity)
  <2>1. StatusNow' = "complete" /\ Promise!Cardinality(PairsSoFar) <= Capacity
    BY <1>2, <1>3, <1>4, <1>6, SameCount
  <2> QED BY <1>2, <1>3, <1>4, <2>1, Zenon DEF Promise!Complete, Promise!Building
<1> QED BY <1>5, <1>6

\* Every step of construct and its workers is a step of TableSpec or changes nothing there.
LEMMA StepRefines ==
  ASSUME ExactInv, [Next]_vars
  PROVE  [Promise!Next]_<<Matches(prev), PairsSoFar, StatusNow>>
<1>1. CASE BeginTable \/ BeginSection
  <2>1. /\ UNCHANGED <<prev, reserved>> /\ phase \in {"table", "section"}
        /\ phase' \in {"section", "group", "cancelled"}
    BY <1>1 DEF BeginTable, BeginSection, outVars
  <2>2. UNCHANGED <<Matches(prev), PairsSoFar>>
    BY <2>1 DEF PairsSoFar
  <2>3. StatusNow = "building" /\ StatusNow' \in {"building", "abandoned"}
    BY <2>1 DEF StatusNow
  <2> QED BY <2>2, <2>3 DEF Promise!Next, Promise!Abandon, Promise!Building
<1>2. CASE SkipGroup \/ BeginGroup \/ JoinGroup \/ EndSection
  <2>1. /\ UNCHANGED <<prev, reserved>> /\ phase \in {"group", "find"}
        /\ phase' \in {"group", "find", "count", "section"}
    BY <1>2 DEF SkipGroup, BeginGroup, JoinGroup, EndSection, outVars
  <2> QED BY <2>1 DEF PairsSoFar, StatusNow
<1>3. CASE Finish
  BY <1>3, FinishDecides DEF Promise!Next
<1>4. ASSUME NEW w \in Workers, Work(w)
      PROVE  [Promise!Next]_<<Matches(prev), PairsSoFar, StatusNow>>
  <2>1. CASE Reserve(w)
    BY <2>1, ReserveFinds DEF Promise!Next
  <2>2. CASE ~ Reserve(w)
    <3>1. UNCHANGED <<prev, phase, reserved>>
      BY <1>4, <2>2 DEF Work, Advance, EnterRun, Filter, Store, LeaveRun, Exhaust,
                        tableVars, outVars
    <3> QED BY <3>1 DEF PairsSoFar, StatusNow
  <2> QED BY <2>1, <2>2
<1>5. CASE Stopped \/ UNCHANGED vars
  <2>1. UNCHANGED <<prev, phase, reserved>>
    BY <1>5 DEF Stopped, vars, tableVars, outVars
  <2> QED BY <2>1 DEF PairsSoFar, StatusNow
<1> QED BY <1>1, <1>2, <1>3, <1>4, <1>5 DEF Next, Coordinate

(***************************************************************************)
(* construct implements TableSpec: for any number of threads the table     *)
(* collects matching pairs one at a time and none twice, is completed only *)
(* with all of them and refused only when they do not fit.                 *)
(***************************************************************************)
THEOREM BuildRefinesTableSpec ==
  Spec => ImplementsTableSpec
<1>1. Init => Promise!Init
  BY DEF Init, Promise!Init, PairsSoFar, StatusNow, Range
<1>2. ExactInv /\ [Next]_vars => [Promise!Next]_<<Matches(prev), PairsSoFar, StatusNow>>
  BY StepRefines
<1> QED BY Exactness, <1>1, <1>2, PTL DEF Spec, ImplementsTableSpec, Promise!Spec

=============================================================================
