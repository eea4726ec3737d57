--------------------------- MODULE QualitiesProofs ---------------------------
(***************************************************************************)
(* The chain search and the harvester's question, for any plots, sets,     *)
(* filters, hash and round keys: the validator accepts what the search     *)
(* finds (FoundValidates), the search finds everything the validator would *)
(* accept (EveryChainFound) and nothing twice (NoChainTwice), and what the *)
(* caller gets after one or two passes is exact (AnswerExact).             *)
(*                                                                         *)
(* The search and the validator bracket the running hash differently and   *)
(* find the starting set differently.  The invariant of the stack says     *)
(* that an entry carries the hash the validator would compute for its      *)
(* fragments, that it starts in the set it says, and that what can still   *)
(* be found has a prefix on the stack or a set that is not yet seeded.     *)
(***************************************************************************)
EXTENDS Qualities, ExtremaLemmas, FiniteSetTheorems, FunctionTheorems, SequenceTheorems

-----------------------------------------------------------------------------
(* Sequences.                                                              *)

\* t holds the elements of s at the positions of K in their order; at says where from.
IsSelection(s, K, t, at) ==
  /\ at \in [1 .. Len(t) -> K]
  /\ \A i \in 1 .. Len(t) : t[i] = s[at[i]]
  /\ \A i, j \in 1 .. Len(t) : i < j => at[i] < at[j]
  /\ \A k \in K : \E i \in 1 .. Len(t) : at[i] = k

\* Kept selects the positions of K.
LEMMA KeptSelects ==
  ASSUME NEW S, NEW s \in Seq(S), NEW K \in SUBSET (1 .. Len(s))
  PROVE  Kept(s, K) \in Seq(S) /\ \E at : IsSelection(s, K, Kept(s, K), at)
<1> DEFINE L == Len(s)
           Link(f, j) == IF j = 0 THEN <<>>
                         ELSE IF j \in K THEN Append(f[j - 1], s[j]) ELSE f[j - 1]
           Builds(f, n) == f = [j \in 0 .. n |-> Link(f, j)]
           Low(n) == {k \in K : k <= n}
           Good(t, n) == t \in Seq(S) /\ \E at : IsSelection(s, Low(n), t, at)
           T == {n \in 0 .. L : ~ \E f : Builds(f, n)}
<1>1. L \in Nat
  OBVIOUS
<1>0. \A k \in K : k \in Nat /\ 1 <= k /\ k <= L
  OBVIOUS
<1> HIDE DEF L
<1>2. T = {}
  <2>1. SUFFICES ASSUME T # {} PROVE FALSE
    OBVIOUS
  <2> DEFINE n == Min(T)
  <2>2. n \in T /\ \A y \in T : n <= y
    <3>1. T \subseteq Nat
      BY <1>1
    <3> HIDE DEF T
    <3> QED BY <2>1, <3>1, MinNat
  <2> HIDE DEF n
  <2>3. n \in 0 .. L /\ ~ \E f : Builds(f, n)
    BY <2>2
  <2>4. CASE n = 0
    <3> DEFINE f == [j \in 0 .. 0 |-> <<>>]
    <3>1. Builds(f, 0)
      OBVIOUS
    <3> HIDE DEF Builds
    <3> QED BY <2>3, <2>4, <3>1
  <2>5. CASE n # 0
    <3>1. n - 1 \in 0 .. L /\ n - 1 \notin T
      <4> HIDE DEF T, Builds
      <4> QED BY <1>1, <2>2, <2>3, <2>5
    <3>2. PICK f : Builds(f, n - 1)
      BY <3>1
    <3> DEFINE h == [j \in 0 .. n |-> Link(f, j)]
    <3>3. ASSUME NEW j \in 0 .. n
          PROVE  h[j] = Link(h, j)
      <4>1. CASE j = 0
        BY <4>1
      <4>2. CASE j # 0
        <5>1. j - 1 \in 0 .. n - 1 /\ j - 1 \in 0 .. n
          BY <1>1, <2>3, <4>2
        <5>2. h[j - 1] = Link(f, j - 1)
          BY <5>1
        <5>3. f[j - 1] = Link(f, j - 1)
          BY <3>2, <5>1
        <5>4. h[j - 1] = f[j - 1]
          BY <5>2, <5>3
        <5>5. h[j] = Link(f, j)
          OBVIOUS
        <5> HIDE DEF h
        <5> QED BY <4>2, <5>4, <5>5
      <4> QED BY <4>1, <4>2
    <3>4. Builds(h, n)
      <4> DEFINE g == [j \in 0 .. n |-> Link(h, j)]
      <4>1. \A j \in 0 .. n : h[j] = g[j]
        BY <3>3
      <4>2. h = g
        BY <4>1
      <4> QED BY <4>2
    <3> HIDE DEF Builds
    <3> QED BY <2>3, <3>4
  <2> QED BY <2>4, <2>5
<1> DEFINE kept == CHOOSE f : Builds(f, L)
<1>3. Builds(kept, L)
  <2>1. L \in 0 .. L /\ L \notin T
    <3> HIDE DEF T
    <3> QED BY <1>1, <1>2
  <2>2. \E f : Builds(f, L)
    BY <2>1
  <2> HIDE DEF Builds
  <2> QED BY <2>2
<1>4. Kept(s, K) = kept[L]
  BY Zenon DEF Kept, L
<1> HIDE DEF kept
<1>5. kept[0] = <<>>
  BY <1>1, <1>3
<1>6. ASSUME NEW n \in 1 .. L
      PROVE  kept[n] = IF n \in K THEN Append(kept[n - 1], s[n]) ELSE kept[n - 1]
  <2>1. n \in 0 .. L /\ n # 0
    BY <1>1
  <2>2. kept[n] = Link(kept, n)
    <3> HIDE DEF Link
    <3> QED BY <1>3, <2>1
  <2> QED BY <2>1, <2>2
<1> DEFINE W == {n \in 0 .. L : ~ Good(kept[n], n)}
<1>7. W = {}
  <2>1. SUFFICES ASSUME W # {} PROVE FALSE
    OBVIOUS
  <2> DEFINE n == Min(W)
  <2>2. n \in W /\ \A y \in W : n <= y
    <3>1. W \subseteq Nat
      BY <1>1
    <3> HIDE DEF W
    <3> QED BY <2>1, <3>1, MinNat
  <2> HIDE DEF n
  <2>3. n \in 0 .. L /\ ~ Good(kept[n], n)
    BY <2>2
  <2>4. CASE n = 0
    <3>1. Low(0) = {}
      <4>1. ASSUME NEW k \in Low(0) PROVE FALSE
        <5>1. k \in K /\ k <= 0
          OBVIOUS
        <5>2. k \in Nat /\ 1 <= k
          BY <1>0, <5>1
        <5> QED BY <5>1, <5>2
      <4> HIDE DEF Low
      <4> QED BY <4>1
    <3>2. IsSelection(s, Low(0), <<>>, [i \in 1 .. 0 |-> 0])
      BY <3>1 DEF IsSelection
    <3>3. Good(<<>>, 0)
      <4> HIDE DEF Low
      <4> QED BY <3>2
    <3> HIDE DEF Good
    <3> QED BY <1>5, <2>3, <2>4, <3>3
  <2>5. CASE n # 0
    <3>1. n \in 1 .. L /\ n - 1 \in 0 .. L /\ n - 1 \notin W
      <4> HIDE DEF W, Good
      <4> QED BY <1>1, <2>2, <2>3, <2>5
    <3> DEFINE t == kept[n - 1]
    <3>2. Good(t, n - 1)
      BY <3>1
    <3> HIDE DEF t
    <3>3. PICK at : IsSelection(s, Low(n - 1), t, at)
      BY <3>2
    <3>4. t \in Seq(S) /\ Len(t) \in Nat
      BY <3>2
    <3>5. CASE n \notin K
      <4>1. Low(n) = Low(n - 1)
        <5>1. ASSUME NEW k \in K
              PROVE  k <= n <=> k <= n - 1
          <6>1. k \in Nat /\ k # n /\ n \in Nat
            BY <1>0, <1>1, <3>1, <3>5
          <6> QED BY <6>1
        <5> QED BY <5>1
      <4>2. kept[n] = t
        BY <1>6, <3>1, <3>5 DEF t
      <4>3. Good(kept[n], n)
        BY <3>2, <4>1, <4>2
      <4> HIDE DEF Good
      <4> QED BY <2>3, <4>3
    <3>6. CASE n \in K
      <4> DEFINE u == Append(t, s[n])
                 m == Len(t) + 1
                 au == [i \in 1 .. m |-> IF i = m THEN n ELSE at[i]]
      <4>1. kept[n] = u
        BY <1>6, <3>1, <3>6 DEF t
      <4>2. s[n] \in S
        BY <3>1 DEF L
      <4>3. /\ u \in Seq(S) /\ Len(u) = m
            /\ \A i \in 1 .. Len(t) : u[i] = t[i]
            /\ u[m] = s[n]
        BY <3>4, <4>2, AppendProperties
      <4> HIDE DEF u
      <4>4. \A i \in 1 .. Len(t) : at[i] \in Low(n - 1) /\ t[i] = s[at[i]]
        BY <3>3 DEF IsSelection
      <4>5. au \in [1 .. m -> Low(n)]
        <5>1. \A i \in 1 .. m : au[i] \in Low(n)
          <6>1. n \in Low(n)
            BY <1>1, <3>1, <3>6
          <6>2. \A k \in Low(n - 1) : k \in Low(n)
            BY <1>1, <3>1
          <6>3. ASSUME NEW i \in 1 .. m, i # m PROVE i \in 1 .. Len(t)
            BY <3>4, <6>3
          <6> HIDE DEF Low
          <6> QED BY <4>4, <6>1, <6>2, <6>3
        <5> HIDE DEF Low, m
        <5> QED BY <5>1
      <4>6. ASSUME NEW i \in 1 .. m
            PROVE  u[i] = s[au[i]]
        <5>1. CASE i = m
          BY <4>3, <5>1
        <5>2. CASE i # m
          <6>1. i \in 1 .. Len(t) /\ au[i] = at[i]
            BY <3>4, <5>2
          <6> QED BY <4>3, <4>4, <6>1
        <5> QED BY <5>1, <5>2
      <4>7. ASSUME NEW i \in 1 .. m, NEW j \in 1 .. m, i < j
            PROVE  au[i] < au[j]
        <5>1. i \in 1 .. Len(t) /\ au[i] = at[i]
          BY <3>4, <4>7
        <5>2. at[i] \in Nat /\ at[i] <= n - 1
          BY <1>0, <1>1, <3>1, <4>4, <5>1
        <5>3. CASE j = m
          BY <3>1, <5>1, <5>2, <5>3
        <5>4. CASE j # m
          <6>1. j \in 1 .. Len(t) /\ au[j] = at[j]
            BY <3>4, <5>4
          <6> QED BY <3>3, <4>7, <5>1, <6>1 DEF IsSelection
        <5> QED BY <5>3, <5>4
      <4>8. ASSUME NEW k \in Low(n)
            PROVE  \E i \in 1 .. m : au[i] = k
        <5>1. CASE k = n
          BY <3>4, <5>1
        <5>2. CASE k # n
          <6>1. k \in Low(n - 1)
            BY <1>0, <1>1, <3>1, <5>2
          <6>2. PICK i \in 1 .. Len(t) : at[i] = k
            BY <3>3, <6>1 DEF IsSelection
          <6>3. i \in 1 .. m /\ i # m
            BY <3>4
          <6> QED BY <6>2, <6>3
        <5> QED BY <5>1, <5>2
      <4> HIDE DEF au, m, Low
      <4>9. IsSelection(s, Low(n), u, au)
        BY <4>3, <4>5, <4>6, <4>7, <4>8 DEF IsSelection
      <4>10. Good(u, n)
        BY <4>3, <4>9
      <4> HIDE DEF Good
      <4> QED BY <2>3, <4>1, <4>10
    <3> QED BY <3>5, <3>6
  <2> QED BY <2>4, <2>5
<1>8. Good(kept[L], L)
  <2>1. L \in 0 .. L /\ L \notin W
    <3> HIDE DEF W
    <3> QED BY <1>1, <1>7
  <2> QED BY <2>1
<1>9. Low(L) = K
  BY <1>0, <1>1
<1> QED BY <1>4, <1>8, <1>9

\* The first n elements of a sequence.
LEMMA Beginning ==
  ASSUME NEW S, NEW s \in Seq(S), NEW n \in Nat, n <= Len(s)
  PROVE  /\ SubSeq(s, 1, n) \in Seq(S) /\ Len(SubSeq(s, 1, n)) = n
         /\ \A i \in 1 .. n : SubSeq(s, 1, n)[i] = s[i]
<1>1. SubSeq(s, 1, n) \in Seq(S)
  OBVIOUS
<1>2. Len(SubSeq(s, 1, n)) = n
  OBVIOUS
<1>3. \A i \in 1 .. n : SubSeq(s, 1, n)[i] = s[i]
  OBVIOUS
<1> QED BY <1>1, <1>2, <1>3

\* s is a prefix of t, element by element.
PrefixOf(s, t) == Len(s) <= Len(t) /\ \A i \in 1 .. Len(s) : s[i] = t[i]

\* That is what IsPrefix says.
LEMMA PrefixMeans ==
  ASSUME NEW S, NEW s \in Seq(S), NEW t \in Seq(S)
  PROVE  IsPrefix(s, t) <=> PrefixOf(s, t)
<1> DEFINE n == Len(s)
           u == SubSeq(t, 1, n)
<1>1. n \in Nat /\ SubSeq(s, 1, n) = s
  BY SubSeqFull
<1>2. n <= Len(t) => u \in Seq(S) /\ Len(u) = n /\ \A i \in 1 .. n : u[i] = t[i]
  <2> HIDE DEF n
  <2> QED BY <1>1, Beginning
<1>3. IsPrefix(s, t) <=> n <= Len(t) /\ s = u
  BY <1>1 DEF IsPrefix
<1> HIDE DEF u
<1>4. ASSUME n <= Len(t) PROVE s = u <=> \A i \in 1 .. n : s[i] = t[i]
  <2>1. ASSUME \A i \in 1 .. n : s[i] = t[i] PROVE s = u
    BY <1>2, <1>4, <2>1, SeqEqual
  <2> QED BY <1>2, <1>4, <2>1
<1> QED BY <1>3, <1>4 DEF PrefixOf

\* The stack without its top.
LEMMA FrontAndLast ==
  ASSUME NEW S, NEW s \in Seq(S), s # <<>>
  PROVE  /\ Len(s) \in Nat \ {0} /\ Last(s) = s[Len(s)] /\ Last(s) \in S
         /\ Front(s) \in Seq(S) /\ Len(Front(s)) = Len(s) - 1
         /\ \A i \in 1 .. Len(s) - 1 : Front(s)[i] = s[i]
<1> DEFINE n == Len(s) - 1
<1>1. Len(s) \in Nat \ {0}
  BY EmptySeq
<1>2. n \in Nat /\ n <= Len(s)
  BY <1>1
<1>3. Last(s) = s[Len(s)] /\ s[Len(s)] \in S
  BY <1>1 DEF Last
<1>4. Front(s) = SubSeq(s, 1, n)
  BY DEF Front
<1> HIDE DEF n
<1>5. Front(s) \in Seq(S) /\ Len(Front(s)) = n /\ \A i \in 1 .. n : Front(s)[i] = s[i]
  BY <1>2, <1>4, Beginning
<1> QED BY <1>1, <1>3, <1>5 DEF n

-----------------------------------------------------------------------------
(* What is read from a plot.                                               *)

\* Fragments are naturals.
LEMMA FragmentsNat == \A f \in Fragments : f \in Nat
<1>1. NumRanges \in Nat /\ RangeSize \in Nat
  BY ChainerAssumption
<1> DEFINE n == NumRanges * RangeSize
<1>2. n \in Nat
  BY <1>1
<1>3. Fragments = 0 .. (n - 1)
  BY DEF Fragments
<1> HIDE DEF n
<1> QED BY <1>2, <1>3

ReadsOnly(list, plot, range) ==
  /\ list \in Seq(Fragments)
  /\ \A i \in 1 .. Len(list) : /\ InRange(list[i], range)
                               /\ \E j \in 1 .. Len(plot) : plot[j] = list[i]

ReadsAll(list, plot, range) ==
  \A j \in 1 .. Len(plot) :
    InRange(plot[j], range) => \E i \in 1 .. Len(list) : list[i] = plot[j]

Distinct(list) == \A i, j \in 1 .. Len(list) : list[i] = list[j] => i = j

Sorted(plot) == \A i, j \in 1 .. Len(plot) : i <= j => plot[i] <= plot[j]

\* A plot file gives fragments of the range only (but not all of them).
LEMMA PlotFileReads ==
  ASSUME NEW plot \in Seq(Fragments), NEW range, range.end \in Nat
  PROVE  ReadsOnly(PlotFileRead(plot, range), plot, range)
<1> DEFINE K == {j \in DOMAIN plot : range.start <= plot[j] /\ plot[j] < range.end}
           list == Kept(plot, K)
<1>1. K \in SUBSET (1 .. Len(plot))
  OBVIOUS
<1>2. list \in Seq(Fragments) /\ \E at : IsSelection(plot, K, list, at)
  <2> HIDE DEF K
  <2> QED BY <1>1, KeptSelects
<1>3. PICK at : IsSelection(plot, K, list, at)
  BY <1>2
<1>4. PlotFileRead(plot, range) = list
  BY DEF PlotFileRead
<1> HIDE DEF list
<1>5. ASSUME NEW i \in 1 .. Len(list)
      PROVE  InRange(list[i], range) /\ \E j \in 1 .. Len(plot) : plot[j] = list[i]
  <2>1. at[i] \in K /\ list[i] = plot[at[i]]
    <3> HIDE DEF K
    <3> QED BY <1>3 DEF IsSelection
  <2>2. at[i] \in 1 .. Len(plot) /\ range.start <= plot[at[i]] /\ plot[at[i]] < range.end
    BY <2>1
  <2>3. plot[at[i]] \in Nat
    BY <2>2, FragmentsNat
  <2> DEFINE f == plot[at[i]]
  <2>4. range.start <= f /\ f <= range.end
    <3>1. f \in Nat /\ range.start <= f /\ f < range.end
      BY <2>2, <2>3
    <3> HIDE DEF f
    <3> QED BY <3>1
  <2>5. InRange(list[i], range)
    <3> HIDE DEF K
    <3> QED BY <2>1, <2>4 DEF InRange
  <2> QED BY <2>1, <2>2, <2>5, Zenon
<1> QED BY <1>2, <1>4, <1>5 DEF ReadsOnly

\* A plot group file gives every fragment of the range, and each once.
LEMMA GroupFileReads ==
  ASSUME NEW plot \in Seq(Fragments), NEW range, Sorted(plot)
  PROVE  LET list == GroupFileRead(plot, range)
         IN  ReadsOnly(list, plot, range) /\ ReadsAll(list, plot, range) /\ Distinct(list)
<1> DEFINE K == {j \in DOMAIN plot : /\ InRange(plot[j], range)
                                     /\ j = 1 \/ plot[j - 1] # plot[j]}
           list == Kept(plot, K)
           L == Len(plot)
<1>1. K \in SUBSET (1 .. Len(plot)) /\ L \in Nat /\ DOMAIN plot = 1 .. L
  OBVIOUS
<1>2. list \in Seq(Fragments) /\ \E at : IsSelection(plot, K, list, at)
  <2> HIDE DEF K
  <2> QED BY <1>1, KeptSelects
<1>3. PICK at : IsSelection(plot, K, list, at)
  BY <1>2
<1>4. GroupFileRead(plot, range) = list
  BY DEF GroupFileRead
<1>5. \A j \in 1 .. L : plot[j] \in Nat
  BY FragmentsNat
<1>6. \A j \in 1 .. L :
        j \in K <=> InRange(plot[j], range) /\ (j = 1 \/ plot[j - 1] # plot[j])
  BY <1>1
<1>7. \A i, j \in 1 .. L : i <= j => plot[i] <= plot[j]
  BY DEF Sorted
<1> HIDE DEF list, L, K
<1>8. \A i \in 1 .. Len(list) : at[i] \in K /\ at[i] \in 1 .. L /\ list[i] = plot[at[i]]
  BY <1>1, <1>3 DEF IsSelection, L
<1>9. ReadsOnly(list, plot, range)
  BY <1>2, <1>6, <1>8 DEF ReadsOnly, L
<1>10. ASSUME NEW j \in 1 .. L, InRange(plot[j], range)
       PROVE  \E i \in 1 .. Len(list) : list[i] = plot[j]
  <2> DEFINE E == {i \in 1 .. L : plot[i] = plot[j]}
             n == Min(E)
  <2>1. n \in E /\ \A y \in E : n <= y
    <3>1. E \subseteq Nat /\ j \in E
      BY <1>1
    <3> HIDE DEF E
    <3> QED BY <3>1, MinNat
  <2> HIDE DEF n
  <2>2. n \in 1 .. L /\ plot[n] = plot[j]
    BY <2>1
  <2>3. ASSUME n # 1 PROVE plot[n - 1] # plot[n]
    <3>1. n - 1 \in 1 .. L /\ ~ n <= n - 1
      BY <1>1, <2>2, <2>3
    <3>2. n - 1 \notin E
      <4> HIDE DEF E
      <4> QED BY <2>1, <3>1
    <3> QED BY <2>2, <3>1, <3>2
  <2>4. n \in K
    BY <1>6, <1>10, <2>2, <2>3
  <2>5. PICK i \in 1 .. Len(list) : at[i] = n
    BY <1>3, <2>4 DEF IsSelection
  <2> QED BY <1>8, <2>2, <2>5
<1>11. ASSUME NEW i \in 1 .. Len(list), NEW j \in 1 .. Len(list), i < j
       PROVE  list[i] # list[j]
  <2> DEFINE a == at[i]
             b == at[j]
  <2>1. a < b /\ a \in 1 .. L /\ b \in K /\ b \in 1 .. L
    BY <1>3, <1>8, <1>11 DEF IsSelection
  <2>2. list[i] = plot[a] /\ list[j] = plot[b]
    BY <1>8
  <2> HIDE DEF a, b
  <2>3. b - 1 \in 1 .. L /\ a <= b - 1 /\ b - 1 <= b /\ b # 1
    BY <1>1, <2>1
  <2>4. plot[a] <= plot[b - 1] /\ plot[b - 1] <= plot[b] /\ plot[b - 1] # plot[b]
    BY <1>6, <1>7, <2>1, <2>3
  <2>5. plot[a] \in Nat /\ plot[b - 1] \in Nat /\ plot[b] \in Nat
    BY <1>5, <2>1, <2>3
  <2>6. plot[a] # plot[b]
    BY <2>4, <2>5
  <2> QED BY <2>2, <2>6
<1>12. Distinct(list)
  <2>1. ASSUME NEW i \in 1 .. Len(list), NEW j \in 1 .. Len(list), list[i] = list[j]
        PROVE  i = j
    <3>1. ~ i < j /\ ~ j < i
      BY <1>11, <2>1
    <3> QED BY <3>1
  <2> QED BY <2>1 DEF Distinct
<1>13. ReadsAll(list, plot, range)
  BY <1>10 DEF ReadsAll, L
<1> QED BY <1>4, <1>9, <1>12, <1>13

-----------------------------------------------------------------------------
(* The ranges of a challenge's sets.                                       *)

Word == 0 .. (Words - 1)

KeySets == [Positions -> Word]

Chains == [1 .. Links -> Fragments]

\* SetRange for a given challenge
RangeOf(c, i) ==
  [start |-> ((Rolls[c][i] \div NumSets) * NumSets + i) * RangeSize,
   end   |-> ((Rolls[c][i] \div NumSets) * NumSets + i) * RangeSize + RangeSize - 1]

\* A block of n starts n or more after an earlier one.
LEMMA BlocksApart ==
  ASSUME NEW n \in Nat, NEW a \in Nat, NEW b \in Nat, a < b
  PROVE  a * n + n <= b * n
<1> DEFINE d == b - (a + 1)
<1>1. d \in Nat /\ b = a + 1 + d
  OBVIOUS
<1> HIDE DEF d
<1>2. b * n = a * n + n + d * n
  BY <1>1
<1>3. d * n \in Nat
  BY <1>1
<1> DEFINE x == a * n
           y == b * n
           z == d * n
<1>4. x \in Nat /\ z \in Nat /\ y = x + n + z
  BY <1>2, <1>3
<1> HIDE DEF x, y, z
<1>5. x + n <= y
  BY <1>4
<1> QED BY <1>5 DEF x, y

\* Block number and place within the block are unique.
LEMMA PlacesUnique ==
  ASSUME NEW n \in Nat, NEW a \in Nat, NEW b \in Nat,
         NEW x \in 0 .. (n - 1), NEW y \in 0 .. (n - 1), a * n + x = b * n + y
  PROVE  a = b /\ x = y
<1> DEFINE p == a * n
           q == b * n
<1>1. p \in Nat /\ q \in Nat /\ p + x = q + y
  OBVIOUS
<1>2. a < b => p + n <= q
  BY BlocksApart
<1>3. b < a => q + n <= p
  BY BlocksApart
<1>4. ~ a < b /\ ~ b < a
  <2> HIDE DEF p, q
  <2> QED BY <1>1, <1>2, <1>3
<1>5. a = b
  BY <1>4
<1>6. x = y
  <2>1. p = q
    BY <1>5
  <2> HIDE DEF p, q
  <2> QED BY <1>1, <2>1
<1> QED BY <1>5, <1>6

\* The sets' ranges have no fragment in common: the low bits of a range are its set.
LEMMA RangesApart ==
  ASSUME NEW c \in Challenges, NEW s \in Sets, NEW t \in Sets, NEW f \in Fragments,
         InRange(f, RangeOf(c, s)), InRange(f, RangeOf(c, t))
  PROVE  s = t
<1> DEFINE I(i) == (Rolls[c][i] \div NumSets) * NumSets + i
           a == I(s)
           b == I(t)
           qs == Rolls[c][s] \div NumSets
           qt == Rolls[c][t] \div NumSets
<1>1. NumSets \in Nat \ {0} /\ RangeSize \in Nat \ {0} /\ NumRanges \in Nat \ {0}
  BY ChainerAssumption
<1>2. \A i \in Sets : Rolls[c][i] \in Nat
  BY <1>1, ChainerAssumption
<1>3. qs \in Nat /\ qt \in Nat
  <2>1. \A r \in Nat : r \div NumSets \in Nat
    BY <1>1
  <2> QED BY <1>2, <2>1
<1>4. s \in 0 .. (NumSets - 1) /\ t \in 0 .. (NumSets - 1)
  BY DEF Sets
<1>5. a = qs * NumSets + s /\ b = qt * NumSets + t
  OBVIOUS
<1> HIDE DEF qs, qt
<1>6. a \in Nat /\ b \in Nat
  <2>1. qs * NumSets \in Nat /\ qt * NumSets \in Nat
    BY <1>1, <1>3
  <2> HIDE DEF a, b
  <2> QED BY <1>1, <1>4, <1>5, <2>1
<1> DEFINE p == a * RangeSize
           q == b * RangeSize
<1>7. p <= f /\ f <= p + RangeSize - 1 /\ q <= f /\ f <= q + RangeSize - 1
  BY DEF InRange, RangeOf
<1> HIDE DEF a, b
<1>8. p \in Nat /\ q \in Nat
  BY <1>1, <1>6
<1>9. (a < b => p + RangeSize <= q) /\ (b < a => q + RangeSize <= p)
  BY <1>1, <1>6, BlocksApart
<1>10. ~ a < b /\ ~ b < a
  <2>1. f \in Nat
    BY FragmentsNat
  <2> HIDE DEF p, q
  <2> QED BY <1>1, <1>7, <1>8, <1>9, <2>1
<1>11. qs * NumSets + s = qt * NumSets + t
  BY <1>5, <1>6, <1>10
<1> QED BY <1>1, <1>3, <1>4, <1>11, PlacesUnique

-----------------------------------------------------------------------------
(* The running hash.                                                       *)

\* The hash before link n: what the link's fragment is mixed into.
Before(w, keys, n) == IF n = 0 THEN 0 ELSE RunningHash(w, keys)[n - 1]

\* The recursion of RunningHash, link by link.
LEMMA HashSteps ==
  ASSUME NEW w \in Chains, NEW keys \in KeySets
  PROVE  /\ Before(w, keys, 0) = 0
         /\ \A n \in Positions :
              /\ Before(w, keys, n + 1) = RunningHash(w, keys)[n]
              /\ Before(w, keys, n + 1)
                   = ChainHash[XorOf(XorOf(Before(w, keys, n), w[n + 1]), keys[n])]
<1> DEFINE L == Links
           Link(f, i) ==
             ChainHash[XorOf(XorOf(IF i = 0 THEN 0 ELSE f[i - 1], w[i + 1]), keys[i])]
           Builds(f, n) == f = [i \in 0 .. (n - 1) |-> Link(f, i)]
           T == {n \in 1 .. L : ~ \E f : Builds(f, n)}
<1>1. L \in Nat \ {0}
  BY ChainerAssumption
<1> HIDE DEF L
<1>2. T = {}
  <2>1. SUFFICES ASSUME T # {} PROVE FALSE
    OBVIOUS
  <2> DEFINE n == Min(T)
  <2>2. n \in T /\ \A y \in T : n <= y
    <3>1. T \subseteq Nat
      BY <1>1
    <3> HIDE DEF T
    <3> QED BY <2>1, <3>1, MinNat
  <2> HIDE DEF n
  <2>3. n \in 1 .. L /\ ~ \E f : Builds(f, n)
    BY <2>2
  <2>4. PICK f : n = 1 \/ Builds(f, n - 1)
    <3>1. n # 1 => n - 1 \in 1 .. L /\ n - 1 \notin T
      <4> HIDE DEF T, Builds
      <4> QED BY <1>1, <2>2, <2>3
    <3>2. n # 1 => \E f : Builds(f, n - 1)
      <4> HIDE DEF Builds
      <4> QED BY <3>1
    <3> HIDE DEF Builds
    <3> QED BY <3>2
  <2> DEFINE h == [i \in 0 .. (n - 1) |-> Link(f, i)]
  <2>5. ASSUME NEW i \in 0 .. (n - 1)
        PROVE  h[i] = Link(h, i)
    <3>1. h[i] = Link(f, i)
      OBVIOUS
    <3>2. CASE i = 0
      BY <3>1, <3>2
    <3>3. CASE i # 0
      <4>1. n # 1 /\ i - 1 \in 0 .. (n - 1 - 1) /\ i - 1 \in 0 .. (n - 1)
        BY <1>1, <2>3, <3>3
      <4>2. f = [k \in 0 .. (n - 1 - 1) |-> Link(f, k)]
        BY <2>4, <4>1
      <4>3. f[i - 1] = Link(f, i - 1)
        <5> HIDE DEF Link
        <5> QED BY <4>1, <4>2
      <4>4. h[i - 1] = Link(f, i - 1)
        <5> HIDE DEF Link
        <5> QED BY <4>1
      <4>5. h[i - 1] = f[i - 1]
        BY <4>3, <4>4
      <4> HIDE DEF h
      <4> QED BY <3>1, <3>3, <4>5
    <3> QED BY <3>2, <3>3
  <2>6. Builds(h, n)
    <3> DEFINE g == [i \in 0 .. (n - 1) |-> Link(h, i)]
    <3>1. \A i \in 0 .. (n - 1) : h[i] = g[i]
      BY <2>5
    <3>2. h = g
      BY <3>1
    <3> QED BY <3>2
  <2> HIDE DEF Builds
  <2> QED BY <2>3, <2>6
<1> DEFINE hash == CHOOSE f : Builds(f, L)
<1>3. Builds(hash, L)
  <2>1. L \in 1 .. L /\ L \notin T
    <3> HIDE DEF T
    <3> QED BY <1>1, <1>2
  <2>2. \E f : Builds(f, L)
    BY <2>1
  <2> HIDE DEF Builds
  <2> QED BY <2>2
<1>4. RunningHash(w, keys) = hash
  BY Zenon DEF RunningHash, Positions, L
<1> HIDE DEF hash
<1>5. ASSUME NEW n \in Positions
      PROVE  /\ Before(w, keys, n + 1) = hash[n]
             /\ hash[n] = ChainHash[XorOf(XorOf(Before(w, keys, n), w[n + 1]), keys[n])]
  <2>1. n \in 0 .. (L - 1) /\ n + 1 # 0 /\ n + 1 - 1 = n
    BY DEF Positions, L
  <2>2. hash[n] = Link(hash, n)
    <3> HIDE DEF Link
    <3> QED BY <1>3, <2>1
  <2>3. Before(w, keys, n) = IF n = 0 THEN 0 ELSE hash[n - 1]
    BY <1>4 DEF Before
  <2>4. Before(w, keys, n + 1) = hash[n]
    BY <1>4, <2>1 DEF Before
  <2> QED BY <2>2, <2>3, <2>4
<1> QED BY <1>4, <1>5 DEF Before

\* The prover's mixing, under given keys.
MixedBy(keys, hash, f, n) == ChainHash[XorOf(f, XorOf(hash, keys[n]))]

\* Every hash is a word, and the prover and the validator, who bracket the exclusive
\* or differently, mix alike.
LEMMA HashesAgree ==
  ASSUME NEW w \in Chains, NEW keys \in KeySets
  PROVE  /\ \A n \in 0 .. Links : Before(w, keys, n) \in Word
         /\ \A n \in Positions : /\ w[n + 1] \in Word
                                 /\ Before(w, keys, n + 1)
                                      = MixedBy(keys, Before(w, keys, n), w[n + 1], n)
<1> DEFINE B(n) == Before(w, keys, n)
           L == Links
<1>1. L \in Nat \ {0} /\ Words \in Nat \ {0}
  BY ChainerAssumption
<1>2. \A a, b \in Word : XorOf(a, b) \in Word
  BY XorAssumption DEF Word
<1>3. \A a \in Word : ChainHash[a] \in Word
  BY ChainerAssumption DEF Word
<1>4. \A n \in Positions : keys[n] \in Word
  BY DEF KeySets
<1>5. \A f \in Fragments : f \in Word
  <2>1. NumRanges \in Nat /\ RangeSize \in Nat /\ NumRanges * RangeSize <= Words
    BY ChainerAssumption
  <2> DEFINE m == NumRanges * RangeSize
  <2>2. m \in Nat /\ m <= Words
    BY <2>1
  <2>3. Fragments = 0 .. (m - 1)
    BY DEF Fragments
  <2> HIDE DEF m
  <2> QED BY <1>1, <2>2, <2>3 DEF Word
<1>6. \A n \in Positions : w[n + 1] \in Word
  <2>1. ASSUME NEW n \in Positions PROVE n + 1 \in 1 .. L
    BY <1>1 DEF Positions, L
  <2>2. \A i \in 1 .. L : w[i] \in Fragments
    BY DEF Chains, L
  <2> QED BY <1>5, <2>1, <2>2
<1>7. B(0) = 0 /\ \A n \in Positions :
        B(n + 1) = ChainHash[XorOf(XorOf(B(n), w[n + 1]), keys[n])]
  BY HashSteps
<1> HIDE DEF B
<1>8. \A n \in 0 .. L : B(n) \in Word
  <2> DEFINE T == {n \in 0 .. L : B(n) \notin Word}
  <2>1. SUFFICES ASSUME T # {} PROVE FALSE
    OBVIOUS
  <2> DEFINE n == Min(T)
  <2>2. n \in T /\ \A y \in T : n <= y
    <3>1. T \subseteq Nat
      BY <1>1
    <3> HIDE DEF T
    <3> QED BY <2>1, <3>1, MinNat
  <2> HIDE DEF n
  <2>3. n \in 0 .. L /\ B(n) \notin Word
    BY <2>2
  <2>4. n # 0
    BY <1>1, <1>7, <2>3 DEF Word
  <2>5. n - 1 \in 0 .. L /\ ~ n <= n - 1 /\ n - 1 \in Positions /\ n - 1 + 1 = n
    <3> HIDE DEF T
    <3> QED BY <1>1, <2>3, <2>4 DEF Positions, L
  <2>6. n - 1 \notin T
    <3> HIDE DEF T
    <3> QED BY <2>2, <2>5
  <2>7. B(n - 1) \in Word
    BY <2>5, <2>6
  <2>8. B(n) = ChainHash[XorOf(XorOf(B(n - 1), w[n]), keys[n - 1])]
    BY <1>7, <2>5
  <2>9. w[n] \in Word
    BY <1>6, <2>5
  <2> HIDE DEF T
  <2> QED BY <1>2, <1>3, <1>4, <2>3, <2>5, <2>7, <2>8, <2>9
<1>9. ASSUME NEW n \in Positions
      PROVE  B(n + 1) = MixedBy(keys, B(n), w[n + 1], n)
  <2>1. B(n) \in Word
    BY <1>1, <1>8 DEF Positions, L
  <2>2. XorOf(w[n + 1], XorOf(B(n), keys[n])) = XorOf(XorOf(B(n), w[n + 1]), keys[n])
    BY <1>4, <1>6, <2>1, XorAssumption DEF Word
  <2> QED BY <1>7, <2>2 DEF MixedBy
<1> QED BY <1>6, <1>8, <1>9 DEF B, L

-----------------------------------------------------------------------------
(* What the validator accepts.                                             *)

\* Link n of w is right for a chain that starts in set s.
LinkHolds(w, keys, c, s, n) ==
  /\ InRange(w[n + 1], RangeOf(c, (s + n) % NumSets))
  /\ PassesFilter(Before(w, keys, n + 1), n)

Accepted(w, keys, c, s) == \A n \in Positions : LinkHolds(w, keys, c, s, n)

\* A chain's sets are sets, and its first one is where it starts.
LEMMA Rotation ==
  /\ \A s \in Sets, n \in Nat : (s + n) % NumSets \in Sets
  /\ \A s \in Sets : (s + 0) % NumSets = s
<1>1. NumSets \in Nat \ {0}
  BY ChainerAssumption
<1>2. \A a \in Nat : a % NumSets \in Sets
  BY <1>1 DEF Sets
<1> QED BY <1>1, <1>2 DEF Sets

\* The validator finds the starting set from the first fragment: what it accepts is
\* what holds link by link from some set.
LEMMA ValidatesMeans ==
  ASSUME NEW w \in Chains, NEW keys \in KeySets, challenge \in Challenges
  PROVE  Validates(w, keys) <=> \E s \in Sets : Accepted(w, keys, challenge, s)
<1>1. Links \in Nat \ {0} /\ NumSets \in Nat \ {0}
  BY ChainerAssumption
<1>2. w \in Seq(Fragments) /\ Len(w) = Links /\ w[1] \in Fragments
  BY <1>1 DEF Chains
<1>3. \A s \in Sets : SetRange(s) = RangeOf(challenge, s)
  BY DEF SetRange, SetIndex, RangeOf
<1>4. ASSUME NEW s \in Sets
      PROVE  s \in StartSets(w) <=> InRange(w[1], RangeOf(challenge, s))
  BY <1>3 DEF StartSets
<1>5. ASSUME NEW s \in Sets, Accepted(w, keys, challenge, s)
      PROVE  s \in StartSets(w)
  <2>1. 0 \in Positions /\ 0 + 1 = 1
    BY <1>1 DEF Positions
  <2>2. InRange(w[1], RangeOf(challenge, (s + 0) % NumSets))
    BY <1>5, <2>1 DEF Accepted, LinkHolds
  <2> QED BY <1>4, <2>2, Rotation
<1>6. ASSUME NEW s \in StartSets(w), NEW t \in StartSets(w) PROVE s = t
  <2>1. s \in Sets /\ t \in Sets
    BY DEF StartSets
  <2> QED BY <1>2, <1>4, <1>6, <2>1, RangesApart
<1> DEFINE start == CHOOSE s \in StartSets(w) : \A t \in StartSets(w) : s <= t
<1>7. ASSUME NEW s \in StartSets(w) PROVE start = s
  <2>1. \A t \in StartSets(w) : s <= t
    <3>1. s \in Int
      BY <1>1 DEF StartSets, Sets
    <3> QED BY <1>6, <3>1
  <2>2. start \in StartSets(w)
    BY <2>1
  <2> HIDE DEF start
  <2> QED BY <1>6, <2>2
<1> DEFINE Right(s) == \A i \in Positions :
                         /\ InRange(w[i + 1], SetRange((s + i) % NumSets))
                         /\ PassesFilter(RunningHash(w, keys)[i], i)
<1>8. Validates(w, keys) <=> StartSets(w) # {} /\ Right(start)
  <2> HIDE DEF start
  <2>1. Validates(w, keys) <=> /\ Len(w) = Links
                               /\ StartSets(w) # {}
                               /\ Right(start)
    BY Zenon DEF Validates, start
  <2> QED BY <1>2, <2>1
<1>9. ASSUME NEW s \in Sets
      PROVE  Right(s) <=> Accepted(w, keys, challenge, s)
  <2>1. ASSUME NEW i \in Positions
        PROVE  /\ SetRange((s + i) % NumSets) = RangeOf(challenge, (s + i) % NumSets)
               /\ RunningHash(w, keys)[i] = Before(w, keys, i + 1)
    <3>1. i \in Nat
      BY <1>1 DEF Positions
    <3> QED BY <1>3, <3>1, Rotation, HashSteps
  <2> QED BY <2>1, Zenon DEF Accepted, LinkHolds
<1> HIDE DEF start, Right
<1>10. \A s \in StartSets(w) : s \in Sets
  BY DEF StartSets
<1> QED BY <1>5, <1>7, <1>8, <1>9, <1>10

-----------------------------------------------------------------------------
(* Nodes of the search tree: the root of a set, and the entries of the     *)
(* stack.                                                                  *)

InPlot(f, plot) == \E j \in 1 .. Len(plot) : plot[j] = f

FromPlot(frs, plot) == \A i \in 1 .. Len(frs) : InPlot(frs[i], plot)

\* Every chain that begins with frs holds so far, and hash is where its hash stands.
Sound(frs, hash, s, keys, c) ==
  \A w \in Chains :
    PrefixOf(frs, w) => /\ Before(w, keys, Len(frs)) = hash
                        /\ \A n \in 0 .. (Len(frs) - 1) : LinkHolds(w, keys, c, s, n)

Node(frs, hash, s, keys, c, plot) ==
  /\ frs \in Seq(Fragments) /\ hash \in Word /\ s \in Sets
  /\ Sound(frs, hash, s, keys, c)
  /\ FromPlot(frs, plot)
  /\ Len(frs) > 0 => InRange(frs[1], RangeOf(c, s))

GoodEntry(e, keys, c, plot) ==
  /\ e \in StackEntries
  /\ Len(e.fragments) = e.iteration
  /\ Node(e.fragments, e.hash, e.start, keys, c, plot)

\* A set's root holds nothing, at hash 0.
LEMMA RootIsNode ==
  ASSUME NEW keys \in KeySets, NEW c, NEW plot, NEW s \in Sets
  PROVE  Node(<<>>, 0, s, keys, c, plot) /\ Len(<<>>) = 0
<1>1. 0 \in Word
  BY ChainerAssumption DEF Word
<1>2. Sound(<<>>, 0, s, keys, c)
  BY HashSteps DEF Sound
<1> QED BY <1>1, <1>2 DEF Node, FromPlot

\* Mixing gives a word.
LEMMA MixedIsWord ==
  ASSUME NEW keys \in KeySets, NEW hash \in Word, NEW f \in Word, NEW n \in Positions
  PROVE  MixedBy(keys, hash, f, n) \in Word
<1>1. \A a, b \in Word : XorOf(a, b) \in Word
  BY XorAssumption DEF Word
<1>2. \A a \in Word : ChainHash[a] \in Word
  BY ChainerAssumption DEF Word
<1>3. keys[n] \in Word
  BY DEF KeySets
<1> QED BY <1>1, <1>2, <1>3 DEF MixedBy

\* Fragments are hashed as words.
LEMMA FragmentIsWord == \A f \in Fragments : f \in Word
<1>1. /\ NumRanges \in Nat /\ RangeSize \in Nat /\ Words \in Nat
      /\ NumRanges * RangeSize <= Words
  BY ChainerAssumption
<1> DEFINE m == NumRanges * RangeSize
<1>2. m \in Nat /\ m <= Words
  BY <1>1
<1>3. Fragments = 0 .. (m - 1)
  BY DEF Fragments
<1> HIDE DEF m
<1> QED BY <1>1, <1>2, <1>3 DEF Word

\* A fragment of the next range that passes the filter extends a node.
LEMMA NodeGrows ==
  ASSUME NEW keys \in KeySets, NEW c \in Challenges, NEW plot, NEW s \in Sets,
         NEW frs, NEW hash, NEW n \in Positions,
         Node(frs, hash, s, keys, c, plot), Len(frs) = n,
         NEW f \in Fragments, InRange(f, RangeOf(c, (s + n) % NumSets)),
         InPlot(f, plot), PassesFilter(MixedBy(keys, hash, f, n), n)
  PROVE  /\ Node(Append(frs, f), MixedBy(keys, hash, f, n), s, keys, c, plot)
         /\ Len(Append(frs, f)) = n + 1 /\ PrefixOf(frs, Append(frs, f))
         /\ Append(frs, f)[n + 1] = f
<1> DEFINE u == Append(frs, f)
           m == MixedBy(keys, hash, f, n)
<1>1. n \in Nat /\ n + 1 <= Links /\ Links \in Nat
  BY ChainerAssumption DEF Positions
<1>2. frs \in Seq(Fragments) /\ hash \in Word /\ Sound(frs, hash, s, keys, c)
      /\ FromPlot(frs, plot) /\ (n > 0 => InRange(frs[1], RangeOf(c, s)))
  BY DEF Node
<1>3. /\ u \in Seq(Fragments) /\ Len(u) = n + 1
      /\ \A i \in 1 .. n : u[i] = frs[i]
      /\ u[n + 1] = f
  BY <1>2, AppendProperties
<1> HIDE DEF u
<1>4. m \in Word
  BY <1>2, FragmentIsWord, MixedIsWord
<1>5. PrefixOf(frs, u)
  BY <1>1, <1>3 DEF PrefixOf
<1>6. ASSUME NEW w \in Chains, PrefixOf(u, w)
      PROVE  /\ Before(w, keys, n + 1) = m
             /\ \A k \in 0 .. n : LinkHolds(w, keys, c, s, k)
  <2>1. Len(u) <= Len(w) /\ \A i \in 1 .. Len(u) : u[i] = w[i]
    BY <1>6 DEF PrefixOf
  <2>2. w[n + 1] = f
    BY <1>1, <1>3, <2>1
  <2>3. PrefixOf(frs, w)
    <3>1. Len(w) = Links
      BY <1>1 DEF Chains
    <3>2. n <= Len(w)
      BY <1>1, <3>1
    <3>3. \A i \in 1 .. n : frs[i] = w[i]
      <4>1. \A i \in 1 .. n : i \in 1 .. n + 1
        BY <1>1
      <4> QED BY <1>3, <2>1, <4>1
    <3> QED BY <3>2, <3>3 DEF PrefixOf
  <2>4. /\ Before(w, keys, n) = hash
        /\ \A k \in 0 .. (n - 1) : LinkHolds(w, keys, c, s, k)
    BY <1>2, <2>3 DEF Sound
  <2>5. Before(w, keys, n + 1) = m
    BY <2>2, <2>4, HashesAgree
  <2>6. LinkHolds(w, keys, c, s, n)
    BY <2>2, <2>5 DEF LinkHolds
  <2> QED BY <1>1, <2>4, <2>5, <2>6
<1> HIDE DEF m
<1>7. Sound(u, m, s, keys, c)
  <2>1. n + 1 - 1 = n
    BY <1>1
  <2> QED BY <1>3, <1>6, <2>1 DEF Sound
<1>8. FromPlot(u, plot)
  <2>1. ASSUME NEW i \in 1 .. n + 1
        PROVE  InPlot(u[i], plot)
    <3>1. CASE i = n + 1
      BY <1>3, <3>1
    <3>2. CASE i # n + 1
      <4>1. i \in 1 .. n
        BY <1>1, <3>2
      <4> QED BY <1>2, <1>3, <4>1 DEF FromPlot
    <3> QED BY <3>1, <3>2
  <2> QED BY <1>3, <2>1 DEF FromPlot
<1>9. InRange(u[1], RangeOf(c, s))
  <2>1. CASE n = 0
    <3>1. u[1] = f /\ (s + n) % NumSets = s
      BY <1>3, <2>1, Rotation
    <3> QED BY <3>1
  <2>2. CASE n # 0
    <3>1. u[1] = frs[1] /\ n > 0
      BY <1>1, <1>3, <2>2
    <3> QED BY <1>2, <3>1
  <2> QED BY <2>1, <2>2
<1>10. Node(u, m, s, keys, c, plot)
  BY <1>3, <1>4, <1>7, <1>8, <1>9 DEF Node
<1> QED BY <1>3, <1>5, <1>10 DEF u, m

-----------------------------------------------------------------------------
(* What a step pushes.                                                     *)

EntryBy(keys, f, hash, n, s, frs) ==
  [hash      |-> MixedBy(keys, hash, f, n),
   iteration |-> n + 1,
   start     |-> s,
   fragments |-> Append(frs, f)]

\* out holds an entry for each fragment of list that passes, and nothing else.
IsPushed(out, list, keys, hash, n, s, frs) ==
  /\ out \in Seq(StackEntries)
  /\ \E at :
       /\ at \in [1 .. Len(out) -> 1 .. Len(list)]
       /\ \A i, j \in 1 .. Len(out) : at[i] = at[j] => i = j
       /\ \A i \in 1 .. Len(out) :
            /\ out[i] = EntryBy(keys, list[at[i]], hash, n, s, frs)
            /\ PassesFilter(MixedBy(keys, hash, list[at[i]], n), n)
       /\ \A j \in 1 .. Len(list) :
            PassesFilter(MixedBy(keys, hash, list[j], n), n) =>
              \E i \in 1 .. Len(out) : at[i] = j

\* Pushed is that.
LEMMA PushedMeans ==
  ASSUME NEW list \in Seq(Fragments), Keys \in KeySets,
         NEW hash \in Word, NEW n \in Positions, NEW s \in Sets, NEW frs \in Seq(Fragments)
  PROVE  IsPushed(Pushed(list, hash, n, s, frs), list, Keys, hash, n, s, frs)
<1> DEFINE all == [j \in 1 .. Len(list) |-> Entry(list[j], hash, n, s, frs)]
           K == {j \in 1 .. Len(list) : PassesFilter(Mixed(hash, list[j], n), n)}
           out == Kept(all, K)
           L == Len(list)
<1>1. L \in Nat /\ \A j \in 1 .. L : list[j] \in Fragments
  OBVIOUS
<1>2. \A f : Mixed(hash, f, n) = MixedBy(Keys, hash, f, n)
  BY DEF Mixed, MixedBy
<1>3. \A f : Entry(f, hash, n, s, frs) = EntryBy(Keys, f, hash, n, s, frs)
  BY <1>2 DEF Entry, EntryBy
<1>4. ASSUME NEW f \in Fragments
      PROVE  Entry(f, hash, n, s, frs) \in StackEntries
  <2>1. MixedBy(Keys, hash, f, n) \in 0 .. (Words - 1)
    BY FragmentIsWord, MixedIsWord DEF Word
  <2>2. n + 1 \in 1 .. Links
    BY ChainerAssumption DEF Positions
  <2>3. Append(frs, f) \in Seq(Fragments)
    BY AppendProperties
  <2>4. EntryBy(Keys, f, hash, n, s, frs) \in StackEntries
    BY <2>1, <2>2, <2>3 DEF EntryBy, StackEntries
  <2> QED BY <1>3, <2>4
<1>5. all \in Seq(StackEntries) /\ Len(all) = L
  <2>1. \A j \in 1 .. L : all[j] \in StackEntries
    BY <1>1, <1>4
  <2> QED BY <1>1, <2>1
<1>6. K \in SUBSET (1 .. Len(all))
  BY <1>5
<1>7. out \in Seq(StackEntries) /\ \E at : IsSelection(all, K, out, at)
  <2> HIDE DEF all, K
  <2> QED BY <1>5, <1>6, KeptSelects
<1>8. PICK at : IsSelection(all, K, out, at)
  BY <1>7
<1>9. Pushed(list, hash, n, s, frs) = out
  BY Zenon DEF Pushed
<1>10. \A j \in 1 .. L : all[j] = EntryBy(Keys, list[j], hash, n, s, frs)
  BY <1>3
<1>11. \A j \in 1 .. L : j \in K <=> PassesFilter(MixedBy(Keys, hash, list[j], n), n)
  BY <1>2
<1>12. \A j \in K : j \in 1 .. L
  OBVIOUS
<1> HIDE DEF out, all, K, L
<1>13. \A i \in 1 .. Len(out) : at[i] \in K /\ at[i] \in 1 .. L /\ out[i] = all[at[i]]
  BY <1>8, <1>12 DEF IsSelection
<1>14. at \in [1 .. Len(out) -> 1 .. L]
  BY <1>8, <1>13 DEF IsSelection
<1>15. ASSUME NEW i \in 1 .. Len(out), NEW j \in 1 .. Len(out), at[i] = at[j]
       PROVE  i = j
  <2>1. at[i] \in Nat
    BY <1>1, <1>13
  <2>2. (i < j => at[i] < at[j]) /\ (j < i => at[j] < at[i])
    BY <1>8 DEF IsSelection
  <2>3. ~ i < j /\ ~ j < i
    BY <1>15, <2>1, <2>2
  <2> QED BY <1>7, <2>3
<1>16. \A i \in 1 .. Len(out) :
         /\ out[i] = EntryBy(Keys, list[at[i]], hash, n, s, frs)
         /\ PassesFilter(MixedBy(Keys, hash, list[at[i]], n), n)
  BY <1>10, <1>11, <1>13, Zenon
<1>17. \A j \in 1 .. L : PassesFilter(MixedBy(Keys, hash, list[j], n), n) =>
                           \E i \in 1 .. Len(out) : at[i] = j
  BY <1>8, <1>11 DEF IsSelection
<1> QED BY <1>7, <1>9, <1>14, <1>15, <1>16, <1>17 DEF IsPushed, L

\* What is pushed extends the node, covers the chains that go on from it, and when
\* no fragment was read twice leads to different chains.
Extends(out, list, keys, c, plot, n, s, frs) ==
  /\ \A i \in 1 .. Len(out) :
       /\ GoodEntry(out[i], keys, c, plot)
       /\ out[i].start = s
       /\ PrefixOf(frs, out[i].fragments) /\ Len(out[i].fragments) = n + 1
  /\ ReadsAll(list, plot, RangeOf(c, (s + n) % NumSets)) =>
       \A w \in Chains :
         PrefixOf(frs, w) /\ Accepted(w, keys, c, s) /\ FromPlot(w, plot) =>
           \E i \in 1 .. Len(out) : PrefixOf(out[i].fragments, w)
  /\ Distinct(list) =>
       \A i, j \in 1 .. Len(out) :
         i # j => ~ PrefixOf(out[i].fragments, out[j].fragments)

\* What a step pushes does all that.
LEMMA PushedExtends ==
  ASSUME NEW keys \in KeySets, NEW c \in Challenges, NEW plot, NEW s \in Sets,
         NEW frs, NEW hash, NEW n \in Positions,
         Node(frs, hash, s, keys, c, plot), Len(frs) = n,
         NEW list, ReadsOnly(list, plot, RangeOf(c, (s + n) % NumSets)),
         NEW out, IsPushed(out, list, keys, hash, n, s, frs)
  PROVE  Extends(out, list, keys, c, plot, n, s, frs)
<1> DEFINE range == RangeOf(c, (s + n) % NumSets)
           Passes(f) == PassesFilter(MixedBy(keys, hash, f, n), n)
           E(f) == EntryBy(keys, f, hash, n, s, frs)
<1>1. PICK at :
        /\ at \in [1 .. Len(out) -> 1 .. Len(list)]
        /\ \A i, j \in 1 .. Len(out) : at[i] = at[j] => i = j
        /\ \A i \in 1 .. Len(out) : out[i] = E(list[at[i]]) /\ Passes(list[at[i]])
        /\ \A j \in 1 .. Len(list) : Passes(list[j]) => \E i \in 1 .. Len(out) : at[i] = j
  BY DEF IsPushed
<1>2. \A f : /\ E(f).fragments = Append(frs, f) /\ E(f).start = s
             /\ E(f).hash = MixedBy(keys, hash, f, n) /\ E(f).iteration = n + 1
  BY DEF EntryBy
<1>3. /\ list \in Seq(Fragments)
      /\ \A j \in 1 .. Len(list) :
           /\ list[j] \in Fragments
           /\ InRange(list[j], range)
           /\ InPlot(list[j], plot)
  BY DEF ReadsOnly, InPlot
<1>4. \A i \in 1 .. Len(out) : out[i] \in StackEntries
  BY DEF IsPushed
<1> HIDE DEF E, Passes, range
<1>5. \A i \in 1 .. Len(out) : at[i] \in 1 .. Len(list)
  BY <1>1
<1>6. ASSUME NEW f \in Fragments, InRange(f, range),
             InPlot(f, plot), Passes(f)
      PROVE  /\ Node(Append(frs, f), MixedBy(keys, hash, f, n), s, keys, c, plot)
             /\ Len(Append(frs, f)) = n + 1 /\ PrefixOf(frs, Append(frs, f))
             /\ Append(frs, f)[n + 1] = f
  <2>1. InRange(f, RangeOf(c, (s + n) % NumSets)) /\ PassesFilter(MixedBy(keys, hash, f, n), n)
    BY <1>6 DEF range, Passes
  <2> QED BY <1>6, <2>1, NodeGrows
<1>7. ASSUME NEW i \in 1 .. Len(out)
      PROVE  /\ GoodEntry(out[i], keys, c, plot)
             /\ out[i].start = s
             /\ PrefixOf(frs, out[i].fragments) /\ Len(out[i].fragments) = n + 1
             /\ out[i].fragments[n + 1] = list[at[i]]
  <2> DEFINE f == list[at[i]]
  <2>1. f \in Fragments /\ InRange(f, range) /\ InPlot(f, plot)
        /\ Passes(f) /\ out[i] = E(f)
    BY <1>1, <1>3, <1>5
  <2> HIDE DEF f
  <2>2. /\ out[i].fragments = Append(frs, f) /\ out[i].start = s
        /\ out[i].hash = MixedBy(keys, hash, f, n) /\ out[i].iteration = n + 1
    BY <1>2, <2>1
  <2>3. /\ Node(Append(frs, f), MixedBy(keys, hash, f, n), s, keys, c, plot)
        /\ Len(Append(frs, f)) = n + 1 /\ PrefixOf(frs, Append(frs, f))
        /\ Append(frs, f)[n + 1] = f
    BY <1>6, <2>1
  <2>4. GoodEntry(out[i], keys, c, plot)
    BY <1>4, <2>2, <2>3 DEF GoodEntry
  <2> QED BY <2>2, <2>3, <2>4 DEF f
<1>8. n \in Nat /\ n + 1 <= Links /\ Links \in Nat /\ frs \in Seq(Fragments)
  BY ChainerAssumption DEF Positions, Node
<1>9. ASSUME ReadsAll(list, plot, range), NEW w \in Chains,
             PrefixOf(frs, w), Accepted(w, keys, c, s), FromPlot(w, plot)
      PROVE  \E i \in 1 .. Len(out) : PrefixOf(out[i].fragments, w)
  <2>1. Len(w) = Links
    BY <1>8 DEF Chains
  <2>2. n + 1 \in 1 .. Len(w)
    BY <1>8, <2>1
  <2>3. PICK k \in 1 .. Len(plot) : plot[k] = w[n + 1]
    BY <1>9, <2>2 DEF FromPlot, InPlot
  <2>4. LinkHolds(w, keys, c, s, n)
    BY <1>9 DEF Accepted
  <2>5. PICK j \in 1 .. Len(list) : list[j] = w[n + 1]
    BY <1>9, <2>3, <2>4 DEF ReadsAll, LinkHolds, range
  <2>6. Before(w, keys, n) = hash
    BY <1>9 DEF Node, Sound
  <2>7. Passes(w[n + 1])
    BY <2>4, <2>6, HashesAgree DEF LinkHolds, Passes
  <2>8. PICK i \in 1 .. Len(out) : at[i] = j
    BY <1>1, <2>5, <2>7
  <2> DEFINE u == out[i].fragments
  <2>9. PrefixOf(frs, u) /\ Len(u) = n + 1 /\ u[n + 1] = w[n + 1]
    BY <1>7, <2>5, <2>8
  <2> HIDE DEF u
  <2>10. ASSUME NEW m \in 1 .. n + 1
         PROVE  u[m] = w[m]
    <3>1. CASE m = n + 1
      BY <2>9, <3>1
    <3>2. CASE m # n + 1
      <4>1. m \in 1 .. n
        BY <1>8, <3>2
      <4> QED BY <1>9, <2>9, <4>1 DEF PrefixOf
    <3> QED BY <3>1, <3>2
  <2>11. PrefixOf(u, w)
    BY <1>8, <2>1, <2>9, <2>10 DEF PrefixOf
  <2> QED BY <2>11 DEF u
<1>10. ASSUME Distinct(list), NEW i \in 1 .. Len(out), NEW j \in 1 .. Len(out), i # j,
              PrefixOf(out[i].fragments, out[j].fragments)
       PROVE  FALSE
  <2> DEFINE u == out[i].fragments
             v == out[j].fragments
  <2>1. Len(u) = n + 1 /\ u[n + 1] = list[at[i]] /\ v[n + 1] = list[at[j]]
    BY <1>7
  <2>2. PrefixOf(u, v)
    BY <1>10
  <2> HIDE DEF u, v
  <2>3. u[n + 1] = v[n + 1]
    BY <1>8, <2>1, <2>2 DEF PrefixOf
  <2>4. at[i] = at[j]
    BY <1>5, <1>10, <2>1, <2>3 DEF Distinct
  <2> QED BY <1>1, <1>10, <2>4
<1>11. ReadsAll(list, plot, range) =>
         \A w \in Chains :
           PrefixOf(frs, w) /\ Accepted(w, keys, c, s) /\ FromPlot(w, plot) =>
             \E i \in 1 .. Len(out) : PrefixOf(out[i].fragments, w)
  BY <1>9, Zenon
<1>12. Distinct(list) => \A i, j \in 1 .. Len(out) :
         i # j => ~ PrefixOf(out[i].fragments, out[j].fragments)
  BY <1>10, Zenon
<1> QED BY <1>7, <1>11, <1>12, Zenon DEF range, Extends

-----------------------------------------------------------------------------
(* The stack.                                                              *)

StackGood(st, keys, c, plot, seed) ==
  \A j \in 1 .. Len(st) : GoodEntry(st[j], keys, c, plot) /\ st[j].start < seed

StackApart(st) ==
  \A i, j \in 1 .. Len(st) : i # j => ~ PrefixOf(st[i].fragments, st[j].fragments)

\* No entry of st leads where one of other does.
LeadsElsewhere(st, other) ==
  \A i \in 1 .. Len(st), j \in 1 .. Len(other) :
    /\ ~ PrefixOf(st[i].fragments, other[j].fragments)
    /\ ~ PrefixOf(other[j].fragments, st[i].fragments)

\* The chain w from set s has a prefix on the stack.
Waits(st, w, s) == \E j \in 1 .. Len(st) : st[j].start = s /\ PrefixOf(st[j].fragments, w)

\* The elements of two sequences put together.
LEMMA Joined ==
  ASSUME NEW S, NEW a \in Seq(S), NEW b \in Seq(S)
  PROVE  /\ a \o b \in Seq(S) /\ Len(a) \in Nat /\ Len(b) \in Nat
         /\ \A j \in 1 .. Len(a \o b) :
              \/ j \in 1 .. Len(a) /\ (a \o b)[j] = a[j]
              \/ \E k \in 1 .. Len(b) : j = Len(a) + k /\ (a \o b)[j] = b[k]
         /\ \A j \in 1 .. Len(a) : j \in 1 .. Len(a \o b) /\ (a \o b)[j] = a[j]
         /\ \A k \in 1 .. Len(b) :
              Len(a) + k \in 1 .. Len(a \o b) /\ (a \o b)[Len(a) + k] = b[k]
<1>1. Len(a) \in Nat /\ Len(b) \in Nat
  OBVIOUS
<1>2. /\ a \o b \in Seq(S) /\ Len(a \o b) = Len(a) + Len(b)
      /\ \A i \in 1 .. Len(a) + Len(b) :
           (a \o b)[i] = IF i <= Len(a) THEN a[i] ELSE b[i - Len(a)]
  BY ConcatProperties
<1> DEFINE m == Len(a)
           n == Len(b)
           ab == a \o b
<1> HIDE DEF m, n, ab
<1>3. m \in Nat /\ n \in Nat /\ Len(ab) = m + n
  BY <1>1, <1>2 DEF m, n, ab
<1>4. \A i \in 1 .. m + n : ab[i] = IF i <= m THEN a[i] ELSE b[i - m]
  BY <1>2 DEF m, n, ab
<1>5. ASSUME NEW j \in 1 .. m + n
      PROVE  \/ j \in 1 .. m /\ ab[j] = a[j]
             \/ \E k \in 1 .. n : j = m + k /\ ab[j] = b[k]
  <2>1. CASE j <= m
    BY <1>3, <1>4, <2>1
  <2>2. CASE ~ j <= m
    <3>1. j - m \in 1 .. n /\ j = m + (j - m) /\ ab[j] = b[j - m]
      BY <1>3, <1>4, <2>2
    <3> QED BY <3>1
  <2> QED BY <2>1, <2>2
<1>6. \A j \in 1 .. m : j \in 1 .. m + n /\ ab[j] = a[j]
  BY <1>3, <1>4
<1>7. ASSUME NEW k \in 1 .. n
      PROVE  m + k \in 1 .. m + n /\ ab[m + k] = b[k]
  <2> DEFINE i == m + k
  <2>1. i \in 1 .. m + n /\ ~ i <= m /\ i - m = k
    BY <1>3
  <2> HIDE DEF i
  <2>2. ab[i] = b[k]
    BY <1>4, <2>1
  <2> QED BY <2>1, <2>2 DEF i
<1> QED BY <1>2, <1>3, <1>5, <1>6, <1>7 DEF m, n, ab

\* Good entries put together with good ones are good; what waited still waits; and
\* entries that led to different chains and lead elsewhere still do.
LEMMA StackJoined ==
  ASSUME NEW rest \in Seq(StackEntries), NEW out \in Seq(StackEntries)
  PROVE  /\ \A keys, c, plot : \A seed \in Nat :
              /\ \A i \in 1 .. Len(rest) : GoodEntry(rest[i], keys, c, plot) /\ rest[i].start < seed
              /\ \A i \in 1 .. Len(out) : GoodEntry(out[i], keys, c, plot) /\ out[i].start < seed
              => StackGood(rest \o out, keys, c, plot, seed)
         /\ \A w, s : Waits(rest, w, s) \/ Waits(out, w, s) => Waits(rest \o out, w, s)
         /\ StackApart(rest) /\ StackApart(out) /\ LeadsElsewhere(rest, out)
            => StackApart(rest \o out)
<1> DEFINE st == rest \o out
           m == Len(rest)
           n == Len(out)
<1>1. /\ m \in Nat /\ n \in Nat
      /\ \A j \in 1 .. Len(st) : \/ j \in 1 .. m /\ st[j] = rest[j]
                                 \/ \E k \in 1 .. n : j = m + k /\ st[j] = out[k]
      /\ \A j \in 1 .. m : j \in 1 .. Len(st) /\ st[j] = rest[j]
      /\ \A k \in 1 .. n : m + k \in 1 .. Len(st) /\ st[m + k] = out[k]
  BY Joined
<1> HIDE DEF st
<1>2. ASSUME NEW keys, NEW c, NEW plot, NEW seed \in Nat,
             \A i \in 1 .. m : GoodEntry(rest[i], keys, c, plot) /\ rest[i].start < seed,
             \A i \in 1 .. n : GoodEntry(out[i], keys, c, plot) /\ out[i].start < seed
      PROVE  StackGood(st, keys, c, plot, seed)
  <2> HIDE DEF m, n
  <2>1. ASSUME NEW j \in 1 .. Len(st)
        PROVE  GoodEntry(st[j], keys, c, plot) /\ st[j].start < seed
    <3>1. CASE j \in 1 .. m /\ st[j] = rest[j]
      BY <1>2, <3>1
    <3>2. CASE \E k \in 1 .. n : j = m + k /\ st[j] = out[k]
      BY <1>2, <3>2
    <3> QED BY <1>1, <3>1, <3>2
  <2> QED BY <2>1 DEF StackGood
<1>3. ASSUME NEW w, NEW s, Waits(rest, w, s) \/ Waits(out, w, s)
      PROVE  Waits(st, w, s)
  BY <1>1, <1>3 DEF Waits
<1>4. ASSUME StackApart(rest), StackApart(out), LeadsElsewhere(rest, out),
             NEW i \in 1 .. Len(st), NEW j \in 1 .. Len(st), i # j
      PROVE  ~ PrefixOf(st[i].fragments, st[j].fragments)
  <2>1. \A k, l \in 1 .. m : k # l => ~ PrefixOf(rest[k].fragments, rest[l].fragments)
    BY <1>4 DEF StackApart
  <2>2. \A k, l \in 1 .. n : k # l => ~ PrefixOf(out[k].fragments, out[l].fragments)
    BY <1>4 DEF StackApart
  <2>3. \A k \in 1 .. m, l \in 1 .. n :
          /\ ~ PrefixOf(rest[k].fragments, out[l].fragments)
          /\ ~ PrefixOf(out[l].fragments, rest[k].fragments)
    BY <1>4 DEF LeadsElsewhere
  <2> HIDE DEF m, n
  <2>4. CASE i \in 1 .. m /\ st[i] = rest[i] /\ j \in 1 .. m /\ st[j] = rest[j]
    BY <1>4, <2>1, <2>4
  <2>5. CASE i \in 1 .. m /\ st[i] = rest[i] /\ \E k \in 1 .. n : j = m + k /\ st[j] = out[k]
    BY <2>3, <2>5
  <2>6. CASE j \in 1 .. m /\ st[j] = rest[j] /\ \E k \in 1 .. n : i = m + k /\ st[i] = out[k]
    BY <2>3, <2>6
  <2>7. CASE /\ \E k \in 1 .. n : i = m + k /\ st[i] = out[k]
             /\ \E k \in 1 .. n : j = m + k /\ st[j] = out[k]
    BY <1>4, <2>2, <2>7
  <2> QED BY <1>1, <2>4, <2>5, <2>6, <2>7
<1>5. StackApart(rest) /\ StackApart(out) /\ LeadsElsewhere(rest, out) => StackApart(st)
  BY <1>4 DEF StackApart
<1> QED BY <1>2, <1>3, <1>5 DEF st

\* Entries of different sets lead to different chains.
LEMMA SetsApart ==
  ASSUME NEW c \in Challenges, NEW keys, NEW plot, NEW a, NEW b,
         GoodEntry(a, keys, c, plot), GoodEntry(b, keys, c, plot), a.start # b.start
  PROVE  ~ PrefixOf(a.fragments, b.fragments)
<1> DEFINE u == a.fragments
           v == b.fragments
<1>1. /\ u \in Seq(Fragments) /\ Len(u) \in 1 .. Links
      /\ v \in Seq(Fragments) /\ Len(v) \in 1 .. Links
  BY DEF GoodEntry, StackEntries
<1>2. InRange(u[1], RangeOf(c, a.start)) /\ InRange(v[1], RangeOf(c, b.start))
      /\ a.start \in Sets /\ b.start \in Sets
  BY <1>1, ChainerAssumption DEF GoodEntry, Node
<1> HIDE DEF u, v
<1>3. 1 \in 1 .. Len(u) /\ u[1] \in Fragments
  BY <1>1, ChainerAssumption
<1>4. ASSUME PrefixOf(u, v) PROVE FALSE
  <2>1. u[1] = v[1]
    BY <1>3, <1>4 DEF PrefixOf
  <2> QED BY <1>2, <1>3, <2>1, RangesApart
<1> QED BY <1>4 DEF u, v

\* What leads elsewhere than a node leads elsewhere than its extensions.
LEMMA BranchesApart ==
  ASSUME NEW r \in Seq(Fragments), NEW frs \in Seq(Fragments), NEW u \in Seq(Fragments),
         PrefixOf(frs, u), Len(u) = Len(frs) + 1,
         ~ PrefixOf(r, frs), ~ PrefixOf(frs, r)
  PROVE  ~ PrefixOf(r, u) /\ ~ PrefixOf(u, r)
<1> DEFINE n == Len(frs)
           m == Len(r)
<1>1. n \in Nat /\ m \in Nat
  OBVIOUS
<1> HIDE DEF n, m
<1>2. Len(u) = n + 1 /\ \A i \in 1 .. n : frs[i] = u[i]
  BY DEF PrefixOf, n
<1>3. ASSUME PrefixOf(r, u) PROVE FALSE
  <2>1. m <= n + 1 /\ \A i \in 1 .. m : r[i] = u[i]
    BY <1>2, <1>3 DEF PrefixOf, m
  <2>2. CASE m <= n
    <3>1. \A i \in 1 .. m : r[i] = frs[i]
      <4>1. \A i \in 1 .. m : i \in 1 .. n
        BY <1>1, <2>2
      <4> QED BY <1>2, <2>1, <4>1
    <3> QED BY <2>2, <3>1 DEF PrefixOf, m, n
  <2>3. CASE ~ m <= n
    <3>1. n <= m
      BY <1>1, <2>3
    <3>2. \A i \in 1 .. n : frs[i] = r[i]
      <4>1. \A i \in 1 .. n : i \in 1 .. m
        BY <1>1, <3>1
      <4> QED BY <1>2, <2>1, <4>1
    <3> QED BY <3>1, <3>2 DEF PrefixOf, m, n
  <2> QED BY <2>2, <2>3
<1>4. ASSUME PrefixOf(u, r) PROVE FALSE
  <2>1. n + 1 <= m /\ \A i \in 1 .. n + 1 : u[i] = r[i]
    BY <1>2, <1>4 DEF PrefixOf, m
  <2>2. n <= m /\ \A i \in 1 .. n : i \in 1 .. n + 1
    BY <1>1, <2>1
  <2>3. \A i \in 1 .. n : frs[i] = r[i]
    BY <1>2, <2>1, <2>2
  <2> QED BY <2>2, <2>3 DEF PrefixOf, m, n
<1> QED BY <1>3, <1>4

\* A whole chain on the stack is what it leads to.
LEMMA WholeChain ==
  ASSUME NEW u \in Seq(Fragments), NEW w \in Chains, Len(u) = Links
  PROVE  /\ u \in Chains /\ PrefixOf(u, u)
         /\ PrefixOf(u, w) => u = w
<1>1. Links \in Nat /\ u \in Chains /\ Len(w) = Links
  BY ChainerAssumption DEF Chains
<1>2. PrefixOf(u, u)
  BY <1>1 DEF PrefixOf
<1>3. ASSUME PrefixOf(u, w) PROVE u = w
  <2>1. \A i \in 1 .. Links : u[i] = w[i]
    BY <1>3 DEF PrefixOf
  <2> QED BY <1>1, <2>1 DEF Chains
<1> QED BY <1>1, <1>2, <1>3

-----------------------------------------------------------------------------
(* The inductive invariant of the search.                                  *)

\* r is a chain of plot p that the validator accepts, under the plot's index.
ResultGood(r, p, grp, b, c) ==
  /\ r.index = b + p - 1 /\ r.chain \in Chains /\ FromPlot(r.chain, grp[p])
  /\ \E s \in Sets : Accepted(r.chain, RoundKeys[b + p - 1][c], c, s)

\* w is a chain of plot p from set s that has to be found.
Findable(w, s, p, grp, b, c) ==
  FromPlot(w, grp[p]) /\ Accepted(w, RoundKeys[b + p - 1][c], c, s)

Recorded(rs, index, w) ==
  \E j \in 1 .. Len(rs) : rs[j] = [index |-> index, chain |-> w]

TypeInv ==
  /\ challenge \in Challenges /\ group \in Groups /\ base \in Bases
  /\ plotIndex \in 1 .. (Len(group) + 1)
  /\ seeding \in 0 .. NumSets
  /\ stack \in Seq(StackEntries)
  /\ results \in Seq(Entries)

IdleInv == ~Searching => stack = <<>>

\* Every entry is a node of the tree, of a set that is seeded.
StackInv == Searching => StackGood(stack, Keys, challenge, group[plotIndex], seeding)

\* Results come from the plots before, and from this one once it is seeded.
FoundInv ==
  \A j \in 1 .. Len(results) : \E p \in 1 .. Len(group) :
    /\ ResultGood(results[j], p, group, base, challenge)
    /\ p < plotIndex \/ (p = plotIndex /\ seeding = NumSets)

\* What has to be found is recorded, or waits on the stack, or for its set.
CompleteInv ==
  Grouped /\ ~Refused =>
    \A p \in 1 .. Len(group), w \in Chains, s \in Sets :
      Findable(w, s, p, group, base, challenge) =>
        /\ p < plotIndex => Recorded(results, base + p - 1, w)
        /\ p = plotIndex => \/ Recorded(results, base + p - 1, w)
                            \/ seeding <= s
                            \/ Waits(stack, w, s)

OnceInv ==
  Grouped =>
    /\ \A i, j \in 1 .. Len(results) : i # j => results[i] # results[j]
    /\ StackApart(stack)
    /\ \A i \in 1 .. Len(stack), j \in 1 .. Len(results) :
         results[j].index = ReportedIndex =>
           ~ PrefixOf(stack[i].fragments, results[j].chain)

IInv == TypeInv /\ IdleInv /\ StackInv /\ FoundInv /\ CompleteInv /\ OnceInv

\* What a search under way can rely on.
LEMMA SearchingMeans ==
  ASSUME TypeInv, Searching
  PROVE  /\ plotIndex \in 1 .. Len(group) /\ Len(group) \in Nat
         /\ group[plotIndex] \in Seq(Fragments) /\ Sorted(group[plotIndex])
         /\ ReportedIndex \in DOMAIN RoundKeys /\ ReportedIndex \in Int
         /\ Keys \in KeySets
         /\ Keys = RoundKeys[base + plotIndex - 1][challenge]
<1>1. /\ challenge \in Challenges /\ group \in Groups /\ base \in Bases
      /\ plotIndex \in 1 .. (Len(group) + 1)
  BY DEF TypeInv
<1>2. /\ group \in Seq(Seq(Fragments))
      /\ \A p \in DOMAIN group : \A i, j \in DOMAIN group[p] :
           i <= j => group[p][i] <= group[p][j]
  BY <1>1, GroupAssumption
<1>3. plotIndex \in 1 .. Len(group) /\ Len(group) \in Nat
  BY <1>1, <1>2 DEF Searching
<1>4. group[plotIndex] \in Seq(Fragments)
  BY <1>2, <1>3
<1>5. Sorted(group[plotIndex])
  BY <1>2, <1>3, <1>4 DEF Sorted
<1>6. base \in Nat
  BY <1>1, GroupAssumption
<1>7. base = 0 \/ Len(group) <= 1
  BY <1>3 DEF Searching, Refused
<1>8. ReportedIndex \in DOMAIN RoundKeys
  BY <1>1, <1>3, <1>7, GroupAssumption DEF ReportedIndex
<1>9. Keys \in KeySets
  BY <1>1, <1>8, GroupAssumption DEF Keys, KeySets, Word
<1>10. ReportedIndex \in Int
  BY <1>3, <1>6 DEF ReportedIndex
<1>11. Keys = RoundKeys[base + plotIndex - 1][challenge]
  BY DEF Keys, ReportedIndex
<1> QED BY <1>3, <1>4, <1>5, <1>8, <1>9, <1>10, <1>11

\* What the search reads for a set.
LEMMA FragmentListReads ==
  ASSUME TypeInv, Searching, NEW s \in Sets
  PROVE  /\ ReadsOnly(FragmentList(s), group[plotIndex], RangeOf(challenge, s))
         /\ Grouped => /\ ReadsAll(FragmentList(s), group[plotIndex], RangeOf(challenge, s))
                       /\ Distinct(FragmentList(s))
<1> DEFINE plot == group[plotIndex]
           range == RangeOf(challenge, s)
<1>1. plot \in Seq(Fragments) /\ Sorted(plot)
  BY SearchingMeans
<1>2. SetRange(s) = range
  BY DEF SetRange, SetIndex, RangeOf
<1>3. range.end \in Nat
  <2>1. NumSets \in Nat \ {0} /\ RangeSize \in Nat \ {0} /\ NumRanges \in Nat \ {0}
    BY ChainerAssumption
  <2>2. Rolls[challenge][s] \in Nat
    BY <2>1, ChainerAssumption DEF TypeInv
  <2> DEFINE q == Rolls[challenge][s] \div NumSets
  <2>3. q \in Nat
    BY <2>1, <2>2
  <2> HIDE DEF q
  <2> DEFINE i == q * NumSets + s
  <2>4. i \in Nat
    BY <2>1, <2>3 DEF Sets
  <2>5. range.end = i * RangeSize + RangeSize - 1
    BY DEF RangeOf, q
  <2> HIDE DEF i, range
  <2> DEFINE e == i * RangeSize
  <2>6. e \in Nat
    BY <2>1, <2>4
  <2>7. range.end = e + RangeSize - 1
    BY <2>5
  <2> HIDE DEF e
  <2> QED BY <2>1, <2>6, <2>7
<1>4. FragmentList(s) = IF Grouped THEN GroupFileRead(plot, range) ELSE PlotFileRead(plot, range)
  BY <1>2 DEF FragmentList
<1> HIDE DEF plot, range
<1>5. CASE Grouped
  BY <1>1, <1>4, <1>5, GroupFileReads DEF plot, range
<1>6. CASE ~Grouped
  BY <1>1, <1>3, <1>4, <1>6, PlotFileReads DEF plot, range
<1> QED BY <1>5, <1>6

\* An untouched search satisfies the invariant.
LEMMA FreshInv ==
  ASSUME challenge \in Challenges, group \in Groups, base \in Bases,
         plotIndex = 1, seeding = 0, stack = <<>>, results = <<>>
  PROVE  IInv
<1>1. Len(group) \in Nat /\ NumSets \in Nat /\ Len(<<>>) = 0
  BY GroupAssumption, ChainerAssumption
<1>2. TypeInv
  BY <1>1 DEF TypeInv
<1>3. IdleInv /\ StackInv /\ FoundInv /\ OnceInv
  BY <1>1 DEF IdleInv, StackInv, StackGood, FoundInv, OnceInv, StackApart
<1>4. \A s \in Sets : seeding <= s
  BY <1>1 DEF Sets
<1>5. CompleteInv
  BY <1>1, <1>4 DEF CompleteInv
<1> QED BY <1>2, <1>3, <1>5 DEF IInv

\* What waited on st, or for its set, still waits or goes on from the node frs of set s.
PassesOn(st, seed, rest, seed2, s, frs) ==
  \A w \in Chains, t \in Sets :
    seed <= t \/ Waits(st, w, t) =>
      seed2 <= t \/ Waits(rest, w, t) \/ (t = s /\ PrefixOf(frs, w))

\* out holds extensions of the node frs of set s, in different directions.
Outgrowth(out, keys, c, plot, n, s, frs) ==
  /\ \A i \in 1 .. Len(out) :
       /\ GoodEntry(out[i], keys, c, plot)
       /\ out[i].start = s
       /\ PrefixOf(frs, out[i].fragments) /\ Len(out[i].fragments) = n + 1
  /\ Grouped => StackApart(out)

\* SeedSet and ExtendChain push the extensions of a node on a part of the stack.  All
\* but OnceInv is kept; what OnceInv needs is returned.
LEMMA GrowKeeps ==
  ASSUME IInv, Searching, UNCHANGED <<challenge, group, base, plotIndex, results>>,
         NEW rest \in Seq(StackEntries), NEW hash, NEW n \in Positions, NEW s \in Sets,
         NEW frs, NEW list,
         Node(frs, hash, s, Keys, challenge, group[plotIndex]), Len(frs) = n,
         list = FragmentList((s + n) % NumSets),
         stack' = rest \o Pushed(list, hash, n, s, frs),
         seeding' \in 0 .. NumSets, seeding <= seeding', s < seeding',
         StackGood(rest, Keys, challenge, group[plotIndex], seeding'),
         PassesOn(stack, seeding, rest, seeding', s, frs)
  PROVE  /\ TypeInv' /\ IdleInv' /\ StackInv' /\ FoundInv' /\ CompleteInv'
         /\ \E out \in Seq(StackEntries) :
              /\ stack' = rest \o out
              /\ Outgrowth(out, Keys, challenge, group[plotIndex], n, s, frs)
<1> DEFINE plot == group[plotIndex]
           c == challenge
           out == Pushed(list, hash, n, s, frs)
           r == (s + n) % NumSets
<1>1. TypeInv /\ FoundInv /\ CompleteInv
  BY DEF IInv
<1>2. /\ plotIndex \in 1 .. Len(group) /\ Len(group) \in Nat /\ plot \in Seq(Fragments)
      /\ Keys \in KeySets /\ Keys = RoundKeys[base + plotIndex - 1][challenge]
  BY <1>1, SearchingMeans
<1>3. c \in Challenges
  BY <1>1 DEF TypeInv
<1>4. r \in Sets /\ n \in Nat
  <2>1. n \in Nat
    BY ChainerAssumption DEF Positions
  <2> QED BY <2>1, Rotation
<1>5. /\ ReadsOnly(list, plot, RangeOf(c, r))
      /\ Grouped => ReadsAll(list, plot, RangeOf(c, r)) /\ Distinct(list)
  BY <1>1, <1>4, FragmentListReads
<1>6. list \in Seq(Fragments) /\ frs \in Seq(Fragments) /\ hash \in Word
  BY <1>5 DEF ReadsOnly, Node
<1>7. IsPushed(out, list, Keys, hash, n, s, frs)
  BY <1>2, <1>6, PushedMeans
<1>8. out \in Seq(StackEntries) /\ stack' = rest \o out
  BY <1>7 DEF IsPushed
<1> HIDE DEF out
<1>9. /\ \A i \in 1 .. Len(out) :
           /\ GoodEntry(out[i], Keys, c, plot)
           /\ out[i].start = s
           /\ PrefixOf(frs, out[i].fragments) /\ Len(out[i].fragments) = n + 1
      /\ ReadsAll(list, plot, RangeOf(c, r)) =>
           \A w \in Chains :
             PrefixOf(frs, w) /\ Accepted(w, Keys, c, s) /\ FromPlot(w, plot) =>
               \E i \in 1 .. Len(out) : PrefixOf(out[i].fragments, w)
      /\ Distinct(list) =>
           \A i, j \in 1 .. Len(out) : i # j => ~ PrefixOf(out[i].fragments, out[j].fragments)
  <2>1. Node(frs, hash, s, Keys, c, plot) /\ ReadsOnly(list, plot, RangeOf(c, (s + n) % NumSets))
    BY <1>5
  <2> HIDE DEF plot, c
  <2>2. Extends(out, list, Keys, c, plot, n, s, frs)
    BY <1>2, <1>3, <1>7, <2>1, PushedExtends
  <2> QED BY <2>2 DEF Extends
<1> HIDE DEF r
<1>10. TypeInv'
  <2>1. stack' \in Seq(StackEntries)
    BY <1>8, Joined
  <2> QED BY <1>1, <2>1 DEF TypeInv
<1>11. Searching' /\ Keys' = Keys
  BY DEF Searching, Refused, Keys, ReportedIndex
<1>12. StackInv'
  <2>1. seeding' \in Nat
    BY ChainerAssumption
  <2>2. \A i \in 1 .. Len(rest) : GoodEntry(rest[i], Keys, c, plot) /\ rest[i].start < seeding'
    BY DEF StackGood
  <2>3. \A i \in 1 .. Len(out) : GoodEntry(out[i], Keys, c, plot) /\ out[i].start < seeding'
    BY <1>9
  <2> HIDE DEF plot, c
  <2>4. StackGood(rest \o out, Keys, c, plot, seeding')
    BY <1>8, <2>1, <2>2, <2>3, StackJoined
  <2>5. StackGood(stack', Keys', c', plot', seeding')
    BY <1>8, <1>11, <2>4 DEF plot, c
  <2> QED BY <2>5 DEF StackInv, plot, c
<1>13. FoundInv'
  <2>1. seeding = NumSets => seeding' = NumSets
    BY ChainerAssumption
  <2>2. \A j \in 1 .. Len(results) : \E p \in 1 .. Len(group) :
          /\ ResultGood(results[j], p, group, base, challenge)
          /\ p < plotIndex \/ (p = plotIndex /\ seeding' = NumSets)
    BY <1>1, <2>1 DEF FoundInv
  <2> QED BY <2>2 DEF FoundInv
<1>14. CompleteInv'
  <2>1. Refused' = Refused
    BY DEF Refused
  <2>2. ASSUME Grouped, ~Refused, NEW p \in 1 .. Len(group), NEW w \in Chains, NEW t \in Sets,
               Findable(w, t, p, group, base, challenge)
        PROVE  /\ p < plotIndex => Recorded(results, base + p - 1, w)
               /\ p = plotIndex => \/ Recorded(results, base + p - 1, w)
                                   \/ seeding' <= t
                                   \/ Waits(stack', w, t)
    <3>1. /\ p < plotIndex => Recorded(results, base + p - 1, w)
          /\ p = plotIndex => \/ Recorded(results, base + p - 1, w)
                              \/ seeding <= t
                              \/ Waits(stack, w, t)
      BY <1>1, <2>2 DEF CompleteInv
    <3>2. ASSUME p = plotIndex, ~Recorded(results, base + p - 1, w), ~ seeding' <= t
          PROVE  Waits(stack', w, t)
      <4>1. Waits(rest, w, t) \/ (t = s /\ PrefixOf(frs, w))
        BY <3>1, <3>2 DEF PassesOn
      <4>2. CASE t = s /\ PrefixOf(frs, w)
        <5>1. Accepted(w, Keys, c, s) /\ FromPlot(w, plot)
          BY <1>2, <2>2, <3>2, <4>2 DEF Findable
        <5>2. PICK i \in 1 .. Len(out) : PrefixOf(out[i].fragments, w)
          BY <1>5, <1>9, <2>2, <4>2, <5>1
        <5>3. out[i].start = t
          BY <1>9, <4>2
        <5>4. Waits(out, w, t)
          BY <5>2, <5>3 DEF Waits
        <5> QED BY <1>8, <5>4, StackJoined
      <4> QED BY <1>8, <4>1, <4>2, StackJoined
    <3> QED BY <3>1, <3>2
  <2> QED BY <2>1, <2>2, Zenon DEF CompleteInv
<1>15. IdleInv'
  BY <1>11 DEF IdleInv
<1>16. Outgrowth(out, Keys, challenge, plot, n, s, frs)
  BY <1>5, <1>9 DEF StackApart, Outgrowth
<1> QED BY <1>8, <1>10, <1>12, <1>13, <1>14, <1>15, <1>16

\* The empty sequence is a prefix of a chain, and being a prefix is transitive.
LEMMA PrefixFacts ==
  /\ \A w \in Chains : PrefixOf(<<>>, w)
  /\ \A a, b, w \in Seq(Fragments) : PrefixOf(a, b) /\ PrefixOf(b, w) => PrefixOf(a, w)
<1>1. ASSUME NEW w \in Chains PROVE PrefixOf(<<>>, w)
  <2>1. Len(w) = Links /\ Links \in Nat /\ Len(<<>>) = 0
    BY ChainerAssumption DEF Chains
  <2> QED BY <2>1 DEF PrefixOf
<1>2. ASSUME NEW a \in Seq(Fragments), NEW b \in Seq(Fragments), NEW w \in Seq(Fragments),
             PrefixOf(a, b), PrefixOf(b, w)
      PROVE  PrefixOf(a, w)
  <2>1. Len(a) \in Nat /\ Len(b) \in Nat /\ Len(w) \in Nat /\ Len(a) <= Len(b) /\ Len(b) <= Len(w)
    BY <1>2 DEF PrefixOf
  <2>2. \A i \in 1 .. Len(a) : i \in 1 .. Len(b)
    BY <2>1
  <2>3. \A i \in 1 .. Len(a) : a[i] = w[i]
    BY <1>2, <2>2 DEF PrefixOf
  <2>4. Len(a) <= Len(w)
    BY <2>1
  <2> QED BY <2>3, <2>4 DEF PrefixOf
<1> QED BY <1>1, <1>2

\* Seeding a set keeps the invariant: a set's starters lead elsewhere than those of
\* the sets before.
LEMMA SeedKeeps ==
  ASSUME IInv, SeedSet
  PROVE  IInv'
<1> DEFINE plot == group[plotIndex]
           c == challenge
<1>1. /\ TypeInv /\ StackInv /\ FoundInv /\ OnceInv
      /\ Searching /\ seeding < NumSets /\ seeding' = seeding + 1
      /\ UNCHANGED <<challenge, group, base, plotIndex, results>>
      /\ stack' = stack \o Pushed(FragmentList(seeding), 0, 0, seeding, <<>>)
  BY DEF IInv, SeedSet
<1>2. /\ plotIndex \in 1 .. Len(group) /\ Len(group) \in Nat /\ plot \in Seq(Fragments)
      /\ Keys \in KeySets /\ ReportedIndex \in Int
  BY <1>1, SearchingMeans
<1>3. /\ seeding \in Sets /\ seeding \in Nat /\ NumSets \in Nat /\ 0 \in Positions
      /\ stack \in Seq(StackEntries) /\ c \in Challenges
      /\ seeding' \in 0 .. NumSets /\ seeding <= seeding' /\ seeding < seeding'
  <2>1. NumSets \in Nat /\ 0 \in Positions
    BY ChainerAssumption DEF Positions
  <2>2. stack \in Seq(StackEntries) /\ c \in Challenges /\ seeding \in 0 .. NumSets
    BY <1>1 DEF TypeInv
  <2>3. seeding < NumSets /\ seeding' = seeding + 1
    BY <1>1
  <2>4. /\ seeding \in 0 .. (NumSets - 1) /\ seeding \in Nat
        /\ seeding' \in 0 .. NumSets /\ seeding <= seeding' /\ seeding < seeding'
    BY <2>1, <2>2, <2>3
  <2> QED BY <2>1, <2>2, <2>4 DEF Sets
<1>4. (seeding + 0) % NumSets = seeding
  BY <1>3, Rotation
<1>5. StackGood(stack, Keys, c, plot, seeding)
  BY <1>1 DEF StackInv
<1>6. StackGood(stack, Keys, c, plot, seeding')
  <2>1. \A j \in 1 .. Len(stack) : stack[j].start \in Int
    <3>1. \A j \in 1 .. Len(stack) : stack[j] \in StackEntries
      BY <1>3
    <3>2. \A e \in StackEntries : e.start \in Int
      BY <1>3 DEF StackEntries, Sets
    <3> QED BY <3>1, <3>2
  <2> HIDE DEF plot, c
  <2>2. \A j \in 1 .. Len(stack) : GoodEntry(stack[j], Keys, c, plot) /\ stack[j].start < seeding
    BY <1>5 DEF StackGood
  <2>3. \A j \in 1 .. Len(stack) : stack[j].start < seeding'
    BY <1>1, <1>3, <2>1, <2>2
  <2> QED BY <2>2, <2>3 DEF StackGood
<1>7. PassesOn(stack, seeding, stack, seeding', seeding, <<>>)
  <2>1. \A t \in Sets : seeding <= t => seeding' <= t \/ t = seeding
    BY <1>1, <1>3 DEF Sets
  <2> QED BY <2>1, PrefixFacts DEF PassesOn
<1>8. Node(<<>>, 0, seeding, Keys, c, plot) /\ Len(<<>>) = 0
  BY <1>2, <1>3, RootIsNode
<1>9. /\ TypeInv' /\ IdleInv' /\ StackInv' /\ FoundInv' /\ CompleteInv'
      /\ \E out \in Seq(StackEntries) :
           stack' = stack \o out /\ Outgrowth(out, Keys, c, plot, 0, seeding, <<>>)
  BY <1>1, <1>3, <1>4, <1>6, <1>7, <1>8, GrowKeeps
<1>10. PICK out \in Seq(StackEntries) :
         /\ stack' = stack \o out
         /\ \A i \in 1 .. Len(out) :
              GoodEntry(out[i], Keys, c, plot) /\ out[i].start = seeding
         /\ Grouped => StackApart(out)
  BY <1>9 DEF Outgrowth
<1>11. LeadsElsewhere(stack, out)
  <2>1. ASSUME NEW i \in 1 .. Len(stack), NEW j \in 1 .. Len(out)
        PROVE  /\ ~ PrefixOf(stack[i].fragments, out[j].fragments)
               /\ ~ PrefixOf(out[j].fragments, stack[i].fragments)
    <3> HIDE DEF plot, c
    <3>1. GoodEntry(stack[i], Keys, c, plot) /\ stack[i].start < seeding
      BY <1>5 DEF StackGood
    <3>2. GoodEntry(out[j], Keys, c, plot) /\ out[j].start = seeding
      BY <1>10
    <3>3. stack[i].start # out[j].start
      BY <1>3, <3>1, <3>2
    <3> QED BY <1>3, <3>1, <3>2, <3>3, SetsApart
  <2> QED BY <2>1 DEF LeadsElsewhere
<1>12. ASSUME NEW j \in 1 .. Len(results)
       PROVE  results[j].index # ReportedIndex
  <2>1. PICK p \in 1 .. Len(group) :
          results[j].index = base + p - 1 /\ (p < plotIndex \/ (p = plotIndex /\ seeding = NumSets))
    BY <1>1 DEF FoundInv, ResultGood
  <2>2. p < plotIndex /\ base \in Nat
    BY <1>1, <1>3, <2>1, GroupAssumption DEF TypeInv
  <2>3. base + p - 1 # base + plotIndex - 1
    BY <1>2, <2>2
  <2> QED BY <2>1, <2>3 DEF ReportedIndex
<1>13. OnceInv'
  <2>1. Grouped => StackApart(stack')
    BY <1>1, <1>3, <1>10, <1>11, StackJoined DEF OnceInv
  <2>2. ReportedIndex' = ReportedIndex
    BY <1>1 DEF ReportedIndex
  <2> QED BY <1>1, <1>12, <2>1, <2>2 DEF OnceInv
<1> QED BY <1>9, <1>13 DEF IInv

\* What holds of the entry on top of the stack.
LEMMA TopMeans ==
  ASSUME IInv, Seeded, stack # <<>>
  PROVE  /\ Last(stack) = stack[Len(stack)] /\ Len(stack) \in Nat \ {0}
         /\ Front(stack) \in Seq(StackEntries) /\ Len(Front(stack)) = Len(stack) - 1
         /\ \A i \in 1 .. Len(stack) - 1 :
              i \in 1 .. Len(stack) /\ i # Len(stack) /\ Front(stack)[i] = stack[i]
         /\ \A i \in 1 .. Len(stack) : i \in 1 .. Len(stack) - 1 \/ i = Len(stack)
         /\ GoodEntry(Last(stack), Keys, challenge, group[plotIndex])
         /\ StackGood(Front(stack), Keys, challenge, group[plotIndex], NumSets)
         /\ Last(stack).start < NumSets
<1>1. TypeInv /\ StackInv /\ Searching /\ seeding = NumSets
  BY DEF IInv, Seeded
<1>2. stack \in Seq(StackEntries)
  BY <1>1 DEF TypeInv
<1> DEFINE L == Len(stack)
<1>3. /\ L \in Nat \ {0} /\ Last(stack) = stack[L]
      /\ Front(stack) \in Seq(StackEntries) /\ Len(Front(stack)) = L - 1
      /\ \A i \in 1 .. L - 1 : Front(stack)[i] = stack[i]
  BY <1>2, FrontAndLast
<1>4. \A j \in 1 .. L : /\ GoodEntry(stack[j], Keys, challenge, group[plotIndex])
                        /\ stack[j].start < NumSets
  BY <1>1 DEF StackInv, StackGood
<1> HIDE DEF L
<1>5. \A i \in 1 .. L - 1 : i \in 1 .. L /\ i # L
  BY <1>3
<1>6. \A i \in 1 .. L : i \in 1 .. L - 1 \/ i = L
  BY <1>3
<1>7. L \in 1 .. L
  BY <1>3
<1>8. StackGood(Front(stack), Keys, challenge, group[plotIndex], NumSets)
  BY <1>3, <1>4, <1>5 DEF StackGood
<1> QED BY <1>3, <1>4, <1>5, <1>6, <1>7, <1>8 DEF L

\* Extending a chain keeps the invariant: what waited for the popped entry goes on from
\* one that is pushed, and its branches lead elsewhere than all that is on the stack.
LEMMA ExtendKeeps ==
  ASSUME IInv, ExtendChain
  PROVE  IInv'
<1> DEFINE plot == group[plotIndex]
           c == challenge
           e == Last(stack)
           n == e.iteration
           s == e.start
           frs == e.fragments
           rest == Front(stack)
           L == Len(stack)
<1>1. /\ TypeInv /\ OnceInv /\ Seeded /\ stack # <<>>
      /\ Searching /\ seeding = NumSets /\ n < Links
      /\ UNCHANGED <<challenge, group, base, plotIndex, seeding, results>>
      /\ stack' = rest \o Pushed(FragmentList((s + n) % NumSets), e.hash, n, s, frs)
  BY DEF IInv, ExtendChain, Seeded
<1>2. /\ e = stack[L] /\ L \in Nat \ {0}
      /\ rest \in Seq(StackEntries) /\ Len(rest) = L - 1
      /\ \A i \in 1 .. L - 1 : i \in 1 .. L /\ i # L /\ rest[i] = stack[i]
      /\ \A i \in 1 .. L : i \in 1 .. L - 1 \/ i = L
      /\ GoodEntry(e, Keys, c, plot)
      /\ StackGood(rest, Keys, c, plot, NumSets)
      /\ s < NumSets
  BY <1>1, TopMeans
<1>3. /\ Links \in Nat /\ NumSets \in Nat /\ n \in Positions /\ s \in Sets /\ frs \in Seq(Fragments)
      /\ Len(frs) = n /\ Node(frs, e.hash, s, Keys, c, plot)
  <2>1. e \in StackEntries
    BY <1>2 DEF GoodEntry
  <2>2. \A x \in StackEntries :
          x.iteration \in 1 .. Links /\ x.start \in Sets /\ x.fragments \in Seq(Fragments)
    BY DEF StackEntries
  <2>3. n \in 1 .. Links /\ s \in Sets /\ frs \in Seq(Fragments)
    BY <2>1, <2>2
  <2>4. Links \in Nat /\ NumSets \in Nat
    BY ChainerAssumption
  <2>5. n \in Positions
    BY <1>1, <2>3, <2>4 DEF Positions
  <2> QED BY <1>2, <2>3, <2>4, <2>5 DEF GoodEntry
<1> HIDE DEF rest, L
<1>4. PassesOn(stack, seeding, rest, seeding', s, frs)
  <2>1. ASSUME NEW w \in Chains, NEW t \in Sets, Waits(stack, w, t), ~ Waits(rest, w, t)
        PROVE  t = s /\ PrefixOf(frs, w)
    <3>1. PICK j \in 1 .. L : stack[j].start = t /\ PrefixOf(stack[j].fragments, w)
      BY <2>1 DEF Waits, L
    <3>2. j \notin 1 .. L - 1
      BY <1>2, <2>1, <3>1 DEF Waits
    <3> QED BY <1>2, <3>1, <3>2
  <2>2. seeding' = seeding
    BY <1>1
  <2> HIDE DEF n, s, frs, e
  <2>3. ASSUME NEW w \in Chains, NEW t \in Sets, seeding <= t \/ Waits(stack, w, t)
        PROVE  seeding' <= t \/ Waits(rest, w, t) \/ (t = s /\ PrefixOf(frs, w))
    BY <2>1, <2>2, <2>3
  <2> QED BY <2>3 DEF PassesOn
<1>5. seeding' \in 0 .. NumSets /\ seeding <= seeding' /\ s < seeding'
      /\ StackGood(rest, Keys, c, plot, seeding')
  BY <1>1, <1>2, <1>3
<1>6. /\ TypeInv' /\ IdleInv' /\ StackInv' /\ FoundInv' /\ CompleteInv'
      /\ \E out \in Seq(StackEntries) :
           stack' = rest \o out /\ Outgrowth(out, Keys, c, plot, n, s, frs)
  <2> HIDE DEF n, s, frs
  <2> DEFINE hash == e.hash
  <2>1. Node(frs, hash, s, Keys, c, plot)
        /\ stack' = rest \o Pushed(FragmentList((s + n) % NumSets), hash, n, s, frs)
    BY <1>1, <1>3
  <2> HIDE DEF hash, e
  <2>2. UNCHANGED <<challenge, group, base, plotIndex, results>> /\ Searching
    BY <1>1
  <2> QED BY <1>2, <1>3, <1>4, <1>5, <2>1, <2>2, GrowKeeps
<1>7. PICK out \in Seq(StackEntries) :
        stack' = rest \o out /\ Outgrowth(out, Keys, c, plot, n, s, frs)
  BY <1>6
<1>8. /\ \A i \in 1 .. Len(out) : /\ out[i].fragments \in Seq(Fragments)
                                  /\ PrefixOf(frs, out[i].fragments)
                                  /\ Len(out[i].fragments) = n + 1
      /\ Grouped => StackApart(out)
  <2>1. \A i \in 1 .. Len(out) : out[i].fragments \in Seq(Fragments)
    <3>1. \A i \in 1 .. Len(out) : out[i] \in StackEntries
      BY <1>7
    <3>2. \A x \in StackEntries : x.fragments \in Seq(Fragments)
      BY DEF StackEntries
    <3> QED BY <3>1, <3>2
  <2> QED BY <1>7, <2>1 DEF Outgrowth
<1>9. \A i \in 1 .. L : stack[i].fragments \in Seq(Fragments)
  <2>1. \A i \in 1 .. L : stack[i] \in StackEntries
    BY <1>1 DEF TypeInv, L
  <2>2. \A x \in StackEntries : x.fragments \in Seq(Fragments)
    BY DEF StackEntries
  <2> QED BY <2>1, <2>2
<1>10. L \in 1 .. L
  BY <1>2
<1> HIDE DEF n, s, frs, e
<1>11. frs = stack[L].fragments
  BY <1>2 DEF frs
<1>12. ASSUME Grouped PROVE StackApart(stack')
  <2>1. \A i, j \in 1 .. L : i # j => ~ PrefixOf(stack[i].fragments, stack[j].fragments)
    BY <1>1, <1>12 DEF OnceInv, StackApart, L
  <2>2. StackApart(rest)
    BY <1>2, <2>1 DEF StackApart
  <2>3. LeadsElsewhere(rest, out)
    <3>1. ASSUME NEW i \in 1 .. Len(rest), NEW j \in 1 .. Len(out)
          PROVE  /\ ~ PrefixOf(rest[i].fragments, out[j].fragments)
                 /\ ~ PrefixOf(out[j].fragments, rest[i].fragments)
      <4> DEFINE r == rest[i].fragments
                 u == out[j].fragments
      <4>1. i \in 1 .. L /\ i # L /\ r = stack[i].fragments
        BY <1>2
      <4>2. ~ PrefixOf(r, frs) /\ ~ PrefixOf(frs, r) /\ r \in Seq(Fragments)
        BY <1>9, <1>10, <1>11, <2>1, <4>1
      <4>3. u \in Seq(Fragments) /\ PrefixOf(frs, u) /\ Len(u) = Len(frs) + 1
        BY <1>3, <1>8
      <4> HIDE DEF r, u
      <4>4. ~ PrefixOf(r, u) /\ ~ PrefixOf(u, r)
        BY <1>3, <4>2, <4>3, BranchesApart
      <4> QED BY <4>4 DEF r, u
    <3> QED BY <3>1 DEF LeadsElsewhere
  <2> QED BY <1>2, <1>7, <1>8, <1>12, <2>2, <2>3, StackJoined
<1>13. ASSUME Grouped, NEW i \in 1 .. Len(stack'), NEW j \in 1 .. Len(results),
              results[j].index = ReportedIndex
       PROVE  ~ PrefixOf(stack'[i].fragments, results[j].chain)
  <2>1. \A k \in 1 .. L : ~ PrefixOf(stack[k].fragments, results[j].chain)
    BY <1>1, <1>13 DEF OnceInv, L
  <2>2. \/ i \in 1 .. Len(rest) /\ stack'[i] = rest[i]
        \/ \E k \in 1 .. Len(out) : stack'[i] = out[k]
    BY <1>2, <1>7, <1>13, Joined
  <2>3. CASE i \in 1 .. Len(rest) /\ stack'[i] = rest[i]
    BY <1>2, <2>1, <2>3
  <2>4. CASE \E k \in 1 .. Len(out) : stack'[i] = out[k]
    <3>1. PICK k \in 1 .. Len(out) : stack'[i] = out[k]
      BY <2>4
    <3> DEFINE u == out[k].fragments
               w == results[j].chain
    <3>2. u \in Seq(Fragments) /\ PrefixOf(frs, u)
      BY <1>8
    <3>3. w \in Seq(Fragments)
      <4>1. results[j] \in Entries
        BY <1>1 DEF TypeInv
      <4>2. \A x \in Entries : x.chain \in Seq(Fragments)
        BY DEF Entries
      <4> QED BY <4>1, <4>2
    <3>4. ~ PrefixOf(frs, w)
      BY <1>10, <1>11, <2>1
    <3> HIDE DEF u, w
    <3>5. ~ PrefixOf(u, w)
      BY <1>3, <3>2, <3>3, <3>4, PrefixFacts
    <3> QED BY <3>1, <3>5 DEF u, w
  <2> QED BY <2>2, <2>3, <2>4
<1>14. OnceInv'
  <2>1. ReportedIndex' = ReportedIndex /\ results' = results
    BY <1>1 DEF ReportedIndex
  <2>2. Grouped => \A i \in 1 .. Len(stack'), j \in 1 .. Len(results) :
          results[j].index = ReportedIndex =>
            ~ PrefixOf(stack'[i].fragments, results[j].chain)
    BY <1>13
  <2> QED BY <1>1, <1>12, <2>1, <2>2 DEF OnceInv
<1> QED BY <1>6, <1>14 DEF IInv

\* Recording a chain keeps the invariant: the entry on top was the only one to lead to
\* it, and it is accepted because the entry carries the validator's hash.
LEMMA RecordKeeps ==
  ASSUME IInv, RecordChain
  PROVE  IInv'
<1> DEFINE plot == group[plotIndex]
           c == challenge
           e == Last(stack)
           u == e.fragments
           rest == Front(stack)
           L == Len(stack)
           R == Len(results)
           new == [index |-> ReportedIndex, chain |-> u]
<1>1. /\ TypeInv /\ OnceInv /\ FoundInv /\ CompleteInv /\ Seeded /\ stack # <<>>
      /\ Searching /\ seeding = NumSets /\ e.iteration = Links
      /\ UNCHANGED <<challenge, group, base, plotIndex, seeding>>
      /\ stack' = rest /\ results' = Append(results, new)
  BY DEF IInv, RecordChain, Seeded
<1>2. /\ e = stack[L] /\ L \in Nat \ {0}
      /\ rest \in Seq(StackEntries) /\ Len(rest) = L - 1
      /\ \A i \in 1 .. L - 1 : i \in 1 .. L /\ i # L /\ rest[i] = stack[i]
      /\ \A i \in 1 .. L : i \in 1 .. L - 1 \/ i = L
      /\ GoodEntry(e, Keys, c, plot)
      /\ StackGood(rest, Keys, c, plot, NumSets)
  BY <1>1, TopMeans
<1>3. /\ plotIndex \in 1 .. Len(group) /\ Len(group) \in Nat
      /\ Keys \in KeySets /\ Keys = RoundKeys[base + plotIndex - 1][challenge]
      /\ ReportedIndex \in DOMAIN RoundKeys
  BY <1>1, SearchingMeans
<1>4. /\ u \in Seq(Fragments) /\ Len(u) = Links /\ e.start \in Sets
      /\ FromPlot(u, plot) /\ Sound(u, e.hash, e.start, Keys, c)
  BY <1>1, <1>2 DEF GoodEntry, Node
<1> HIDE DEF rest, L, R
<1>5. u \in Chains /\ PrefixOf(u, u) /\ \A w \in Chains : PrefixOf(u, w) => u = w
  <2>1. u \in Seq(Fragments) /\ Len(u) = Links
    BY <1>4
  <2>2. \E w : w \in Chains
    <3>1. u \in Chains
      BY <1>4 DEF Chains
    <3> QED BY <3>1
  <2> HIDE DEF u
  <2> QED BY <2>1, <2>2, WholeChain
<1>6. Accepted(u, Keys, c, e.start)
  BY <1>4, <1>5 DEF Sound, Accepted, Positions
<1>7. new \in Entries /\ new.index = base + plotIndex - 1 /\ new.chain = u
  BY <1>3, <1>4 DEF Entries, ReportedIndex
<1> HIDE DEF new
<1>8. /\ results' \in Seq(Entries) /\ R \in Nat /\ Len(results') = R + 1
      /\ \A j \in 1 .. R : results'[j] = results[j]
      /\ results'[R + 1] = new
  <2>1. results \in Seq(Entries)
    BY <1>1 DEF TypeInv
  <2> QED BY <1>1, <1>7, <2>1, AppendProperties DEF R
<1>9. \A j \in 1 .. R + 1 : j \in 1 .. R \/ j = R + 1
  BY <1>8
<1>10. \A j \in 1 .. R : j \in 1 .. R + 1
  BY <1>8
<1>11. Searching' /\ Keys' = Keys /\ Refused' = Refused /\ ReportedIndex' = ReportedIndex
  BY <1>1 DEF Searching, Refused, Keys, ReportedIndex
<1>12. TypeInv'
  BY <1>1, <1>2, <1>8 DEF TypeInv
<1>13. IdleInv' /\ StackInv'
  BY <1>1, <1>2, <1>11 DEF IdleInv, StackInv
<1>14. FoundInv'
  <2>1. ResultGood(new, plotIndex, group, base, c)
    BY <1>3, <1>4, <1>5, <1>6, <1>7 DEF ResultGood
  <2>2. \A j \in 1 .. R : \E p \in 1 .. Len(group) :
          /\ ResultGood(results[j], p, group, base, c)
          /\ p < plotIndex \/ (p = plotIndex /\ seeding = NumSets)
    BY <1>1 DEF FoundInv, R
  <2> HIDE DEF c
  <2>3. ASSUME NEW j \in 1 .. R + 1
        PROVE  \E p \in 1 .. Len(group) :
                 /\ ResultGood(results'[j], p, group, base, c)
                 /\ p < plotIndex \/ (p = plotIndex /\ seeding = NumSets)
    <3>1. CASE j \in 1 .. R
      BY <1>8, <2>2, <3>1
    <3>2. CASE j = R + 1
      BY <1>1, <1>3, <1>8, <2>1, <3>2
    <3> QED BY <1>9, <3>1, <3>2
  <2> QED BY <1>1, <1>8, <2>3 DEF FoundInv, c
<1>15. CompleteInv'
  <2>1. ASSUME NEW index, NEW w, Recorded(results, index, w)
        PROVE  Recorded(results', index, w)
    BY <1>8, <1>10, <2>1 DEF Recorded, R
  <2>2. Recorded(results', base + plotIndex - 1, u)
    <3>1. new = [index |-> base + plotIndex - 1, chain |-> u]
      BY DEF new, ReportedIndex
    <3>2. R + 1 \in 1 .. R + 1
      BY <1>8
    <3> QED BY <1>8, <3>1, <3>2 DEF Recorded
  <2> HIDE DEF u, e
  <2>3. ASSUME NEW w \in Chains, NEW t \in Sets, Waits(stack, w, t), ~ Waits(rest, w, t)
        PROVE  u = w
    <3>1. PICK j \in 1 .. L : stack[j].start = t /\ PrefixOf(stack[j].fragments, w)
      BY <2>3 DEF Waits, L
    <3>2. j \notin 1 .. L - 1
      BY <1>2, <2>3, <3>1 DEF Waits
    <3>3. stack[j].fragments = u
      BY <1>2, <3>2 DEF u
    <3> QED BY <1>5, <3>1, <3>3
  <2>4. ASSUME Grouped, ~Refused, NEW p \in 1 .. Len(group), NEW w \in Chains, NEW t \in Sets,
               Findable(w, t, p, group, base, challenge)
        PROVE  /\ p < plotIndex => Recorded(results', base + p - 1, w)
               /\ p = plotIndex => \/ Recorded(results', base + p - 1, w)
                                   \/ seeding <= t
                                   \/ Waits(rest, w, t)
    <3>1. /\ p < plotIndex => Recorded(results, base + p - 1, w)
          /\ p = plotIndex => \/ Recorded(results, base + p - 1, w)
                              \/ seeding <= t
                              \/ Waits(stack, w, t)
      BY <1>1, <2>4 DEF CompleteInv
    <3> QED BY <2>1, <2>2, <2>3, <3>1
  <2>5. stack' = rest
    BY <1>1
  <2> QED BY <1>1, <1>11, <2>4, <2>5, Zenon DEF CompleteInv
<1>16. ASSUME Grouped
       PROVE  /\ \A i, j \in 1 .. Len(results') : i # j => results'[i] # results'[j]
              /\ StackApart(rest)
              /\ \A i \in 1 .. Len(rest), j \in 1 .. Len(results') :
                   results'[j].index = ReportedIndex =>
                     ~ PrefixOf(rest[i].fragments, results'[j].chain)
  <2>1. /\ \A i, j \in 1 .. R : i # j => results[i] # results[j]
        /\ \A i, j \in 1 .. L : i # j => ~ PrefixOf(stack[i].fragments, stack[j].fragments)
        /\ \A i \in 1 .. L, j \in 1 .. R :
             results[j].index = ReportedIndex => ~ PrefixOf(stack[i].fragments, results[j].chain)
    BY <1>1, <1>16 DEF OnceInv, StackApart, L, R
  <2>2. L \in 1 .. L /\ stack[L].fragments = u
    BY <1>2
  <2>3. new.index = ReportedIndex /\ new.chain = u
    BY DEF new
  <2> HIDE DEF u, e
  <2>4. \A j \in 1 .. R : results[j] # new
    BY <1>5, <2>1, <2>2, <2>3
  <2>5. \A i, j \in 1 .. R + 1 : i # j => results'[i] # results'[j]
    BY <1>8, <1>9, <2>1, <2>4
  <2>6. StackApart(rest)
    BY <1>2, <2>1 DEF StackApart
  <2>7. ASSUME NEW i \in 1 .. L - 1, NEW j \in 1 .. R + 1, results'[j].index = ReportedIndex
        PROVE  ~ PrefixOf(rest[i].fragments, results'[j].chain)
    <3>1. i \in 1 .. L /\ i # L /\ rest[i] = stack[i]
      BY <1>2
    <3>2. CASE j \in 1 .. R
      BY <1>8, <2>1, <2>7, <3>1, <3>2
    <3>3. CASE j = R + 1
      BY <1>8, <2>1, <2>2, <2>3, <3>1, <3>3
    <3> QED BY <1>9, <3>2, <3>3
  <2> QED BY <1>2, <1>8, <2>5, <2>6, <2>7
<1>17. OnceInv'
  <2>1. stack' = rest
    BY <1>1
  <2> QED BY <1>11, <1>16, <2>1 DEF OnceInv
<1> QED BY <1>12, <1>13, <1>14, <1>15, <1>17 DEF IInv

\* Turning to the next plot keeps the invariant: nothing waits any more.
LEMMA NextPlotKeeps ==
  ASSUME IInv, NextPlot
  PROVE  IInv'
<1>1. /\ TypeInv /\ OnceInv /\ FoundInv /\ CompleteInv /\ Searching
      /\ seeding = NumSets /\ stack = <<>> /\ plotIndex' = plotIndex + 1 /\ seeding' = 0
      /\ UNCHANGED <<challenge, group, base, stack, results>>
  BY DEF IInv, NextPlot, Seeded
<1>2. plotIndex \in 1 .. Len(group) /\ Len(group) \in Nat
  BY <1>1, SearchingMeans
<1>3. NumSets \in Nat \ {0} /\ Len(<<>>) = 0
  BY ChainerAssumption
<1>4. TypeInv'
  BY <1>1, <1>2, <1>3 DEF TypeInv
<1>5. IdleInv' /\ StackInv'
  BY <1>1, <1>3 DEF IdleInv, StackInv, StackGood
<1>6. FoundInv'
  <2>1. \A p \in 1 .. Len(group) :
          p < plotIndex \/ (p = plotIndex /\ seeding = NumSets) => p < plotIndex + 1
    BY <1>2
  <2>2. \A j \in 1 .. Len(results) : \E p \in 1 .. Len(group) :
          /\ ResultGood(results[j], p, group, base, challenge)
          /\ p < plotIndex + 1
    BY <1>1, <2>1 DEF FoundInv
  <2>3. /\ challenge' = challenge /\ group' = group /\ base' = base /\ results' = results
        /\ plotIndex' = plotIndex + 1
    BY <1>1
  <2> QED BY <2>2, <2>3 DEF FoundInv
<1>7. CompleteInv'
  <2>1. ASSUME Grouped, ~Refused, NEW p \in 1 .. Len(group), NEW w \in Chains, NEW t \in Sets,
               Findable(w, t, p, group, base, challenge)
        PROVE  /\ p < plotIndex + 1 => Recorded(results, base + p - 1, w)
               /\ 0 <= t
    <3>1. /\ p < plotIndex => Recorded(results, base + p - 1, w)
          /\ p = plotIndex => \/ Recorded(results, base + p - 1, w)
                              \/ seeding <= t
                              \/ Waits(stack, w, t)
      BY <1>1, <2>1 DEF CompleteInv
    <3>2. ~ seeding <= t /\ 0 <= t
      BY <1>1, <1>3 DEF Sets
    <3>3. ~ Waits(stack, w, t)
      BY <1>1, <1>3 DEF Waits
    <3>4. p < plotIndex + 1 => p < plotIndex \/ p = plotIndex
      BY <1>2
    <3> QED BY <3>1, <3>2, <3>3, <3>4
  <2>2. Refused' = Refused
    BY <1>1 DEF Refused
  <2>3. /\ challenge' = challenge /\ group' = group /\ base' = base /\ results' = results
        /\ plotIndex' = plotIndex + 1 /\ seeding' = 0
    BY <1>1
  <2> QED BY <2>1, <2>2, <2>3 DEF CompleteInv
<1>8. OnceInv'
  BY <1>1, <1>3 DEF OnceInv, StackApart
<1> QED BY <1>4, <1>5, <1>6, <1>7, <1>8 DEF IInv

\* Every step of the search keeps the invariant.
LEMMA StepKeeps ==
  ASSUME IInv, Step \/ UNCHANGED vars
  PROVE  IInv'
<1>1. CASE UNCHANGED vars
  BY <1>1 DEF vars, IInv, TypeInv, IdleInv, StackInv, FoundInv, CompleteInv, OnceInv,
              Searching, Refused, Keys, ReportedIndex
<1> QED BY <1>1, SeedKeeps, RecordKeeps, ExtendKeeps, NextPlotKeeps DEF Step

\* A search begun anew satisfies the invariant.
LEMMA BegunAnew ==
  ASSUME challenge' \in Challenges, group' \in Groups, base' \in Bases,
         plotIndex' = 1, seeding' = 0, stack' = <<>>, results' = <<>>
  PROVE  IInv'
<1>1. Len(group') \in Nat /\ NumSets \in Nat /\ Len(<<>>) = 0
  BY GroupAssumption, ChainerAssumption
<1>2. TypeInv'
  BY <1>1 DEF TypeInv
<1>3. IdleInv' /\ StackInv' /\ FoundInv' /\ OnceInv'
  BY <1>1 DEF IdleInv, StackInv, StackGood, FoundInv, OnceInv, StackApart
<1>4. \A s \in Sets : seeding' <= s
  BY <1>1 DEF Sets
<1>5. CompleteInv'
  BY <1>1, <1>4 DEF CompleteInv
<1> QED BY <1>2, <1>3, <1>5 DEF IInv

-----------------------------------------------------------------------------
(* What the invariant says of the search.                                  *)

\* The round keys of a recorded chain.
LEMMA ResultKeys ==
  ASSUME TypeInv, NEW j \in 1 .. Len(results)
  PROVE  RoundKeys[results[j].index][challenge] \in KeySets
<1>1. results[j] \in Entries
  BY DEF TypeInv
<1>2. results[j].index \in DOMAIN RoundKeys
  BY <1>1 DEF Entries
<1> QED BY <1>2, GroupAssumption DEF TypeInv, KeySets, Word

\* Type correctness of the search follows.
LEMMA TypesFollow ==
  ASSUME IInv
  PROVE  TypeOK
<1>1. TypeInv /\ IdleInv /\ StackInv
  BY DEF IInv
<1>2. stack \in Seq(StackEntries) /\ results \in Seq(Entries)
  BY <1>1 DEF TypeInv
<1>3. \A j \in DOMAIN stack : stack[j] \in StackEntries
  BY <1>2
<1>4. ASSUME NEW j \in DOMAIN stack PROVE Len(stack[j].fragments) = stack[j].iteration
  <2>1. Searching
    <3>1. stack # <<>>
      BY <1>4
    <3> QED BY <1>1, <3>1 DEF IdleInv
  <2>2. j \in 1 .. Len(stack)
    BY <1>2, <1>4
  <2> QED BY <1>1, <2>1, <2>2 DEF StackInv, StackGood, GoodEntry
<1>5. ASSUME NEW j \in DOMAIN results
      PROVE  results[j].index \in DOMAIN RoundKeys /\ results[j].chain \in Seq(Fragments)
  <2>1. results[j] \in Entries
    BY <1>2
  <2> QED BY <2>1 DEF Entries
<1> QED BY <1>1, <1>3, <1>4, <1>5 DEF TypeOK, TypeInv

\* The validator accepts what is recorded.
LEMMA FoundFollows ==
  ASSUME IInv
  PROVE  FoundValidates
<1>1. TypeInv /\ FoundInv
  BY DEF IInv
<1>2. ASSUME NEW j \in DOMAIN results
      PROVE  Validates(results[j].chain, RoundKeys[results[j].index][challenge])
  <2>1. j \in 1 .. Len(results) /\ challenge \in Challenges
    BY <1>1 DEF TypeInv
  <2>2. PICK p \in 1 .. Len(group) : ResultGood(results[j], p, group, base, challenge)
    BY <1>1, <2>1 DEF FoundInv
  <2> DEFINE w == results[j].chain
             keys == RoundKeys[results[j].index][challenge]
  <2>3. w \in Chains /\ \E s \in Sets : Accepted(w, keys, challenge, s)
    BY <2>2 DEF ResultGood
  <2>4. keys \in KeySets
    BY <1>1, <2>1, ResultKeys
  <2> HIDE DEF w, keys
  <2>5. Validates(w, keys)
    BY <2>1, <2>3, <2>4, ValidatesMeans
  <2> QED BY <2>5 DEF w, keys
<1> QED BY <1>2 DEF FoundValidates

\* When the search is over every chain is recorded.
LEMMA CompleteFollows ==
  ASSUME IInv, Grouped
  PROVE  EveryChainFound
<1>1. TypeInv /\ CompleteInv
  BY DEF IInv
<1>2. SUFFICES ASSUME ~Searching, ~Refused, NEW p \in DOMAIN group, NEW w \in ChainsOf(p)
               PROVE  \E j \in DOMAIN results :
                        results[j] = [index |-> base + p - 1, chain |-> w]
  BY DEF EveryChainFound
<1>3. /\ challenge \in Challenges /\ group \in Seq(Seq(Fragments)) /\ group \in Groups
      /\ base \in Bases /\ plotIndex \in 1 .. (Len(group) + 1) /\ results \in Seq(Entries)
  BY <1>1, GroupAssumption DEF TypeInv
<1>4. p \in 1 .. Len(group) /\ Len(group) \in Nat /\ p < plotIndex
  BY <1>2, <1>3 DEF Searching
<1> DEFINE keys == RoundKeys[base + p - 1][challenge]
<1>5. keys \in KeySets
  <2>1. base = 0 \/ Len(group) <= 1
    BY <1>2, <1>4 DEF Refused
  <2>2. base + p - 1 \in DOMAIN RoundKeys
    BY <1>3, <1>4, <2>1, GroupAssumption
  <2> QED BY <1>3, <2>2, GroupAssumption DEF KeySets, Word
<1>6. w \in [1 .. Links -> Eligible(p)] /\ Validates(w, keys)
  BY DEF ChainsOf
<1>7. w \in Chains /\ FromPlot(w, group[p])
  <2>1. \A i \in 1 .. Links : w[i] \in Fragments /\ InPlot(w[i], group[p])
    <3>1. \A f \in Eligible(p) : f \in Fragments /\ InPlot(f, group[p])
      <4>1. group[p] \in Seq(Fragments)
        BY <1>3, <1>4
      <4>2. DOMAIN group[p] = 1 .. Len(group[p])
        BY <4>1
      <4> QED BY <4>2 DEF Eligible, InPlot
    <3> QED BY <1>6, <3>1
  <2>2. w \in Chains
    BY <1>6, <2>1 DEF Chains
  <2>3. Len(w) = Links
    BY <2>2, ChainerAssumption DEF Chains
  <2> QED BY <2>1, <2>2, <2>3 DEF FromPlot
<1> HIDE DEF keys
<1>8. PICK s \in Sets : Accepted(w, keys, challenge, s)
  BY <1>3, <1>5, <1>6, <1>7, ValidatesMeans
<1>9. Findable(w, s, p, group, base, challenge)
  BY <1>7, <1>8 DEF Findable, keys
<1>10. Recorded(results, base + p - 1, w)
  BY <1>1, <1>2, <1>4, <1>7, <1>9 DEF CompleteInv
<1> QED BY <1>3, <1>10 DEF Recorded

\* Nothing is recorded twice, or can be.
LEMMA OnceFollows ==
  ASSUME IInv, Grouped
  PROVE  NoChainTwice
<1>1. OnceInv /\ stack \in Seq(StackEntries) /\ results \in Seq(Entries)
  BY DEF IInv, TypeInv
<1>2. DOMAIN stack = 1 .. Len(stack) /\ DOMAIN results = 1 .. Len(results)
  BY <1>1
<1>3. \A i \in 1 .. Len(stack) : stack[i].fragments \in Seq(Fragments)
  <2>1. \A i \in 1 .. Len(stack) : stack[i] \in StackEntries
    BY <1>1
  <2>2. \A e \in StackEntries : e.fragments \in Seq(Fragments)
    BY DEF StackEntries
  <2> QED BY <2>1, <2>2
<1>4. \A j \in 1 .. Len(results) : results[j].chain \in Seq(Fragments)
  <2>1. \A i \in 1 .. Len(results) : results[i] \in Entries
    BY <1>1
  <2>2. \A e \in Entries : e.chain \in Seq(Fragments)
    BY DEF Entries
  <2> QED BY <2>1, <2>2
<1>5. \A i, j \in 1 .. Len(stack) : i # j => ~ IsPrefix(stack[i].fragments, stack[j].fragments)
  BY <1>1, <1>3, PrefixMeans DEF OnceInv, StackApart
<1>6. \A i \in 1 .. Len(stack), j \in 1 .. Len(results) :
        results[j].index = ReportedIndex => ~ IsPrefix(stack[i].fragments, results[j].chain)
  BY <1>1, <1>3, <1>4, PrefixMeans DEF OnceInv
<1>7. \A i, j \in 1 .. Len(results) : i # j => results[i] # results[j]
  BY <1>1 DEF OnceInv
<1> QED BY <1>2, <1>5, <1>6, <1>7 DEF NoChainTwice

\* The search alone, of one plot file or of a group, keeps the invariant.
LEMMA SearchInvariance == Spec => []IInv
<1>1. Init => IInv
  BY FreshInv DEF Init
<1>2. IInv /\ [Next]_vars => IInv'
  <2> SUFFICES ASSUME IInv, [Next]_vars PROVE IInv'
    OBVIOUS
  <2> QED BY StepKeeps DEF Next, Returned
<1> QED BY <1>1, <1>2, PTL DEF Spec

\* The validator accepts every chain that Prover or GroupProver finds, under the index
\* it is returned with (find_links and Chainer::validate).
THEOREM ProversSound == Spec => []FoundValidates
<1>1. IInv => FoundValidates
  BY FoundFollows
<1> QED BY <1>1, SearchInvariance, PTL

-----------------------------------------------------------------------------
(* The question of the harvester.                                          *)

\* The chains of the group, as they are returned.
AllResults(g, b, c) ==
  {r \in Entries : \E p \in 1 .. Len(g) : ResultGood(r, p, g, b, c)}

\* A finished search has recorded as many chains as there are.
LEMMA ResultsCounted ==
  ASSUME IInv, Grouped, ~Searching, ~Refused
  PROVE  Cardinality(AllResults(group, base, challenge)) = Len(results)
<1> DEFINE All == AllResults(group, base, challenge)
           R == Len(results)
<1>1. TypeInv /\ FoundInv /\ CompleteInv /\ OnceInv
  BY DEF IInv
<1>2. results \in Seq(Entries) /\ R \in Nat
  BY <1>1 DEF TypeInv
<1>3. plotIndex \in 1 .. (Len(group) + 1) /\ ~ plotIndex <= Len(group) /\ Len(group) \in Nat
  BY <1>1, GroupAssumption DEF TypeInv, Searching
<1>4. \A j \in 1 .. R : results[j] \in All
  <2>1. ASSUME NEW j \in 1 .. R PROVE results[j] \in All
    <3>1. PICK p \in 1 .. Len(group) : ResultGood(results[j], p, group, base, challenge)
      BY <1>1 DEF FoundInv
    <3>2. results[j] \in Entries
      BY <1>2
    <3> QED BY <3>1, <3>2 DEF AllResults
  <2> QED BY <2>1
<1>5. ASSUME NEW r \in All
      PROVE  \E j \in 1 .. R : results[j] = r
  <2>1. r \in Entries /\ \E p \in 1 .. Len(group) : ResultGood(r, p, group, base, challenge)
    BY DEF AllResults
  <2>2. PICK p \in 1 .. Len(group) : ResultGood(r, p, group, base, challenge)
    BY <2>1
  <2>3. PICK s \in Sets : Findable(r.chain, s, p, group, base, challenge)
    BY <2>2 DEF ResultGood, Findable
  <2>4. r.chain \in Chains /\ r.index = base + p - 1
    BY <2>2 DEF ResultGood
  <2>5. p < plotIndex
    BY <1>3
  <2>6. Recorded(results, base + p - 1, r.chain)
    BY <1>1, <2>3, <2>4, <2>5 DEF CompleteInv
  <2>7. r = [index |-> base + p - 1, chain |-> r.chain]
    BY <2>1, <2>4 DEF Entries
  <2> QED BY <2>6, <2>7 DEF Recorded
<1>6. \A i, j \in 1 .. R : i # j => results[i] # results[j]
  BY <1>1 DEF OnceInv
<1>7. results \in [1 .. R -> All]
  <2>1. results = [j \in 1 .. R |-> results[j]]
    BY <1>2
  <2> HIDE DEF All, R
  <2> QED BY <1>4, <2>1
<1> HIDE DEF All, R
<1>8. ExistsBijection(1 .. R, All)
  <2>1. results \in Bijection(1 .. R, All)
    BY <1>5, <1>6, <1>7 DEF Bijection, Injection, Surjection, IsInjective
  <2> QED BY <2>1 DEF ExistsBijection
<1> QED BY <1>2, <1>8, FS_CountingElements DEF All, R

\* The call: what is lent and returned.
CallInv ==
  /\ pass \in 1 .. 2 /\ capacity \in Nat \ {0} /\ reported \in Nat /\ replaced \in BOOLEAN
  /\ outcome \in {"asking", "called", "ok", "error"}
  /\ DOMAIN buffer = 1 .. capacity

\* Before the answer it is empty; then it is what was found, as far as there was room.
AnswerInv ==
  /\ outcome # "ok" => answer = <<>>
  /\ outcome \in {"called", "ok"} => ~Searching /\ ~Refused /\ reported = Len(results)
  /\ outcome = "called" =>
       \A i \in 1 .. capacity : i <= Len(results) => buffer[i] = results[i]
  /\ outcome = "ok" =>
       /\ reported <= capacity \/ pass = 2
       /\ answer = [i \in 1 .. LeastOf(reported, capacity) |-> results[i]]

\* On the second pass over the same file there is room for all its chains.
RoomInv ==
  Grouped /\ pass = 2 /\ ~replaced =>
    Cardinality(AllResults(group, base, challenge)) <= capacity

AskInv == IInv /\ CallInv /\ AnswerInv /\ RoomInv

\* The first question is well put.
LEMMA AskInitInv == AskInit => AskInv
<1> SUFFICES ASSUME AskInit PROVE AskInv
  OBVIOUS
<1>1. IInv
  BY FreshInv DEF AskInit, Init
<1>2. capacity \in Nat \ {0}
  <2>1. Len(group) \in Nat
    BY <1>1, GroupAssumption DEF IInv, TypeInv
  <2>2. MinRoom \in Nat \ {0} /\ RoomPerPlot \in Nat \ {0}
    BY QualitiesAssumption
  <2> DEFINE m == RoomPerPlot * Len(group)
  <2>3. m \in Nat
    BY <2>1, <2>2
  <2>4. capacity = MostOf(MinRoom, m)
    BY DEF AskInit
  <2> HIDE DEF m
  <2> QED BY <2>2, <2>3, <2>4 DEF MostOf
<1>3. CallInv
  <2>1. /\ pass = 1 /\ buffer = [i \in 1 .. capacity |-> Garbage] /\ reported = capacity
        /\ replaced = FALSE /\ outcome = "asking"
    BY DEF AskInit, Blanks
  <2>2. DOMAIN buffer = 1 .. capacity
    BY <2>1
  <2>3. pass \in 1 .. 2 /\ reported \in Nat
    BY <1>2, <2>1
  <2>4. outcome \in {"asking", "called", "ok", "error"} /\ replaced \in BOOLEAN
    BY <2>1
  <2> QED BY <1>2, <2>2, <2>3, <2>4 DEF CallInv
<1>4. AnswerInv /\ RoomInv
  BY DEF AskInit, AnswerInv, RoomInv
<1> QED BY <1>1, <1>3, <1>4 DEF AskInv

\* While the search runs the question stands.
LEMMA SearchKeeps ==
  ASSUME AskInv, Search
  PROVE  AskInv'
<1>1. /\ IInv /\ CallInv /\ AnswerInv /\ RoomInv /\ outcome = "asking" /\ Step
      /\ UNCHANGED callVars
  BY DEF AskInv, Search
<1>2. IInv'
  BY <1>1, StepKeeps
<1>3. UNCHANGED <<challenge, group, base>>
  BY <1>1 DEF Step, SeedSet, RecordChain, ExtendChain, NextPlot
<1>4. CallInv' /\ AnswerInv'
  BY <1>1 DEF callVars, CallInv, AnswerInv
<1>5. RoomInv'
  BY <1>1, <1>3 DEF callVars, RoomInv
<1> QED BY <1>2, <1>4, <1>5 DEF AskInv

\* The C side writes what there is room for and reports how many there are.
LEMMA CallReturnsKeeps ==
  ASSUME AskInv, CallReturns
  PROVE  AskInv'
<1>1. /\ IInv /\ CallInv /\ AnswerInv /\ RoomInv /\ outcome = "asking" /\ ~Searching
      /\ UNCHANGED vars /\ UNCHANGED <<pass, capacity, replaced, answer>>
  BY DEF AskInv, CallReturns
<1>2. IInv'
  BY <1>1, StepKeeps
<1>3. UNCHANGED <<challenge, group, base, plotIndex, results>>
  BY <1>1 DEF vars
<1>4. RoomInv'
  BY <1>1, <1>3 DEF RoomInv
<1>5. Len(results) \in Nat
  BY <1>1 DEF IInv, TypeInv
<1>6. CASE Refused
  <2>1. outcome' = "error" /\ UNCHANGED <<buffer, reported>>
    BY <1>6 DEF CallReturns
  <2>2. CallInv' /\ AnswerInv'
    BY <1>1, <2>1 DEF CallInv, AnswerInv
  <2> QED BY <1>2, <1>4, <2>2 DEF AskInv
<1>7. CASE ~Refused
  <2>1. /\ buffer' = [i \in 1 .. capacity |-> IF i <= Len(results) THEN results[i] ELSE buffer[i]]
        /\ reported' = Len(results) /\ outcome' = "called"
    BY <1>7 DEF CallReturns
  <2>2. ~Searching' /\ ~Refused'
    BY <1>1, <1>3, <1>7 DEF Searching, Refused
  <2>3. CallInv'
    BY <1>1, <1>5, <2>1 DEF CallInv
  <2>4. AnswerInv'
    BY <1>1, <1>3, <2>1, <2>2 DEF AnswerInv
  <2> QED BY <1>2, <1>4, <2>3, <2>4 DEF AskInv
<1> QED BY <1>6, <1>7

\* The vector is given the length of what was written.
LEMMA AcceptKeeps ==
  ASSUME AskInv, Accept
  PROVE  AskInv'
<1>1. /\ IInv /\ CallInv /\ AnswerInv /\ RoomInv /\ outcome = "called" /\ outcome' = "ok"
      /\ reported <= capacity \/ pass = 2
      /\ answer' = [i \in 1 .. Exposed |-> IF i <= capacity THEN buffer[i] ELSE Garbage]
      /\ UNCHANGED vars /\ UNCHANGED <<pass, capacity, buffer, reported, replaced>>
  BY DEF AskInv, Accept
<1>2. IInv'
  BY <1>1, StepKeeps
<1>3. UNCHANGED <<challenge, group, base, plotIndex, results>>
  BY <1>1 DEF vars
<1>4. RoomInv' /\ CallInv'
  BY <1>1, <1>3 DEF RoomInv, CallInv
<1>5. ~Searching' /\ ~Refused' /\ reported = Len(results)
  BY <1>1, <1>3 DEF AnswerInv, Searching, Refused
<1> DEFINE n == LeastOf(reported, capacity)
<1>6. Exposed = n /\ n \in Nat /\ n <= reported /\ n <= capacity
  BY <1>1 DEF Exposed, LeastOf, CallInv
<1> HIDE DEF n
<1>7. ASSUME NEW i \in 1 .. n
      PROVE  (IF i <= capacity THEN buffer[i] ELSE Garbage) = results[i]
  <2>1. i \in 1 .. capacity /\ i <= capacity /\ i <= Len(results)
    BY <1>1, <1>5, <1>6 DEF CallInv
  <2>2. buffer[i] = results[i]
    BY <1>1, <2>1 DEF AnswerInv
  <2> QED BY <2>1, <2>2
<1>8. answer' = [i \in 1 .. n |-> results[i]]
  BY <1>1, <1>6, <1>7
<1>9. answer' = [i \in 1 .. LeastOf(reported', capacity') |-> results'[i]]
  BY <1>1, <1>3, <1>8 DEF n
<1>10. AnswerInv'
  BY <1>1, <1>3, <1>5, <1>9 DEF AnswerInv
<1> QED BY <1>2, <1>4, <1>10 DEF AskInv

\* The second question is put with room for all chains of the file it is put to, if
\* that is the file of the first.
LEMMA RetryKeeps ==
  ASSUME AskInv, Retry
  PROVE  AskInv'
<1>1. /\ IInv /\ CallInv /\ AnswerInv /\ RoomInv /\ outcome = "called"
      /\ reported > capacity /\ capacity' \in Growths(reported)
      /\ reported' = capacity' /\ buffer' = Blanks(capacity') /\ pass' = 2 /\ answer' = answer
  BY DEF AskInv, Retry
<1>2. ~Searching /\ ~Refused /\ reported = Len(results) /\ answer = <<>>
  BY <1>1 DEF AnswerInv
<1>3. capacity' \in Nat \ {0} /\ reported <= capacity'
  <2>1. capacity \in Nat \ {0} /\ reported \in Nat
    BY <1>1 DEF CallInv
  <2> QED BY <1>1, <2>1 DEF Growths, MostOf
<1>4. challenge \in Challenges /\ base \in Bases /\ group \in Groups
  BY <1>1 DEF IInv, TypeInv
<1>5. CASE Again(group) /\ outcome' = "asking" /\ UNCHANGED replaced
  <2>1. UNCHANGED <<challenge, base, group>>
    BY <1>5 DEF Again
  <2>2. /\ plotIndex' = 1 /\ seeding' = 0 /\ stack' = <<>> /\ results' = <<>>
    BY <1>5 DEF Again
  <2>3. IInv'
    BY <1>4, <2>1, <2>2, BegunAnew
  <2>4. CallInv' /\ AnswerInv'
    BY <1>1, <1>2, <1>3, <1>5 DEF CallInv, AnswerInv, Blanks
  <2>5. RoomInv'
    <3>1. Grouped => Cardinality(AllResults(group, base, challenge)) = Len(results)
      BY <1>1, <1>2, ResultsCounted
    <3>2. Grouped => Cardinality(AllResults(group, base, challenge)) <= capacity'
      BY <1>2, <1>3, <3>1
    <3> QED BY <2>1, <3>2 DEF RoomInv
  <2> QED BY <2>3, <2>4, <2>5 DEF AskInv
<1>6. ASSUME NEW g \in Groups \ {group}, Again(g), outcome' = "asking", replaced' = TRUE
      PROVE  AskInv'
  <2>1. group' \in Groups /\ UNCHANGED <<challenge, base>>
    BY <1>6 DEF Again
  <2>2. /\ plotIndex' = 1 /\ seeding' = 0 /\ stack' = <<>> /\ results' = <<>>
    BY <1>6 DEF Again
  <2>3. IInv'
    BY <1>4, <2>1, <2>2, BegunAnew
  <2>4. CallInv' /\ AnswerInv' /\ RoomInv'
    BY <1>1, <1>2, <1>3, <1>6 DEF CallInv, AnswerInv, Blanks, RoomInv
  <2> QED BY <2>3, <2>4 DEF AskInv
<1>7. CASE outcome' = "error" /\ replaced' = TRUE /\ UNCHANGED vars
  <2>1. IInv'
    BY <1>1, <1>7, StepKeeps
  <2>2. CallInv' /\ AnswerInv' /\ RoomInv'
    BY <1>1, <1>2, <1>3, <1>7 DEF CallInv, AnswerInv, Blanks, RoomInv
  <2> QED BY <2>1, <2>2 DEF AskInv
<1> QED BY <1>5, <1>6, <1>7 DEF Retry

\* The invariant of the question.
LEMMA AskInvariance == Ask => []AskInv
<1>1. AskInv /\ [AskNext]_allVars => AskInv'
  <2> SUFFICES ASSUME AskInv, [AskNext]_allVars PROVE AskInv'
    OBVIOUS
  <2>1. CASE Search
    BY <2>1, SearchKeeps
  <2>2. CASE CallReturns
    BY <2>2, CallReturnsKeeps
  <2>3. CASE Accept
    BY <2>3, AcceptKeeps
  <2>4. CASE Retry
    BY <2>4, RetryKeeps
  <2>5. CASE UNCHANGED allVars
    <3>1. UNCHANGED vars /\ UNCHANGED callVars
      BY <2>5 DEF allVars
    <3>2. IInv'
      BY <3>1, StepKeeps DEF AskInv
    <3>3. UNCHANGED <<challenge, group, base, plotIndex, results>>
      BY <3>1 DEF vars
    <3>4. CallInv' /\ AnswerInv' /\ RoomInv'
      BY <3>1, <3>3 DEF callVars, AskInv, CallInv, AnswerInv, RoomInv, Searching, Refused
    <3> QED BY <3>2, <3>4 DEF AskInv
  <2> QED BY <2>1, <2>2, <2>3, <2>4, <2>5 DEF AskNext
<1> QED BY <1>1, AskInitInv, PTL DEF Ask

\* The elements of an answer are results, and no memory besides.
LEMMA AnswerElements ==
  ASSUME AskInv, outcome = "ok"
  PROVE  /\ Len(answer) = LeastOf(reported, capacity) /\ DOMAIN answer = 1 .. Len(answer)
         /\ Len(answer) <= Len(results) /\ Len(results) \in Nat
         /\ \A i \in DOMAIN answer :
              /\ i \in 1 .. Len(results) /\ answer[i] = results[i]
              /\ answer[i] \in Entries /\ answer[i] # Garbage
<1> DEFINE n == LeastOf(reported, capacity)
<1>1. /\ IInv /\ capacity \in Nat /\ reported \in Nat /\ reported = Len(results)
      /\ answer = [i \in 1 .. n |-> results[i]]
  BY DEF AskInv, CallInv, AnswerInv
<1>2. n \in Nat /\ n <= Len(results)
  BY <1>1 DEF LeastOf
<1> HIDE DEF n
<1>3. results \in Seq(Entries)
  BY <1>1 DEF IInv, TypeInv
<1>4. \A i \in 1 .. n : i \in 1 .. Len(results) /\ results[i] \in Entries
  BY <1>1, <1>2, <1>3
<1>5. answer \in Seq(Entries) /\ Len(answer) = n /\ DOMAIN answer = 1 .. n
  BY <1>1, <1>2, <1>4
<1>6. ASSUME NEW i \in DOMAIN answer
      PROVE  /\ i \in 1 .. Len(results) /\ answer[i] = results[i]
             /\ answer[i] \in Entries /\ answer[i] # Garbage
  <2>1. i \in 1 .. n
    BY <1>5
  <2>2. answer[i] = results[i]
    BY <1>1, <2>1
  <2> QED BY <1>4, <2>1, <2>2, QualitiesAssumption
<1> QED BY <1>1, <1>2, <1>5, <1>6 DEF n

\* The state of the search and of the call is what its types say
\* (qualities_for_challenge and get_qualities_for_challenge).
THEOREM CallTypeCorrect == Ask => []CallTypeOK
<1>1. ASSUME AskInv PROVE CallTypeOK
  <2>1. IInv /\ CallInv /\ AnswerInv
    BY <1>1 DEF AskInv
  <2>2. TypeOK
    BY <2>1, TypesFollow
  <2>3. ASSUME NEW i \in DOMAIN answer PROVE answer[i] \in Entries
    <3>1. CASE outcome = "ok"
      BY <1>1, <2>3, <3>1, AnswerElements
    <3>2. CASE outcome # "ok"
      BY <2>1, <2>3, <3>2 DEF AnswerInv
    <3> QED BY <3>1, <3>2
  <2> QED BY <2>1, <2>2, <2>3 DEF CallTypeOK, CallInv
<1>2. AskInv => CallTypeOK
  BY <1>1
<1> QED BY <1>2, AskInvariance, PTL

\* What the search of either pass records, the validator accepts under the index it is
\* returned with.
THEOREM ValidatorAgrees == Ask => []FoundValidates
<1>1. AskInv => FoundValidates
  BY FoundFollows DEF AskInv
<1> QED BY <1>1, AskInvariance, PTL

\* GroupProver finds every chain of the group's plots that the validator would accept.
THEOREM NoChainMissed ==
  ASSUME Grouped
  PROVE  Ask => []EveryChainFound
<1>1. AskInv => EveryChainFound
  BY CompleteFollows DEF AskInv
<1> QED BY <1>1, AskInvariance, PTL

\* GroupProver finds no chain twice, and never has two ways to one open.
THEOREM NoChainRepeated ==
  ASSUME Grouped
  PROVE  Ask => []NoChainTwice
<1>1. AskInv => NoChainTwice
  BY OnceFollows DEF AskInv
<1> QED BY <1>1, AskInvariance, PTL

\* The caller's vector shows only chains of the file, each once, and all of them unless
\* the file was replaced between the passes (lib.rs:281-330 with api.cpp).
THEOREM AnswersExactly ==
  ASSUME Grouped
  PROVE  Ask => []AnswerExact
<1>1. ASSUME AskInv PROVE AnswerExact
  <2>1. SUFFICES ASSUME outcome = "ok"
                 PROVE  /\ \A i \in DOMAIN answer :
                             /\ answer[i] # Garbage
                             /\ Validates(answer[i].chain, RoundKeys[answer[i].index][challenge])
                             /\ ToSet(answer[i].chain) \subseteq ToSet(group[answer[i].index - base + 1])
                             /\ \A j \in DOMAIN answer : j # i => answer[j] # answer[i]
                        /\ ~replaced \/ reported <= capacity => Len(answer) = Len(results)
    BY DEF AnswerExact
  <2>2. /\ IInv /\ CallInv /\ AnswerInv /\ RoomInv
    BY <1>1 DEF AskInv
  <2>3. TypeInv /\ FoundInv /\ OnceInv
    BY <2>2 DEF IInv
  <2>4. /\ Len(answer) = LeastOf(reported, capacity) /\ DOMAIN answer = 1 .. Len(answer)
        /\ Len(answer) <= Len(results) /\ Len(results) \in Nat
        /\ \A i \in DOMAIN answer :
             /\ i \in 1 .. Len(results) /\ answer[i] = results[i]
             /\ answer[i] \in Entries /\ answer[i] # Garbage
    BY <1>1, <2>1, AnswerElements
  <2>5. ASSUME NEW i \in DOMAIN answer
        PROVE  Validates(answer[i].chain, RoundKeys[answer[i].index][challenge])
    <3>1. i \in DOMAIN results /\ answer[i] = results[i]
      BY <2>3, <2>4 DEF TypeInv
    <3>2. FoundValidates
      BY <2>2, FoundFollows
    <3> QED BY <3>1, <3>2 DEF FoundValidates
  <2>6. ASSUME NEW i \in DOMAIN answer
        PROVE  ToSet(answer[i].chain) \subseteq ToSet(group[answer[i].index - base + 1])
    <3> DEFINE w == answer[i].chain
    <3>1. PICK p \in 1 .. Len(group) : ResultGood(answer[i], p, group, base, challenge)
      BY <2>3, <2>4 DEF FoundInv
    <3>2. /\ answer[i].index = base + p - 1 /\ w \in Chains /\ FromPlot(w, group[p])
      BY <3>1 DEF ResultGood
    <3> HIDE DEF w
    <3>3. group \in Seq(Seq(Fragments)) /\ base \in Nat
      BY <2>3, GroupAssumption DEF TypeInv
    <3>4. answer[i].index - base + 1 = p
      BY <3>2, <3>3
    <3>5. group[p] \in Seq(Fragments)
      BY <3>3
    <3>6. DOMAIN w = 1 .. Len(w)
      <4>1. w \in Seq(Fragments)
        <5>1. Links \in Nat /\ w \in [1 .. Links -> Fragments]
          BY <3>2, ChainerAssumption DEF Chains
        <5> HIDE DEF w
        <5> QED BY <5>1
      <4> QED BY <4>1
    <3>7. ASSUME NEW x \in DOMAIN w
          PROVE  \E y \in DOMAIN group[p] : group[p][y] = w[x]
      BY <3>2, <3>5, <3>6 DEF FromPlot, InPlot
    <3>8. ToSet(w) \subseteq ToSet(group[p])
      BY <3>7 DEF ToSet
    <3> QED BY <3>4, <3>8 DEF w
  <2>7. ASSUME NEW i \in DOMAIN answer, NEW j \in DOMAIN answer, j # i
        PROVE  answer[j] # answer[i]
    BY <2>3, <2>4, <2>7 DEF OnceInv
  <2>8. ASSUME ~replaced \/ reported <= capacity
        PROVE  Len(answer) = Len(results)
    <3>1. /\ ~Searching /\ ~Refused /\ reported = Len(results)
          /\ reported <= capacity \/ pass = 2
          /\ capacity \in Nat
      BY <2>1, <2>2 DEF AnswerInv, CallInv
    <3>2. CASE reported <= capacity
      BY <2>4, <3>1, <3>2 DEF LeastOf
    <3>3. CASE ~ reported <= capacity
      <4>1. pass = 2 /\ ~replaced
        BY <2>8, <3>1, <3>3
      <4>2. Cardinality(AllResults(group, base, challenge)) <= capacity
        BY <2>2, <4>1 DEF RoomInv
      <4>3. Cardinality(AllResults(group, base, challenge)) = Len(results)
        BY <2>2, <3>1, ResultsCounted
      <4> QED BY <3>1, <3>3, <4>2, <4>3
    <3> QED BY <3>2, <3>3
  <2> QED BY <2>4, <2>5, <2>6, <2>7, <2>8
<1>2. AskInv => AnswerExact
  BY <1>1
<1> QED BY <1>2, AskInvariance, PTL
=============================================================================
