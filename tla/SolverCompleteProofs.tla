------------------------ MODULE SolverCompleteProofs ------------------------
(***************************************************************************)
(* What the solver finds: every candidate, every match of table 1 and      *)
(* every full proof that exists, each once, from the lists its threads     *)
(* fill down to the proofs, in every search that divides them right into   *)
(* sections.                                                               *)
(***************************************************************************)
EXTENDS SolverProofs

-----------------------------------------------------------------------------
(* Lists that have every element of a set once: joined, permuted, thinned  *)

\* Two of them joined.
LEMMA OnceJoined ==
  ASSUME NEW E, NEW F, NEW a, NEW b, OnceEach(a, E), OnceEach(b, F), E \cap F = {}
  PROVE  OnceEach(a \o b, E \cup F)
<1> DEFINE l == a \o b
           k == Len(a)
<1>1. a \in Seq(E) /\ b \in Seq(F) /\ k \in Nat /\ Len(b) \in Nat
  BY DEF OnceEach
<1>2. /\ l \in Seq(E \cup F) /\ Len(l) = k + Len(b)
      /\ \A n \in 1 .. k : l[n] = a[n] /\ a[n] \in E
      /\ \A n \in 1 .. Len(b) : l[n + k] = b[n] /\ b[n] \in F
  <2>1. a \in Seq(E \cup F) /\ b \in Seq(E \cup F)
    BY <1>1
  <2>2. l \in Seq(E \cup F) /\ Len(l) = k + Len(b)
    BY <2>1
  <2>3. \A n \in 1 .. k : l[n] = a[n] /\ a[n] \in E
    BY <1>1
  <2>4. ASSUME NEW n \in 1 .. Len(b) PROVE l[n + k] = b[n] /\ b[n] \in F
    BY <1>1
  <2> QED BY <2>2, <2>3, <2>4
<1>3. \A e \in E : \E n \in 1 .. k : a[n] = e
  BY DEF OnceEach
<1>4. \A e \in F : \E n \in 1 .. Len(b) : b[n] = e
  BY DEF OnceEach
<1>5. \A m, n \in 1 .. k : a[m] = a[n] => m = n
  BY DEF OnceEach
<1>6. \A m, n \in 1 .. Len(b) : b[m] = b[n] => m = n
  BY DEF OnceEach
<1> HIDE DEF l, k
<1>7. ASSUME NEW e \in E \cup F PROVE \E n \in 1 .. Len(l) : l[n] = e
  <2>1. CASE e \in E
    <3>1. PICK n \in 1 .. k : a[n] = e
      BY <1>3, <2>1
    <3>2. n \in 1 .. Len(l) /\ l[n] = e
      BY <1>1, <1>2, <3>1
    <3> QED BY <3>2
  <2>2. CASE e \in F
    <3>1. PICK n \in 1 .. Len(b) : b[n] = e
      BY <1>4, <2>2
    <3>2. n + k \in 1 .. Len(l) /\ l[n + k] = e
      BY <1>1, <1>2, <3>1
    <3> QED BY <3>2
  <2> QED BY <1>7, <2>1, <2>2
<1>8. ASSUME NEW m \in 1 .. Len(l), NEW n \in 1 .. Len(l), l[m] = l[n] PROVE m = n
  <2>1. \A i \in 1 .. Len(l) : i \in 1 .. k \/ (i - k \in 1 .. Len(b) /\ (i - k) + k = i)
    BY <1>1, <1>2
  <2>2. CASE m \in 1 .. k /\ n \in 1 .. k
    BY <1>2, <1>5, <1>8, <2>2
  <2>3. CASE m \in 1 .. k /\ n \notin 1 .. k
    <3>1. l[m] \in E /\ l[n] \in F
      BY <1>2, <2>1, <2>3
    <3> QED BY <1>8, <3>1
  <2>4. CASE m \notin 1 .. k /\ n \in 1 .. k
    <3>1. l[n] \in E /\ l[m] \in F
      BY <1>2, <2>1, <2>4
    <3> QED BY <1>8, <3>1
  <2>5. CASE m \notin 1 .. k /\ n \notin 1 .. k
    <3>1. m - k \in 1 .. Len(b) /\ n - k \in 1 .. Len(b) /\ (m - k) + k = m /\ (n - k) + k = n
      BY <2>1, <2>5
    <3>2. l[m] = b[m - k] /\ l[n] = b[n - k]
      BY <1>2, <3>1
    <3>3. m - k = n - k
      BY <1>6, <1>8, <3>1, <3>2
    <3> QED BY <1>1, <3>3
  <2> QED BY <2>2, <2>3, <2>4, <2>5
<1>9. OnceEach(l, E \cup F)
  BY <1>2, <1>7, <1>8 DEF OnceEach
<1> QED BY <1>9 DEF l

\* The same list in another order.
Rearranges(l, a, p) ==
  /\ p \in [1 .. Len(a) -> 1 .. Len(a)]
  /\ \A i \in 1 .. Len(a) : \E k \in 1 .. Len(a) : p[k] = i
  /\ \A k, m \in 1 .. Len(a) : p[k] = p[m] => k = m
  /\ l = [k \in 1 .. Len(a) |-> a[p[k]]]

\* It has the same elements.
LEMMA OncePermuted ==
  ASSUME NEW E, NEW a, OnceEach(a, E), NEW l, NEW p, Rearranges(l, a, p)
  PROVE  OnceEach(l, E)
<1> DEFINE n == Len(a)
<1>1. n \in Nat /\ a \in Seq(E) /\ \A i \in 1 .. n : a[i] \in E
  BY DEF OnceEach
<1>p. /\ p \in [1 .. n -> 1 .. n]
      /\ \A i \in 1 .. n : \E k \in 1 .. n : p[k] = i
      /\ \A k, m \in 1 .. n : p[k] = p[m] => k = m
      /\ l = [k \in 1 .. n |-> a[p[k]]]
  BY DEF Rearranges
<1>3. \A e \in E : \E i \in 1 .. n : a[i] = e
  BY DEF OnceEach
<1>4. \A i, k \in 1 .. n : a[i] = a[k] => i = k
  BY DEF OnceEach
<1> HIDE DEF n
<1>2. l \in Seq(E) /\ Len(l) = n
  <2>1. l \in [1 .. n -> E]
    BY <1>1, <1>p
  <2> QED BY <1>1, <2>1, ListOf
<1>5. \A k \in 1 .. n : l[k] = a[p[k]] /\ p[k] \in 1 .. n
  BY <1>p
<1>6. ASSUME NEW e \in E PROVE \E k \in 1 .. n : l[k] = e
  <2>1. PICK i \in 1 .. n : a[i] = e
    BY <1>3
  <2>2. PICK k \in 1 .. n : p[k] = i
    BY <1>p, <2>1
  <2> QED BY <1>5, <2>1, <2>2
<1>7. ASSUME NEW k \in 1 .. n, NEW m \in 1 .. n, l[k] = l[m] PROVE k = m
  <2> DEFINE i == p[k]
             j == p[m]
  <2>1. i \in 1 .. n /\ j \in 1 .. n /\ a[i] = a[j]
    BY <1>5, <1>7
  <2>2. i = j => k = m
    BY <1>p
  <2> HIDE DEF i, j
  <2>3. i = j
    BY <1>4, <2>1
  <2> QED BY <2>2, <2>3
<1> QED BY <1>2, <1>6, <1>7 DEF OnceEach

\* As long as the set has elements.
LEMMA OnceCounts ==
  ASSUME NEW E, NEW a, OnceEach(a, E)
  PROVE  /\ IsFiniteSet(E) /\ Cardinality(E) = Len(a)
         /\ E = {a[n] : n \in 1 .. Len(a)}
<1>1. a \in [1 .. Len(a) -> E] /\ Len(a) \in Nat
  BY DEF OnceEach
<1>2. a \in Bijection(1 .. Len(a), E)
  BY <1>1 DEF OnceEach, Bijection, Injection, Surjection, IsInjective
<1>3. ExistsBijection(1 .. Len(a), E)
  BY <1>2 DEF ExistsBijection
<1>4. IsFiniteSet(1 .. Len(a)) /\ Cardinality(1 .. Len(a)) = Len(a)
  <2> DEFINE n == Len(a)
  <2>1. n \in Nat
    BY <1>1
  <2> HIDE DEF n
  <2>2. IsFiniteSet(1 .. n) /\ Cardinality(1 .. n) = n
    BY <2>1, FS_Interval
  <2> QED BY <2>2 DEF n
<1>5. IsFiniteSet(E) /\ Cardinality(E) = Cardinality(1 .. Len(a))
  BY <1>3, <1>4, FS_Bijection
<1>6. E = {a[n] : n \in 1 .. Len(a)}
  BY <1>1 DEF OnceEach
<1> QED BY <1>4, <1>5, <1>6

\* The entries that are in a set.
LEMMA OnceThose ==
  ASSUME NEW E, NEW a, OnceEach(a, E), NEW F
  PROVE  OnceEach(Those(a, {n \in DOMAIN a : a[n] \in F}), E \cap F)
<1> DEFINE at == {n \in DOMAIN a : a[n] \in F}
           o == InOrder(at)
           N == Cardinality(at)
           l == Those(a, at)
<1>1. a \in Seq(E) /\ Len(a) \in Nat /\ DOMAIN a = 1 .. Len(a) /\ \A n \in 1 .. Len(a) : a[n] \in E
  BY DEF OnceEach
<1>2. at \subseteq 1 .. Len(a) /\ at \subseteq Nat /\ \A n \in 1 .. Len(a) : n \in at <=> a[n] \in F
  BY <1>1
<1> HIDE DEF at
<1>3. IsFiniteSet(at)
  <2>1. IsFiniteSet(1 .. Len(a))
    BY <1>1, FS_Interval
  <2> QED BY <1>2, <2>1, FS_Subset
<1>4. Lists(o, at)
  BY <1>2, <1>3, InOrderLists
<1> HIDE DEF o
<1>5. N \in Nat /\ o \in [1 .. N -> at] /\ \A i \in at : \E k \in 1 .. N : o[k] = i
  BY <1>4 DEF Lists
<1>6. \A k, m \in 1 .. N : o[k] = o[m] => k = m
  <2>1. ASSUME NEW k \in 1 .. N, NEW m \in 1 .. N, o[k] = o[m], k # m PROVE FALSE
    <3>1. \A i, j \in 1 .. N : i < j => o[i] < o[j]
      BY <1>4 DEF Lists
    <3>2. o[k] \in Nat /\ o[m] \in Nat
      BY <1>2, <1>5
    <3>3. k < m \/ m < k
      BY <1>5, <2>1
    <3> HIDE DEF N
    <3>4. o[k] < o[m] \/ o[m] < o[k]
      BY <3>1, <3>3
    <3> QED BY <2>1, <3>2, <3>4
  <2> QED BY <2>1
<1>7. l = [n \in 1 .. N |-> a[o[n]]]
  <2>1. DOMAIN o = 1 .. N
    BY <1>5
  <2>2. l = [n \in DOMAIN o |-> a[o[n]]]
    BY DEF Those, o
  <2> QED BY <2>1, <2>2
<1> HIDE DEF N, l
<1>8. \A k \in 1 .. N : l[k] = a[o[k]] /\ o[k] \in at /\ o[k] \in 1 .. Len(a) /\ a[o[k]] \in E \cap F
  BY <1>1, <1>2, <1>5, <1>7
<1>9. l \in Seq(E \cap F) /\ Len(l) = N
  <2>1. l \in [1 .. N -> E \cap F]
    BY <1>7, <1>8
  <2> QED BY <1>5, <2>1, ListOf
<1>10. ASSUME NEW e \in E \cap F PROVE \E k \in 1 .. N : l[k] = e
  <2>1. PICK i \in 1 .. Len(a) : a[i] = e
    BY DEF OnceEach
  <2>2. i \in at
    BY <1>2, <2>1
  <2>3. PICK k \in 1 .. N : o[k] = i
    BY <1>5, <2>2
  <2>4. l[k] = e
    BY <1>8, <2>1, <2>3
  <2> QED BY <2>4
<1>11. \A i, k \in 1 .. Len(a) : a[i] = a[k] => i = k
  BY DEF OnceEach
<1>12. \A k, m \in 1 .. N : l[k] = l[m] => k = m
  BY <1>6, <1>8, <1>11
<1>13. OnceEach(l, E \cap F)
  BY <1>9, <1>10, <1>12 DEF OnceEach
<1> QED BY <1>13 DEF l, at

-----------------------------------------------------------------------------
(* The lists of candidates are complete                                    *)

\* The x1 candidates of the wanted ranges, and the x2 candidates whose coarse
\* hash the bitmask of a list knows.
Wanted1(plot, ranges) ==
  {e \in GoodX1(plot) : \E g \in 1 .. Len(ranges) : Upper(e.x) = ranges[g]}
Wanted2(plot, list) == {e \in GoodX2(plot) : Known(plot, list, e.x)}

\* No hash before a smaller one.
InHashOrder(list) == \A m, n \in 1 .. Len(list) : m <= n => list[m].hash <= list[n].hash

\* A list with every element once still has them when it is sorted.
LEMMA SortedOnce ==
  ASSUME NEW E, \A e \in E : e.hash \in Nat, NEW list, OnceEach(list, E)
  PROVE  OnceEach(SortedByHash(list), E) /\ InHashOrder(SortedByHash(list))
<1> DEFINE n == Len(list)
           l == SortedByHash(list)
<1>1. list \in Seq(E) /\ n \in Nat /\ DOMAIN list = 1 .. n /\ \A i \in 1 .. n : list[i] \in E
  BY DEF OnceEach
<1>2. \A i \in 1 .. n : list[i].hash \in Nat
  BY <1>1
<1>e. n = Len(list)
  OBVIOUS
<1> HIDE DEF n
<1>3. PICK p : Sorts(list, n, p) /\ l = [a \in 1 .. n |-> list[p[a]]]
  BY <1>1, <1>2, SortedByHashSorts
<1> HIDE DEF l
<1>4. p \in [1 .. n -> 1 .. n]
  BY <1>3 DEF Sorts
<1>8. \A i \in 1 .. n : \E a \in 1 .. n : p[a] = i
  BY <1>3 DEF Sorts
<1>9. \A a, b \in 1 .. n : p[a] = p[b] => a = b
  BY <1>3 DEF Sorts
<1>10. \A a, b \in 1 .. n : a <= b => list[p[a]].hash <= list[p[b]].hash
  BY <1>3 DEF Sorts
<1>5. OnceEach(l, E)
  <2>1. Rearranges(l, list, p)
    BY <1>3, <1>4, <1>8, <1>9, <1>e, Zenon DEF Rearranges
  <2> QED BY <2>1, OncePermuted
<1>6. Len(l) = n
  BY <1>1, <1>3
<1>7. InHashOrder(l)
  BY <1>3, <1>6, <1>10 DEF InHashOrder
<1> QED BY <1>5, <1>7 DEF l

\* The index with given parts.
IsIndex(n, H, M, s, key, low, v) ==
  /\ v \in Nat /\ v < (n * H) * M
  /\ v \div (H * M) = s /\ (v \div H) % M = key /\ v % H = low

\* It is put together like a match info.
LEMMA IndexMade ==
  ASSUME NEW n \in Nat, NEW H \in Nat \ {0}, NEW M \in Nat \ {0}, NEW s \in 0 .. n - 1,
         NEW key \in 0 .. M - 1, NEW low \in 0 .. H - 1
  PROVE  IsIndex(n, H, M, s, key, low, ThreeOf(M, H, s, key, low))
<1> DEFINE v == ThreeOf(M, H, s, key, low)
           Z == H * M
<1>1. s \in Nat /\ s + 1 <= n
  OBVIOUS
<1> HIDE DEF v
<1>2. /\ v \in Nat /\ v \div (H * M) = s /\ (v \div H) % M = key /\ v % H = low
      /\ v < (s + 1) * (H * M)
  BY <1>1, ThreeParts DEF v
<1>3. Z \in Nat /\ (n * H) * M = n * Z /\ v < (s + 1) * Z
  BY <1>2
<1> HIDE DEF Z
<1>4. (s + 1) * Z <= n * Z /\ (s + 1) * Z \in Nat /\ n * Z \in Nat
  <2>1. PICK d \in Nat : n = (s + 1) + d
    <3>1. n - (s + 1) \in Nat /\ n = (s + 1) + (n - (s + 1))
      BY <1>1
    <3> QED BY <3>1
  <2>2. n * Z = ((s + 1) * Z) + (d * Z) /\ d * Z \in Nat /\ (s + 1) * Z \in Nat
    BY <1>1, <1>3, <2>1
  <2> QED BY <2>2
<1>5. v < (n * H) * M
  <2> DEFINE a == (s + 1) * Z
             b == n * Z
             c == (n * H) * M
  <2>1. c = b /\ a <= b /\ v < a /\ a \in Nat /\ b \in Nat
    BY <1>3, <1>4
  <2> HIDE DEF a, b, c
  <2>2. v < c
    BY <1>2, <2>1
  <2> QED BY <2>2 DEF c
<1> QED BY <1>2, <1>5 DEF IsIndex, v

\* hashX1Candidates makes the candidates of its ranges, each once.
LEMMA X1ListOnce ==
  ASSUME Plot \in Plots, NEW ranges \in Seq(0 .. HalfXs - 1),
         \A g, h \in 1 .. Len(ranges) : ranges[g] = ranges[h] => g = h
  PROVE  OnceEach([i \in 1 .. Len(ranges) * HalfXs * MatchKeys[1] |-> X1Candidate(ranges, i - 1)],
                  Wanted1(Plot, ranges))
<1> DEFINE H == HalfXs
           M == MatchKeys[1]
           n == Len(ranges)
           N == n * H * M
           list == [i \in 1 .. N |-> X1Candidate(ranges, i - 1)]
           G(i) == (i \div (H * M)) + 1
           Key(i) == (i \div H) % M
           Low(i) == i % H
           X(i) == (ranges[G(i)] * H) + Low(i)
<1>1. H \in Nat \ {0} /\ M \in Nat \ {0} /\ n \in Nat /\ N = (n * H) * M
  BY ValidatorAssumption
<1>2. N \in Nat
  BY <1>1
<1>3. ASSUME NEW i \in Nat, i < N
      PROVE  /\ G(i) \in 1 .. n /\ Key(i) \in 0 .. M - 1 /\ Low(i) \in 0 .. H - 1
             /\ ranges[G(i)] \in 0 .. HalfXs - 1
  <2>1. G(i) \in 1 .. n /\ Key(i) \in 0 .. M - 1 /\ Low(i) \in 0 .. H - 1
    <3> HIDE DEF H, M, n
    <3> QED BY <1>1, <1>3, RangeIndex
  <2>2. \A j \in 1 .. n : ranges[j] \in 0 .. HalfXs - 1
    BY ListShape
  <2> HIDE DEF G, Key, Low
  <2> QED BY <2>1, <2>2
<1>4. ASSUME NEW i \in Nat, i < N
      PROVE  /\ X1Candidate(ranges, i) \in Wanted1(Plot, ranges)
             /\ X1Candidate(ranges, i).x = X(i)
             /\ X1Candidate(ranges, i).hash
                  = InfoToMatch(1, Info(Plot, 0, <<X(i)>>), Key(i), TargetOf(Plot, 1, <<X(i)>>, Key(i)))
             /\ X(i) \in Xs /\ Upper(X(i)) = ranges[G(i)]
  <2> DEFINE hash == InfoToMatch(1, Info(Plot, 0, <<X(i)>>), Key(i), TargetOf(Plot, 1, <<X(i)>>, Key(i)))
  <2>1. X1Candidate(ranges, i) = [hash |-> hash, x |-> X(i)]
    BY DEF X1Candidate
  <2>2. X1Candidate(ranges, i) \in GoodX1(Plot)
    BY <1>1, <1>4, X1CandidateGood
  <2>3. X(i) \in Xs /\ Upper(X(i)) = ranges[G(i)]
    <3>1. ranges[G(i)] \in 0 .. HalfXs - 1 /\ Low(i) \in 0 .. HalfXs - 1 /\ H = HalfXs
      BY <1>3, <1>4
    <3> HIDE DEF G, Low, H
    <3> QED BY <3>1, XOfRange
  <2>4. G(i) \in 1 .. Len(ranges)
    BY <1>3, <1>4
  <2> HIDE DEF X, G, hash
  <2>5. X1Candidate(ranges, i).x = X(i) /\ X1Candidate(ranges, i).hash = hash
    BY <2>1
  <2>6. X1Candidate(ranges, i) \in Wanted1(Plot, ranges)
    BY <2>2, <2>3, <2>4, <2>5 DEF Wanted1
  <2> QED BY <2>3, <2>5, <2>6 DEF hash
<1>5. ASSUME NEW i \in Nat, i < N, NEW j \in Nat, j < N, X1Candidate(ranges, i) = X1Candidate(ranges, j)
      PROVE  i = j
  <2>1. X(i) = X(j) /\ ranges[G(i)] = ranges[G(j)]
    <3>1. X(i) = X(j)
      BY <1>4, <1>5
    <3>2. ranges[G(i)] = Upper(X(i)) /\ ranges[G(j)] = Upper(X(j))
      BY <1>4, <1>5
    <3> HIDE DEF X, G
    <3> QED BY <3>1, <3>2
  <2>2. G(i) = G(j)
    <3>1. G(i) \in 1 .. n /\ G(j) \in 1 .. n
      BY <1>3, <1>5
    <3> HIDE DEF G
    <3> QED BY <2>1, <3>1
  <2>3. Low(i) = Low(j)
    <3>1. Low(i) \in 0 .. H - 1 /\ Low(j) \in 0 .. H - 1 /\ ranges[G(i)] \in Nat
      BY <1>3, <1>5
    <3> DEFINE r == ranges[G(i)] * H
               a == Low(i)
               b == Low(j)
    <3>2. X(i) = r + a /\ X(j) = r + b
      BY <2>1
    <3>3. r \in Nat
      <4> DEFINE q == ranges[G(i)]
      <4>1. q \in Nat
        BY <3>1
      <4> HIDE DEF q
      <4> QED BY <1>1, <4>1 DEF r, q
    <3>4. a \in Nat /\ b \in Nat
      <4> HIDE DEF Low, G
      <4> QED BY <1>1, <3>1
    <3> HIDE DEF r, X, a, b
    <3>5. r + a = r + b
      BY <2>1, <3>2
    <3>6. a = b
      BY <3>3, <3>4, <3>5
    <3> QED BY <3>6 DEF a, b
  <2>4. Key(i) = Key(j)
    <3> DEFINE x == X(i)
               left == Info(Plot, 0, <<x>>)
    <3>1. x \in Xs /\ x = X(j) /\ Key(i) \in 0 .. M - 1 /\ Key(j) \in 0 .. M - 1
      BY <1>3, <1>4, <1>5, <2>1
    <3>2. InfoToMatch(1, left, Key(i), TargetOf(Plot, 1, <<x>>, Key(i)))
            = InfoToMatch(1, left, Key(j), TargetOf(Plot, 1, <<x>>, Key(j)))
      <4>1. X1Candidate(ranges, j).hash
              = InfoToMatch(1, Info(Plot, 0, <<X(j)>>), Key(j), TargetOf(Plot, 1, <<X(j)>>, Key(j)))
        BY <1>4, <1>5
      <4>2. X1Candidate(ranges, i).hash
              = InfoToMatch(1, Info(Plot, 0, <<X(i)>>), Key(i), TargetOf(Plot, 1, <<X(i)>>, Key(i)))
        BY <1>4, <1>5
      <4> HIDE DEF X, Key
      <4> QED BY <1>5, <3>1, <4>1, <4>2
    <3> HIDE DEF x, Key, X
    <3>3. \A k \in 0 .. M - 1 : KeyOf(1, InfoToMatch(1, left, k, TargetOf(Plot, 1, <<x>>, k))) = k
      <4>1. ASSUME NEW k \in 0 .. M - 1
            PROVE  KeyOf(1, InfoToMatch(1, left, k, TargetOf(Plot, 1, <<x>>, k))) = k
        <5>1. left \in Xs /\ TargetOf(Plot, 1, <<x>>, k) \in 0 .. Targets(1) - 1 /\ 1 \in 1 .. 3
          BY <3>1, HashAssumption
        <5> HIDE DEF left
        <5> QED BY <5>1, InfoParts
      <4> QED BY <4>1
    <3> QED BY <3>1, <3>2, <3>3
  <2>5. \A k \in Nat : k = (H * (k \div H)) + (k % H) /\ k \div H = (M * ((k \div H) \div M)) + ((k \div H) % M)
                       /\ (k \div H) \div M = k \div (H * M)
    <3>1. ASSUME NEW k \in Nat
          PROVE  k = (H * (k \div H)) + (k % H) /\ k \div H = (M * ((k \div H) \div M)) + ((k \div H) % M)
                       /\ (k \div H) \div M = k \div (H * M)
      <4> HIDE DEF H, M
      <4>1. k = (H * (k \div H)) + (k % H) /\ k \div H \in Nat
        BY <1>1, Quotient
      <4> DEFINE d == k \div H
      <4>2. d \in Nat
        BY <4>1
      <4> HIDE DEF d
      <4>3. d = (M * (d \div M)) + (d % M)
        BY <1>1, <4>2, Quotient
      <4>4. (k \div H) \div M = k \div (H * M)
        BY <1>1
      <4> QED BY <4>1, <4>3, <4>4 DEF d
    <3> QED BY <3>1
  <2>6. i \div (H * M) = j \div (H * M)
    <3> DEFINE a == i \div (H * M)
               b == j \div (H * M)
    <3>1. a + 1 = b + 1
      BY <2>2
    <3>2. a \in Int /\ b \in Int
      <4> DEFINE Z == H * M
      <4>1. Z \in Nat \ {0}
        BY <1>1
      <4> HIDE DEF Z
      <4>2. i \div Z \in Int /\ j \div Z \in Int
        BY <4>1
      <4> QED BY <4>2 DEF Z
    <3> HIDE DEF a, b
    <3>3. a = b
      BY <3>1, <3>2
    <3> QED BY <3>3 DEF a, b
  <2>7. i \div H = j \div H
    BY <2>4, <2>5, <2>6
  <2> QED BY <2>3, <2>5, <2>7
<1>6. ASSUME NEW e \in Wanted1(Plot, ranges) PROVE \E i \in Nat : i < N /\ X1Candidate(ranges, i) = e
  <2>1. e \in GoodX1(Plot)
    BY DEF Wanted1
  <2>2. PICK g \in 1 .. n : Upper(e.x) = ranges[g]
    BY DEF Wanted1
  <2>3. e \in Candidate /\ e.x \in Xs
    BY <2>1, CandidateHash DEF GoodX1
  <2>4. PICK key \in 0 .. M - 1 : e.hash = InfoToMatch(1, Info(Plot, 0, <<e.x>>), key, TargetOf(Plot, 1, <<e.x>>, key))
    BY <2>1 DEF GoodX1
  <2> DEFINE low == e.x % H
             s == g - 1
             v == ThreeOf(M, H, s, key, low)
  <2>5. e.x \in Nat
    <3>1. NumXs \in Nat
      BY TurnAssumption
    <3> QED BY <2>3, <3>1 DEF Xs
  <2>6. low \in 0 .. H - 1 /\ e.x = (ranges[g] * H) + low
    <3>1. e.x = (H * (e.x \div H)) + low /\ low \in 0 .. H - 1 /\ e.x \div H \in Nat
      BY <1>1, <2>5, Quotient
    <3>2. ranges[g] = e.x \div H
      BY <2>2 DEF Upper
    <3> DEFINE q == e.x \div H
    <3> HIDE DEF low, q
    <3>3. H * q = q * H
      BY <1>1, <3>1 DEF q
    <3> QED BY <3>1, <3>2, <3>3 DEF q
  <2>7. s \in Nat /\ s < n
    BY <1>1
  <2> HIDE DEF low, s, v
  <2>8. v \in Nat /\ v < N /\ v \div (H * M) = s /\ (v \div H) % M = key /\ v % H = low
    <3>1. IsIndex(n, H, M, s, key, low, v)
      <4>1. s \in 0 .. n - 1 /\ key \in 0 .. M - 1
        BY <1>1, <2>7
      <4> HIDE DEF n, H, M
      <4> QED BY <1>1, <2>6, <4>1, IndexMade DEF v
    <3> QED BY <3>1 DEF IsIndex
  <2>10. G(v) = g /\ Key(v) = key /\ Low(v) = low
    <3>1. s + 1 = g
      BY DEF s
    <3> QED BY <2>8, <3>1
  <2>11. X(v) = e.x
    <3> HIDE DEF G, Key, Low
    <3> QED BY <2>6, <2>10
  <2>12. X1Candidate(ranges, v).x = e.x /\ X1Candidate(ranges, v).hash = e.hash
    <3>1. /\ X1Candidate(ranges, v).x = X(v)
          /\ X1Candidate(ranges, v).hash
                = InfoToMatch(1, Info(Plot, 0, <<X(v)>>), Key(v), TargetOf(Plot, 1, <<X(v)>>, Key(v)))
      BY <1>4, <2>8
    <3> HIDE DEF X, G, Key, Low
    <3> QED BY <2>4, <2>10, <2>11, <3>1
  <2>13. X1Candidate(ranges, v) \in Candidate
    <3>1. X1Candidate(ranges, v) \in Wanted1(Plot, ranges)
      BY <1>4, <2>8
    <3> QED BY <3>1 DEF Wanted1, GoodX1
  <2>14. X1Candidate(ranges, v) = e
    <3> DEFINE c == X1Candidate(ranges, v)
    <3>1. c \in Candidate /\ c.x = e.x /\ c.hash = e.hash
      BY <2>12, <2>13
    <3> HIDE DEF c
    <3>2. c = [hash |-> c.hash, x |-> c.x] /\ e = [hash |-> e.hash, x |-> e.x]
      BY <2>3, <3>1 DEF Candidate
    <3>3. c = e
      BY <3>1, <3>2
    <3> QED BY <3>3 DEF c
  <2> QED BY <2>8, <2>14
<1> HIDE DEF N, H, M, n, G, Key, Low, X
<1>7. \A i \in 1 .. N : i - 1 \in Nat /\ i - 1 < N /\ list[i] = X1Candidate(ranges, i - 1)
  BY <1>2
<1>8. list \in Seq(Wanted1(Plot, ranges)) /\ Len(list) = N
  <2>1. list \in [1 .. N -> Wanted1(Plot, ranges)]
    BY <1>4, <1>7
  <2> HIDE DEF list
  <2> QED BY <1>2, <2>1, ListOf
<1> HIDE DEF list
<1>9. ASSUME NEW e \in Wanted1(Plot, ranges) PROVE \E i \in 1 .. N : list[i] = e
  <2>1. PICK i \in Nat : i < N /\ X1Candidate(ranges, i) = e
    BY <1>6
  <2>2. i + 1 \in 1 .. N /\ (i + 1) - 1 = i
    BY <1>2, <2>1
  <2> QED BY <1>7, <2>1, <2>2
<1>10. ASSUME NEW i \in 1 .. N, NEW j \in 1 .. N, list[i] = list[j] PROVE i = j
  <2>1. i - 1 = j - 1
    BY <1>5, <1>7, <1>10
  <2> QED BY <1>2, <2>1
<1>11. OnceEach(list, Wanted1(Plot, ranges))
  BY <1>8, <1>9, <1>10 DEF OnceEach
<1> QED BY <1>11 DEF list, N, H, M, n

-----------------------------------------------------------------------------
(* The parts of the filter's threads                                       *)

\* The hits with an x value from one number to below another.
HitsBetween(plot, list, from, to) == {e \in Wanted2(plot, list) : from <= e.x /\ e.x < to}

\* What a thread has put away at its end has every hit of its x values once.
LEMMA HitsOnce ==
  ASSUME NEW plot \in Plots, NEW list, NEW t \in Workers, NEW h, HitsTo(plot, list, h, t, ChunkLen(t))
  PROVE  OnceEach(h, HitsBetween(plot, list, t * ChunkSize, (t * ChunkSize) + ChunkLen(t)))
<1> DEFINE from == t * ChunkSize
           len == ChunkLen(t)
           E == HitsBetween(plot, list, from, from + len)
<1>1. from \in Nat /\ len \in Nat /\ from + len <= NumXs /\ NumXs \in Nat
  BY Chunks, TurnAssumption
<1>2. /\ h \in Seq(Candidate)
      /\ \A n \in 1 .. Len(h) : \E c \in 1 .. len : Known(plot, list, XAt(t, c)) /\ h[n] = Hit(plot, XAt(t, c))
      /\ \A c \in 1 .. len : Known(plot, list, XAt(t, c)) => \E n \in 1 .. Len(h) : h[n] = Hit(plot, XAt(t, c))
      /\ \A m, n \in 1 .. Len(h) : h[m].x = h[n].x => m = n
  BY DEF HitsTo
<1>3. \A x : Hit(plot, x).x = x /\ Hit(plot, x).hash = Info(plot, 0, <<x>>)
  BY DEF Hit
<1>4. \A c \in 1 .. len : XAt(t, c) = from + c - 1
  BY DEF XAt
<1>5. Len(h) \in Nat /\ \A n \in 1 .. Len(h) : h[n] \in Candidate
  BY <1>2
<1> HIDE DEF from, len
<1>6. ASSUME NEW n \in 1 .. Len(h) PROVE h[n] \in E
  <2>1. PICK c \in 1 .. len : Known(plot, list, XAt(t, c)) /\ h[n] = Hit(plot, XAt(t, c))
    BY <1>2
  <2> DEFINE x == XAt(t, c)
  <2>2. x = from + c - 1
    BY <1>4
  <2> HIDE DEF x
  <2>3. from <= x /\ x < from + len
    BY <1>1, <2>2
  <2>4. h[n].x = x /\ h[n].hash = Info(plot, 0, <<x>>)
    BY <1>3, <2>1 DEF x
  <2>5. h[n] \in GoodX2(plot)
    BY <1>5, <2>4 DEF GoodX2
  <2>6. h[n] \in Wanted2(plot, list)
    BY <2>1, <2>4, <2>5 DEF Wanted2, x
  <2> QED BY <2>3, <2>4, <2>6 DEF HitsBetween
<1>7. ASSUME NEW e \in E PROVE \E n \in 1 .. Len(h) : h[n] = e
  <2>1. e \in GoodX2(plot) /\ Known(plot, list, e.x) /\ from <= e.x /\ e.x < from + len
    BY DEF HitsBetween, Wanted2
  <2>2. e \in Candidate /\ e.hash = Info(plot, 0, <<e.x>>) /\ e.x \in Nat
    <3>1. e \in Candidate /\ e.hash = Info(plot, 0, <<e.x>>)
      BY <2>1 DEF GoodX2
    <3>2. e.x \in Xs
      BY <3>1, CandidateHash
    <3> QED BY <1>1, <3>1, <3>2 DEF Xs
  <2> DEFINE x == e.x
             c == x - from + 1
  <2>3. x \in Nat /\ from <= x /\ x < from + len
    BY <2>1, <2>2
  <2>4. e = Hit(plot, x)
    BY <2>2 DEF Hit, Candidate
  <2>5. Known(plot, list, x)
    BY <2>1
  <2> HIDE DEF x
  <2>6. c \in 1 .. len /\ from + c - 1 = x
    BY <1>1, <2>3
  <2> HIDE DEF c
  <2>7. XAt(t, c) = x
    BY <1>4, <2>6
  <2>8. Known(plot, list, XAt(t, c))
    BY <2>5, <2>7
  <2>9. PICK n \in 1 .. Len(h) : h[n] = Hit(plot, XAt(t, c))
    BY <1>2, <2>6, <2>8
  <2> QED BY <2>4, <2>7, <2>9
<1> HIDE DEF E
<1>8. h \in Seq(E)
  <2>1. h = [n \in 1 .. Len(h) |-> h[n]]
    BY <1>2, ListShape
  <2>2. h \in [1 .. Len(h) -> E]
    BY <1>6, <2>1
  <2> QED BY <1>5, <2>2, ListOf
<1>9. \A m, n \in 1 .. Len(h) : h[m] = h[n] => m = n
  BY <1>2
<1> QED BY <1>7, <1>8, <1>9 DEF OnceEach, E, from, len

\* Where the x values of the first threads end.
EndOfChunks(n) == IF n = Threads THEN NumXs ELSE n * ChunkSize

\* Next to each other, the chunks are all x values.
LEMMA ChunksJoin ==
  ASSUME NEW t \in Workers
  PROVE  /\ EndOfChunks(t) = t * ChunkSize /\ EndOfChunks(t + 1) = (t * ChunkSize) + ChunkLen(t)
         /\ EndOfChunks(t) \in Nat /\ EndOfChunks(t + 1) \in Nat /\ EndOfChunks(t) <= EndOfChunks(t + 1)
<1>1. Threads \in Nat \ {0} /\ t \in Nat /\ t < Threads /\ NumXs \in Nat
  BY SolverAssumption, TurnAssumption DEF Workers
<1>2. t * ChunkSize \in Nat /\ ChunkLen(t) \in Nat /\ ChunkSize \in Nat
  BY Chunks
<1>3. t # Threads
  BY <1>1
<1>4. EndOfChunks(t) = t * ChunkSize
  BY <1>3 DEF EndOfChunks
<1>5. EndOfChunks(t + 1) = (t * ChunkSize) + ChunkLen(t)
  <2> DEFINE a == t * ChunkSize
  <2>1. CASE t + 1 = Threads
    <3>1. EndOfChunks(t + 1) = NumXs /\ ChunkLen(t) = NumXs - a
      BY <2>1 DEF EndOfChunks, ChunkLen
    <3>2. a \in Nat
      BY <1>2
    <3> HIDE DEF a
    <3>3. NumXs = a + (NumXs - a)
      BY <1>1, <3>2
    <3> QED BY <3>1, <3>3 DEF a
  <2>2. CASE t + 1 # Threads
    <3>1. EndOfChunks(t + 1) = (t + 1) * ChunkSize /\ ChunkLen(t) = (a + ChunkSize) - a
      BY <2>2 DEF EndOfChunks, ChunkLen
    <3>2. a \in Nat /\ (t + 1) * ChunkSize = a + ChunkSize
      BY <1>1, <1>2
    <3> HIDE DEF a
    <3>3. a + ChunkSize = a + ((a + ChunkSize) - a)
      BY <1>2, <3>2
    <3> QED BY <3>1, <3>2, <3>3 DEF a
  <2> QED BY <2>1, <2>2
<1>6. (t * ChunkSize) + ChunkLen(t) \in Nat /\ t * ChunkSize <= (t * ChunkSize) + ChunkLen(t)
  <2> DEFINE a == t * ChunkSize
  <2>1. a \in Nat
    BY <1>2
  <2> HIDE DEF a
  <2>2. a + ChunkLen(t) \in Nat /\ a <= a + ChunkLen(t)
    BY <1>2, <2>1
  <2> QED BY <2>2 DEF a
<1> QED BY <1>2, <1>4, <1>5, <1>6

\* A list made of parts, one of every thread, one after the other.
LEMMA PartsAre ==
  ASSUME NEW E, \A t \in Workers : found[t] \in Seq(E)
  PROVE  PartsOf = [n \in 0 .. Threads |-> IF n = 0 THEN <<>> ELSE PartsOf[n - 1] \o found[n - 1]]
<1> DEFINE V == Seq(E)
           step == [p \in (1 .. Threads) \X V |-> p[2] \o found[p[1] - 1]]
<1>1. Threads \in Nat \ {0}
  BY SolverAssumption
<1>2. \A n \in 1 .. Threads : found[n - 1] \in Seq(E)
  BY <1>1 DEF Workers
<1>3. step \in [(1 .. Threads) \X V -> V]
  <2>1. ASSUME NEW n \in 1 .. Threads, NEW v \in V PROVE v \o found[n - 1] \in V
    BY <1>2
  <2> HIDE DEF V
  <2> QED BY <2>1
<1>4. \A n \in 1 .. Threads, v \in V : step[<<n, v>>] = v \o found[n - 1]
  <2> HIDE DEF V
  <2> QED OBVIOUS
<1>5. <<>> \in V
  OBVIOUS
<1> HIDE DEF V, step
<1>r. PICK f : Recurs(f, Threads, V, <<>>, step)
  BY <1>1, <1>3, <1>5, BoundedRecursion
<1>6. f \in [0 .. Threads -> V] /\ f = [n \in 0 .. Threads |-> IF n = 0 THEN <<>> ELSE step[<<n, f[n - 1]>>]]
  BY <1>r DEF Recurs
<1>7. f = [n \in 0 .. Threads |-> IF n = 0 THEN <<>> ELSE f[n - 1] \o found[n - 1]]
  <2>1. ASSUME NEW n \in 0 .. Threads, n # 0 PROVE step[<<n, f[n - 1]>>] = f[n - 1] \o found[n - 1]
    <3>1. n \in 1 .. Threads /\ n - 1 \in 0 .. Threads
      BY <1>1, <2>1
    <3> QED BY <1>4, <1>6, <3>1
  <2> QED BY <1>6, <2>1
<1> QED BY <1>7 DEF PartsOf

\* If each thread has put away its hits, their parts together have every hit once.
LEMMA PartsOnce ==
  ASSUME NEW plot \in Plots, NEW list, \A t \in Workers : HitsTo(plot, list, found[t], t, ChunkLen(t))
  PROVE  OnceEach(PartsOf[Threads], Wanted2(plot, list))
<1> DEFINE E == Wanted2(plot, list)
           B(n) == HitsBetween(plot, list, 0, EndOfChunks(n))
           S == {n \in Nat : n <= Threads => OnceEach(PartsOf[n], B(n))}
<1>1. Threads \in Nat \ {0} /\ NumXs \in Nat
  BY SolverAssumption, TurnAssumption
<1>2. \A e \in E : e.x \in Nat /\ e.x < NumXs
  <2>1. \A e \in E : e.x \in Xs
    BY CandidateHash DEF Wanted2, GoodX2
  <2> HIDE DEF E
  <2> QED BY <1>1, <2>1 DEF Xs
<1>3. \A t \in Workers : found[t] \in Seq(Candidate)
  BY DEF HitsTo
<1>4. PartsOf = [n \in 0 .. Threads |-> IF n = 0 THEN <<>> ELSE PartsOf[n - 1] \o found[n - 1]]
  BY <1>3, PartsAre
<1> HIDE DEF E
<1>5. 0 \in S
  <2>1. B(0) = {}
    <3>1. EndOfChunks(0) = 0
      BY <1>1, Chunks DEF EndOfChunks
    <3>2. \A e \in E : ~ (e.x < 0)
      BY <1>2
    <3> QED BY <3>1, <3>2 DEF HitsBetween, E
  <2>2. PartsOf[0] = <<>>
    BY <1>1, <1>4
  <2>3. OnceEach(<<>>, {})
    BY DEF OnceEach
  <2> QED BY <2>1, <2>2, <2>3
<1>6. ASSUME NEW n \in Nat, n \in S PROVE n + 1 \in S
  <2>1. SUFFICES ASSUME n + 1 <= Threads PROVE OnceEach(PartsOf[n + 1], B(n + 1))
    OBVIOUS
  <2>2. n \in Workers /\ n <= Threads /\ n + 1 \in 0 .. Threads /\ n + 1 # 0 /\ (n + 1) - 1 = n
    BY <1>1, <2>1 DEF Workers
  <2>3. PartsOf[n + 1] = PartsOf[n] \o found[n]
    BY <1>4, <2>2
  <2>4. OnceEach(PartsOf[n], B(n))
    BY <1>6, <2>2
  <2> DEFINE C == HitsBetween(plot, list, EndOfChunks(n), EndOfChunks(n + 1))
  <2>5. OnceEach(found[n], C)
    <3>1. OnceEach(found[n], HitsBetween(plot, list, n * ChunkSize, (n * ChunkSize) + ChunkLen(n)))
      BY <2>2, HitsOnce
    <3>2. EndOfChunks(n) = n * ChunkSize /\ EndOfChunks(n + 1) = (n * ChunkSize) + ChunkLen(n)
      BY <2>2, ChunksJoin
    <3> QED BY <3>1, <3>2
  <2> DEFINE a == EndOfChunks(n)
             b == EndOfChunks(n + 1)
  <2>6. a \in Nat /\ b \in Nat /\ a <= b
    BY <2>2, ChunksJoin
  <2> HIDE DEF a, b
  <2>7. \A e \in E : (0 <= e.x /\ e.x < a) \/ (a <= e.x /\ e.x < b) <=> 0 <= e.x /\ e.x < b
    BY <1>2, <2>6
  <2>8. \A e \in E : ~ ((0 <= e.x /\ e.x < a) /\ (a <= e.x /\ e.x < b))
    BY <1>2, <2>6
  <2>9. B(n) \cap C = {} /\ B(n) \cup C = B(n + 1)
    BY <2>7, <2>8, Zenon DEF HitsBetween, a, b, E
  <2> HIDE DEF B, C
  <2>10. OnceEach(PartsOf[n] \o found[n], B(n) \cup C)
    BY <2>4, <2>5, <2>9, OnceJoined
  <2> QED BY <2>3, <2>9, <2>10
<1>7. \A n \in Nat : n \in S
  <2> HIDE DEF S
  <2> QED BY <1>5, <1>6, Inductive
<1>8. OnceEach(PartsOf[Threads], B(Threads))
  BY <1>1, <1>7
<1>9. B(Threads) = E
  <2>1. EndOfChunks(Threads) = NumXs
    BY DEF EndOfChunks
  <2>2. \A e \in E : 0 <= e.x /\ e.x < NumXs
    BY <1>2
  <2> QED BY <2>1, <2>2 DEF HitsBetween, E
<1> QED BY <1>8, <1>9 DEF E

-----------------------------------------------------------------------------
(* Shares                                                                  *)

\* More shared out, and no less to each place.
LEMMA QuotientGrows ==
  ASSUME NEW a \in Nat, NEW b \in Nat, a <= b, NEW d \in Nat \ {0}
  PROVE  a \div d \in Nat /\ b \div d \in Nat /\ a \div d <= b \div d
<1> DEFINE p == a \div d
           q == b \div d
<1>1. p \in Nat /\ a % d \in 0 .. d - 1 /\ a = (d * p) + (a % d)
  BY Quotient
<1>2. q \in Nat /\ b % d \in 0 .. d - 1 /\ b = (d * q) + (b % d)
  BY Quotient
<1> HIDE DEF p, q
<1>3. p <= q
  <2>1. SUFFICES ASSUME q < p PROVE FALSE
    BY <1>1, <1>2
  <2>2. PICK c \in Nat : p = q + 1 + c
    <3>1. p - (q + 1) \in Nat /\ p = q + 1 + (p - (q + 1))
      BY <1>1, <1>2, <2>1
    <3> QED BY <3>1
  <2>3. d * p = (d * q) + d + (d * c) /\ d * q \in Nat /\ d * c \in Nat
    BY <1>2, <2>2
  <2> QED BY <1>1, <1>2, <2>3
<1> QED BY <1>1, <1>2, <1>3 DEF p, q

\* The threads' shares begin at 0, follow each other and end at the total.
LEMMA SharesMeet ==
  ASSUME NEW total \in Nat
  PROVE  /\ ShareOf(total, 0).at = 0 /\ ShareOf(total, Threads - 1).end = total
         /\ \A w \in Workers : ShareOf(total, w).at <= ShareOf(total, w).end
         /\ \A v, w \in Workers : v < w => ShareOf(total, v).end <= ShareOf(total, w).at
         /\ \A w \in Workers : w + 1 \in Workers => ShareOf(total, w + 1).at = ShareOf(total, w).end
<1> DEFINE D(k) == (total * k) \div Threads
<1>1. Threads \in Nat \ {0}
  BY SolverAssumption
<1>2. \A w \in Workers : w \in Nat /\ w + 1 \in Nat /\ w < Threads
  BY <1>1 DEF Workers
<1>3. ASSUME NEW j \in Nat, NEW k \in Nat, j <= k PROVE D(j) \in Nat /\ D(k) \in Nat /\ D(j) <= D(k)
  <2> DEFINE a == total * j
             b == total * k
  <2>1. a \in Nat /\ b \in Nat /\ a <= b
    <3>1. PICK d \in Nat : k = j + d
      <4>1. k - j \in Nat /\ k = j + (k - j)
        BY <1>3
      <4> QED BY <4>1
    <3>2. total * (j + d) = (total * j) + (total * d) /\ total * j \in Nat /\ total * d \in Nat
      OBVIOUS
    <3> QED BY <3>1, <3>2
  <2> HIDE DEF a, b
  <2>2. a \div Threads \in Nat /\ b \div Threads \in Nat /\ a \div Threads <= b \div Threads
    BY <1>1, <2>1, QuotientGrows
  <2> QED BY <2>2 DEF a, b
<1>4. D(0) = 0
  BY <1>1
<1>5. D(Threads) = total
  <2>1. total * Threads = (Threads * total) + 0 /\ total * Threads \in Nat /\ 0 \in 0 .. Threads - 1
    BY <1>1
  <2> QED BY <1>1, <2>1, OneQuotient
<1>6. \A k : ShareOf(total, k).at = D(k) /\ ShareOf(total, k).end = D(k + 1)
  BY DEF ShareOf
<1> HIDE DEF D
<1>7. Threads - 1 + 1 = Threads /\ 0 + 1 = 1
  BY <1>1
<1>8. \A w \in Workers : D(w) <= D(w + 1)
  BY <1>2, <1>3
<1>9. \A v, w \in Workers : v < w => D(v + 1) <= D(w)
  BY <1>2, <1>3
<1> QED BY <1>4, <1>5, <1>6, <1>7, <1>8, <1>9

\* So every number below the total is in the share of exactly one thread.
LEMMA SharesPartition ==
  ASSUME NEW total \in Nat, NEW n \in 0 .. total - 1
  PROVE  /\ \E w \in Workers : ShareOf(total, w).at <= n /\ n < ShareOf(total, w).end
         /\ \A v, w \in Workers : /\ ShareOf(total, v).at <= n /\ n < ShareOf(total, v).end
                                  /\ ShareOf(total, w).at <= n /\ n < ShareOf(total, w).end
                                  => v = w
<1>1. Threads \in Nat \ {0} /\ n \in Nat /\ n < total
  BY SolverAssumption
<1>2. /\ ShareOf(total, 0).at = 0 /\ ShareOf(total, Threads - 1).end = total
      /\ \A v, w \in Workers : v < w => ShareOf(total, v).end <= ShareOf(total, w).at
      /\ \A w \in Workers : w + 1 \in Workers => ShareOf(total, w + 1).at = ShareOf(total, w).end
  BY SharesMeet
<1>3. \A w \in Workers : ShareOf(total, w).at \in Nat /\ ShareOf(total, w).end \in Nat
  BY ShareIn
<1>4. \E w \in Workers : ShareOf(total, w).at <= n /\ n < ShareOf(total, w).end
  <2> DEFINE U == {w \in Workers : n < ShareOf(total, w).end}
             m == Min(U)
  <2>1. U \subseteq Nat /\ Threads - 1 \in U
    BY <1>1, <1>2 DEF Workers
  <2>2. m \in U /\ \A y \in U : m <= y
    <3> HIDE DEF U
    <3> QED BY <2>1, MinNat
  <2>3. m \in Workers /\ n < ShareOf(total, m).end
    BY <2>2
  <2>4. m = 0 \/ (m - 1 \in Workers /\ (m - 1) + 1 = m)
    BY <1>1, <2>3 DEF Workers
  <2>5. ShareOf(total, m).at <= n
    <3>1. CASE m = 0
      BY <1>1, <1>2, <3>1
    <3>2. CASE m # 0
      <4>1. m - 1 \in Workers /\ (m - 1) + 1 = m
        BY <2>4, <3>2
      <4>2. m - 1 \notin U
        <5>1. m \in Nat /\ ~ (m <= m - 1)
          BY <2>1, <2>2
        <5> QED BY <2>2, <5>1
      <4>3. ~ (n < ShareOf(total, m - 1).end)
        BY <4>1, <4>2
      <4>4. ShareOf(total, m).at = ShareOf(total, m - 1).end
        BY <1>2, <2>3, <4>1
      <4> QED BY <1>1, <1>3, <4>1, <4>3, <4>4
    <3> QED BY <3>1, <3>2
  <2> HIDE DEF m, U
  <2> QED BY <2>3, <2>5
<1>5. ASSUME NEW v \in Workers, NEW w \in Workers,
             ShareOf(total, v).at <= n, n < ShareOf(total, v).end,
             ShareOf(total, w).at <= n, n < ShareOf(total, w).end, v < w
      PROVE  FALSE
  BY <1>1, <1>2, <1>3, <1>5
<1>6. \A v, w \in Workers : v < w \/ w < v \/ v = w
  BY <1>1 DEF Workers
<1> QED BY <1>4, <1>5, <1>6

-----------------------------------------------------------------------------
(* The join of two sorted lists, section by section                        *)

\* The hashes of a section are between its bound and the next one's.
SectionAt(list, a) == SectionOf(HashAt(list, a))
Divides(list, b) ==
  /\ \A s \in Sections : b[s] \in 0 .. Len(list)
  /\ \A s \in Sections : \A a \in 0 .. Len(list) - 1 : a < b[s] <=> SectionAt(list, a) < s

\* Two entries that are to be a match.
Pairing(plot, l1, l2, a, c) ==
  /\ a \in 0 .. Len(l1) - 1 /\ c \in 0 .. Len(l2) - 1 /\ HashAt(l1, a) = HashAt(l2, c)
  /\ Passes(plot, 1, <<l1[a + 1].x, l2[c + 1].x>>)

Busy == {"scan", "run", "store"}

\* The thread with a share of the sections is past two entries.
IsDone(l2, share, me, a, c) ==
  /\ share.at <= SectionAt(l2, c)
  /\ \/ SectionAt(l2, c) < me.section
     \/ /\ SectionAt(l2, c) = me.section /\ me.at \in Busy
        /\ c < me.j \/ (me.at # "scan" /\ c = me.j /\ a < me.ti)

\* What comes before i in list 1 is below everything from j on.
Behind(l1, l2, b1, b2, s, i, j) ==
  \A a \in b1[s] .. i - 1 : \A c \in j .. BoundEnd(b2, l2, s) - 1 :
    a < BoundEnd(b1, l1, s) => HashAt(l1, a) < HashAt(l2, c)

\* Where a thread is in its share.
InShare(share, me) ==
  /\ me.section >= share.at /\ me.section <= share.end
  /\ me.at = "done" => me.section = share.end
  /\ me.at \in Busy => me.section < share.end

\* And in its section.
InBounds(l1, l2, b1, b2, me) ==
  /\ me.at \in Busy => /\ b1[me.section] <= me.i /\ b2[me.section] <= me.j
                       /\ Behind(l1, l2, b1, b2, me.section, me.i, me.j)
  /\ me.at \in {"run", "store"} =>
       /\ me.i < BoundEnd(b1, l1, me.section) /\ me.j < BoundEnd(b2, l2, me.section)
       /\ me.i <= me.ti /\ HashAt(l1, me.i) = HashAt(l2, me.j)

\* A slot has the x values of two entries.
Has(m, l1, l2, a, c) == m.x1 = l1[a + 1].x /\ m.x2 = l2[c + 1].x

\* A sorted list of candidates.
Listed(list) == list \in Seq(Candidate) /\ InHashOrder(list)

\* Its hashes and their sections, which grow.
LEMMA ListedAt ==
  ASSUME NEW list, Listed(list)
  PROVE  /\ Len(list) \in Nat
         /\ \A a \in 0 .. Len(list) - 1 :
              HashAt(list, a) \in Xs /\ HashAt(list, a) \in Nat /\ SectionAt(list, a) \in 0 .. 3
         /\ \A a, c \in 0 .. Len(list) - 1 :
              a <= c => HashAt(list, a) <= HashAt(list, c) /\ SectionAt(list, a) <= SectionAt(list, c)
<1> DEFINE n == Len(list)
           h(a) == HashAt(list, a)
           S == SectionSize
<1>1. list \in Seq(Candidate) /\ n \in Nat /\ \A i \in 1 .. n : list[i] \in Candidate
  BY DEF Listed
<1>2. \A p, q \in 1 .. n : p <= q => list[p].hash <= list[q].hash
  BY DEF Listed, InHashOrder
<1> HIDE DEF n
<1>3. ASSUME NEW a \in 0 .. n - 1
      PROVE  h(a) \in Xs /\ h(a) \in Nat /\ SectionAt(list, a) \in 0 .. 3
  <2>1. a + 1 \in 1 .. n
    BY <1>1
  <2>2. h(a) \in Xs /\ h(a) \in Nat
    BY <1>1, <2>1, CandidateHash DEF HashAt
  <2>3. SectionOf(h(a)) \in Sections
    BY <2>2, InfoMade
  <2> QED BY <2>2, <2>3 DEF SectionAt, Sections
<1>4. ASSUME NEW a \in 0 .. n - 1, NEW c \in 0 .. n - 1, a <= c
      PROVE  h(a) <= h(c) /\ SectionAt(list, a) <= SectionAt(list, c)
  <2>1. a + 1 \in 1 .. n /\ c + 1 \in 1 .. n /\ a + 1 <= c + 1
    BY <1>1, <1>4
  <2>2. h(a) <= h(c)
    BY <1>2, <2>1 DEF HashAt
  <2>3. h(a) \in Nat /\ h(c) \in Nat
    BY <1>3
  <2>4. S \in Nat \ {0}
    <3>1. 1 \in 1 .. 3
      OBVIOUS
    <3> QED BY <3>1, Sizes
  <2> HIDE DEF h, S
  <2>5. h(a) \div S <= h(c) \div S
    BY <2>2, <2>3, <2>4, QuotientGrows
  <2> QED BY <2>2, <2>5 DEF h, S, SectionAt, SectionOf
<1> QED BY <1>1, <1>3, <1>4 DEF n

\* A set of numbers that has with each of them all below it.
LEMMA Beginning ==
  ASSUME NEW n \in Nat, NEW S \in SUBSET (1 .. n), \A p, q \in 1 .. n : q \in S /\ p <= q => p \in S
  PROVE  Cardinality(S) \in 0 .. n /\ S = 1 .. Cardinality(S)
<1>1. CASE S = {}
  <2>1. Cardinality(S) = 0
    BY <1>1, FS_EmptySet
  <2> QED BY <1>1, <2>1
<1>2. CASE S # {}
  <2> DEFINE m == Max(S)
  <2>1. m \in S /\ \A y \in S : y <= m
    <3>1. S \subseteq Nat /\ \A x \in S : x <= n
      OBVIOUS
    <3> QED BY <1>2, <3>1, MaxNat
  <2> HIDE DEF m
  <2>2. m \in 1 .. n
    BY <2>1
  <2>3. S = 1 .. m
    <3>1. ASSUME NEW p \in 1 .. m PROVE p \in S
      <4>1. p \in 1 .. n /\ p <= m
        BY <2>2
      <4> QED BY <2>1, <2>2, <4>1
    <3>2. ASSUME NEW p \in S PROVE p \in 1 .. m
      BY <2>1, <2>2
    <3> QED BY <3>1, <3>2
  <2>4. Cardinality(1 .. m) = m
    <3>1. m \in Nat
      BY <2>2
    <3> QED BY <3>1, FS_Interval
  <2> QED BY <2>2, <2>3, <2>4
<1> QED BY <1>1, <1>2

\* The bounds that count what is before each section divide a sorted list.
LEMMA Divided ==
  ASSUME NEW list, Listed(list), NEW b,
         \A s \in Sections : b[s] = Cardinality({i \in DOMAIN list : SectionOf(list[i].hash) < s})
  PROVE  Divides(list, b)
<1> DEFINE n == Len(list)
<1>1. n \in Nat /\ DOMAIN list = 1 .. n
  BY DEF Listed
<1>2. \A a \in 0 .. n - 1 : SectionAt(list, a) \in 0 .. 3
  BY ListedAt
<1>3. \A a, c \in 0 .. n - 1 : a <= c => SectionAt(list, a) <= SectionAt(list, c)
  BY ListedAt
<1> HIDE DEF n
<1>4. ASSUME NEW s \in Sections
      PROVE  b[s] \in 0 .. n /\ \A a \in 0 .. n - 1 : a < b[s] <=> SectionAt(list, a) < s
  <2> DEFINE U == {i \in 1 .. n : SectionOf(list[i].hash) < s}
             m == Cardinality(U)
  <2>1. b[s] = m
    BY <1>1
  <2>2. \A i \in 1 .. n : i \in U <=> SectionAt(list, i - 1) < s
    <3>1. ASSUME NEW i \in 1 .. n PROVE i \in U <=> SectionAt(list, i - 1) < s
      <4>1. (i - 1) + 1 = i
        BY <1>1
      <4> QED BY <4>1 DEF SectionAt, HashAt
    <3> QED BY <3>1
  <2>3. U \in SUBSET (1 .. n)
    OBVIOUS
  <2> HIDE DEF U
  <2>4. ASSUME NEW p \in 1 .. n, NEW q \in 1 .. n, q \in U, p <= q PROVE p \in U
    <3>1. p - 1 \in 0 .. n - 1 /\ q - 1 \in 0 .. n - 1 /\ p - 1 <= q - 1
      BY <1>1, <2>4
    <3> DEFINE u == SectionAt(list, p - 1)
               v == SectionAt(list, q - 1)
    <3>2. u <= v /\ u \in 0 .. 3 /\ v \in 0 .. 3 /\ v < s
      BY <1>2, <1>3, <2>2, <2>4, <3>1
    <3> HIDE DEF u, v
    <3>3. s \in Nat
      BY DEF Sections
    <3>4. u < s
      BY <3>2, <3>3
    <3> QED BY <2>2, <3>4 DEF u
  <2>5. m \in 0 .. n /\ U = 1 .. m
    BY <1>1, <2>3, <2>4, Beginning
  <2> HIDE DEF m
  <2>6. ASSUME NEW a \in 0 .. n - 1 PROVE a < m <=> SectionAt(list, a) < s
    <3>1. a + 1 \in 1 .. n /\ (a + 1) - 1 = a
      BY <1>1
    <3>2. a + 1 \in U <=> SectionAt(list, a) < s
      BY <2>2, <3>1
    <3>3. a + 1 \in U <=> a < m
      BY <1>1, <2>5, <3>1
    <3> QED BY <3>2, <3>3
  <2> QED BY <2>1, <2>5, <2>6
<1> QED BY <1>4 DEF Divides, n

\* Two lists, each with the bounds of its sections.
Joinable(l1, l2, b1, b2) == Listed(l1) /\ Listed(l2) /\ Divides(l1, b1) /\ Divides(l2, b2)

\* A section goes from its bound to the next one's.
LEMMA SectionIs ==
  ASSUME NEW list, Listed(list), NEW b, Divides(list, b), NEW s \in 0 .. 3
  PROVE  /\ b[s] \in 0 .. Len(list) /\ BoundEnd(b, list, s) \in 0 .. Len(list) /\ Len(list) \in Nat
         /\ \A a \in 0 .. Len(list) - 1 : SectionAt(list, a) = s <=> b[s] <= a /\ a < BoundEnd(b, list, s)
<1> DEFINE n == Len(list)
           e == BoundEnd(b, list, s)
<1>1. n \in Nat /\ \A a \in 0 .. n - 1 : SectionAt(list, a) \in 0 .. 3
  BY ListedAt
<1>2. s \in Sections /\ (s # 3 => s + 1 \in Sections)
  BY DEF Sections
<1>3. b[s] \in 0 .. n /\ \A a \in 0 .. n - 1 : a < b[s] <=> SectionAt(list, a) < s
  BY <1>2 DEF Divides
<1>4. e \in 0 .. n /\ \A a \in 0 .. n - 1 : a < e <=> SectionAt(list, a) <= s
  <2>1. CASE s = 3
    <3>1. e = n
      BY <2>1 DEF BoundEnd
    <3> HIDE DEF n, e
    <3> QED BY <1>1, <2>1, <3>1
  <2>2. CASE s # 3
    <3>1. e = b[s + 1]
      BY <2>2 DEF BoundEnd
    <3>2. b[s + 1] \in 0 .. n /\ \A a \in 0 .. n - 1 : a < b[s + 1] <=> SectionAt(list, a) < s + 1
      BY <1>2, <2>2 DEF Divides
    <3> HIDE DEF n, e
    <3> QED BY <1>1, <3>1, <3>2
  <2> QED BY <2>1, <2>2
<1> HIDE DEF n, e
<1>5. ASSUME NEW a \in 0 .. n - 1 PROVE SectionAt(list, a) = s <=> b[s] <= a /\ a < e
  <2> DEFINE t == SectionAt(list, a)
             f == b[s]
  <2>1. t \in 0 .. 3 /\ f \in 0 .. n /\ (a < f <=> t < s) /\ (a < e <=> t <= s)
    BY <1>1, <1>3, <1>4
  <2> HIDE DEF t, f
  <2>2. t = s <=> f <= a /\ a < e
    BY <1>1, <1>4, <2>1
  <2> QED BY <2>2 DEF t, f
<1> QED BY <1>1, <1>3, <1>4, <1>5 DEF n, e

-----------------------------------------------------------------------------
(* The steps of a thread in that join                                      *)

\* The thread is as far as it was with the pairs.
SamePairs(plot, l1, l2, share, me, you) ==
  \A a, c : Pairing(plot, l1, l2, a, c) => (IsDone(l2, share, you, a, c) <=> IsDone(l2, share, me, a, c))

Moved(plot, l1, l2, b1, b2, share, me, you) ==
  InShare(share, you) /\ InBounds(l1, l2, b1, b2, you) /\ SamePairs(plot, l1, l2, share, me, you)

\* A thread with a share of the sections, somewhere in it.
Stands(l1, l2, b1, b2, share, me) ==
  /\ Joinable(l1, l2, b1, b2) /\ share.at \in 0 .. 4 /\ share.end \in 0 .. 4
  /\ me \in WorkerState /\ InShare(share, me) /\ InBounds(l1, l2, b1, b2, me)

\* What a state of a thread is made of.
LEMMA FieldsOf ==
  ASSUME NEW me \in WorkerState
  PROVE  /\ me.section \in 0 .. 4 /\ me.i \in Nat /\ me.j \in Nat /\ me.ti \in Nat /\ me.slot \in Nat
         /\ me.at \in {"enter", "scan", "run", "store", "done"}
BY DEF WorkerState

\* The entries of a pair are in the same section of their lists.
PairAt(l1, l2, b1, b2, s, a, c) ==
  /\ a \in 0 .. Len(l1) - 1 /\ c \in 0 .. Len(l2) - 1
  /\ b1[s] <= a /\ a < BoundEnd(b1, l1, s) /\ b2[s] <= c /\ c < BoundEnd(b2, l2, s)

\* The section of a pair of entries, which is that of both.
LEMMA PairingAt ==
  ASSUME NEW plot, NEW l1, NEW l2, NEW b1, NEW b2, Joinable(l1, l2, b1, b2),
         NEW a, NEW c, Pairing(plot, l1, l2, a, c)
  PROVE  /\ SectionAt(l2, c) \in 0 .. 3 /\ PairAt(l1, l2, b1, b2, SectionAt(l2, c), a, c)
         /\ HashAt(l1, a) = HashAt(l2, c) /\ HashAt(l2, c) \in Nat
<1> DEFINE s == SectionAt(l2, c)
<1>1. a \in 0 .. Len(l1) - 1 /\ c \in 0 .. Len(l2) - 1 /\ HashAt(l1, a) = HashAt(l2, c)
  BY DEF Pairing
<1>2. s \in 0 .. 3 /\ HashAt(l2, c) \in Nat
  BY <1>1, ListedAt DEF Joinable
<1>3. SectionAt(l1, a) = s
  BY <1>1 DEF SectionAt
<1> HIDE DEF s
<1>4. b1[s] <= a /\ a < BoundEnd(b1, l1, s)
  BY <1>1, <1>2, <1>3, SectionIs DEF Joinable
<1>5. b2[s] <= c /\ c < BoundEnd(b2, l2, s)
  <2>1. SectionAt(l2, c) = s
    BY DEF s
  <2> QED BY <1>1, <1>2, <2>1, SectionIs DEF Joinable
<1> QED BY <1>1, <1>2, <1>4, <1>5 DEF PairAt, s

\* A section begins, or the share is done.
LEMMA EnterMoves ==
  ASSUME NEW plot, NEW l1, NEW l2, NEW b1, NEW b2, NEW share, NEW me, NEW you,
         Stands(l1, l2, b1, b2, share, me), me.at = "enter", you.section = me.section,
         \/ /\ me.section < share.end /\ you.at = "scan"
            /\ you.i = b1[me.section] /\ you.j = b2[me.section]
         \/ ~ (me.section < share.end) /\ you.at = "done"
  PROVE  Moved(plot, l1, l2, b1, b2, share, me, you)
<1> DEFINE s == me.section
<1>1. s \in 0 .. 4 /\ share.at \in 0 .. 4 /\ share.end \in 0 .. 4 /\ share.at <= s /\ s <= share.end
  BY FieldsOf DEF Stands, InShare
<1>2. Joinable(l1, l2, b1, b2)
  BY DEF Stands
<1>3. CASE me.section < share.end /\ you.at = "scan" /\ you.i = b1[me.section] /\ you.j = b2[me.section]
  <2>1. s \in 0 .. 3
    BY <1>1, <1>3
  <2>2. /\ b1[s] \in 0 .. Len(l1) /\ b2[s] \in 0 .. Len(l2)
        /\ Len(l1) \in Nat /\ Len(l2) \in Nat
    BY <1>2, <2>1, SectionIs DEF Joinable
  <2>3. InShare(share, you)
    BY <1>1, <1>3 DEF InShare
  <2>4. Behind(l1, l2, b1, b2, s, you.i, you.j)
    <3>1. b1[s] .. you.i - 1 = {}
      BY <1>3, <2>2
    <3> QED BY <3>1 DEF Behind
  <2>5. InBounds(l1, l2, b1, b2, you)
    BY <1>3, <2>2, <2>4 DEF InBounds
  <2>6. ASSUME NEW a, NEW c, Pairing(plot, l1, l2, a, c)
        PROVE  IsDone(l2, share, you, a, c) <=> IsDone(l2, share, me, a, c)
    <3> DEFINE t == SectionAt(l2, c)
    <3>1. t \in 0 .. 3 /\ PairAt(l1, l2, b1, b2, t, a, c)
      BY <1>2, <2>6, PairingAt
    <3>2. c \in Nat /\ b2[t] <= c
      BY <3>1 DEF PairAt
    <3>3. IsDone(l2, share, me, a, c) <=> share.at <= t /\ t < s
      BY DEF IsDone, Busy
    <3>4. IsDone(l2, share, you, a, c) <=> share.at <= t /\ (t < s \/ (t = s /\ c < b2[s]))
      BY <1>3 DEF IsDone, Busy
    <3> HIDE DEF t, s
    <3>5. ~ (t = s /\ c < b2[s])
      <4> DEFINE f == b2[s]
      <4>1. f \in Nat /\ (t = s => f <= c)
        BY <2>2, <3>2
      <4> HIDE DEF f
      <4>2. ~ (t = s /\ c < f)
        BY <3>2, <4>1
      <4> QED BY <4>2 DEF f
    <3> QED BY <3>3, <3>4, <3>5
  <2> QED BY <2>3, <2>5, <2>6 DEF Moved, SamePairs
<1>4. CASE ~ (me.section < share.end) /\ you.at = "done"
  <2>1. s = share.end
    BY <1>1, <1>4
  <2>2. InShare(share, you)
    BY <1>1, <1>4, <2>1 DEF InShare, Busy
  <2>3. InBounds(l1, l2, b1, b2, you)
    BY <1>4 DEF InBounds, Busy
  <2>4. ASSUME NEW a, NEW c
        PROVE  IsDone(l2, share, you, a, c) <=> IsDone(l2, share, me, a, c)
    BY <1>4 DEF IsDone, Busy
  <2> QED BY <2>2, <2>3, <2>4 DEF Moved, SamePairs
<1> QED BY <1>3, <1>4

\* The bounds of the section a thread is in.
LEMMA BusyAt ==
  ASSUME NEW l1, NEW l2, NEW b1, NEW b2, NEW share, NEW me, Stands(l1, l2, b1, b2, share, me), me.at \in Busy
  PROVE  /\ me.section \in 0 .. 3 /\ me.i \in Nat /\ me.j \in Nat /\ me.ti \in Nat
         /\ b1[me.section] \in 0 .. Len(l1) /\ BoundEnd(b1, l1, me.section) \in 0 .. Len(l1) /\ Len(l1) \in Nat
         /\ b2[me.section] \in 0 .. Len(l2) /\ BoundEnd(b2, l2, me.section) \in 0 .. Len(l2) /\ Len(l2) \in Nat
         /\ b1[me.section] <= me.i /\ b2[me.section] <= me.j
         /\ Behind(l1, l2, b1, b2, me.section, me.i, me.j)
         /\ share.at <= me.section /\ me.section + 1 <= share.end /\ share.at \in 0 .. 4 /\ share.end \in 0 .. 4
<1> DEFINE s == me.section
<1>1. s \in 0 .. 4 /\ me.i \in Nat /\ me.j \in Nat /\ me.ti \in Nat
  BY FieldsOf DEF Stands
<1>2. share.at \in 0 .. 4 /\ share.end \in 0 .. 4 /\ share.at <= s /\ s < share.end
  BY DEF Stands, InShare
<1>3. b1[s] <= me.i /\ b2[s] <= me.j /\ Behind(l1, l2, b1, b2, s, me.i, me.j)
  BY DEF Stands, InBounds
<1> HIDE DEF s
<1>4. s \in 0 .. 3 /\ s + 1 <= share.end
  BY <1>1, <1>2
<1>5. /\ b1[s] \in 0 .. Len(l1) /\ BoundEnd(b1, l1, s) \in 0 .. Len(l1) /\ Len(l1) \in Nat
      /\ b2[s] \in 0 .. Len(l2) /\ BoundEnd(b2, l2, s) \in 0 .. Len(l2) /\ Len(l2) \in Nat
  BY <1>4, SectionIs DEF Stands, Joinable
<1> QED BY <1>1, <1>2, <1>3, <1>4, <1>5 DEF s

\* An entry behind the thread has no pair from j on.
LEMMA BehindPairs ==
  ASSUME NEW plot, NEW l1, NEW l2, NEW b1, NEW b2, Joinable(l1, l2, b1, b2), NEW i \in Nat, NEW j \in Nat,
         NEW a, NEW c, Pairing(plot, l1, l2, a, c), Behind(l1, l2, b1, b2, SectionAt(l2, c), i, j), j <= c
  PROVE  i <= a
<1> DEFINE s == SectionAt(l2, c)
           f1 == b1[s]
           e1 == BoundEnd(b1, l1, s)
           f2 == b2[s]
           e2 == BoundEnd(b2, l2, s)
<1>1. s \in 0 .. 3 /\ PairAt(l1, l2, b1, b2, s, a, c) /\ HashAt(l1, a) = HashAt(l2, c) /\ HashAt(l2, c) \in Nat
  BY PairingAt
<1>2. a \in Nat /\ c \in Nat /\ f1 <= a /\ a < e1 /\ f2 <= c /\ c < e2
  BY <1>1 DEF PairAt
<1>3. f1 \in Nat /\ e1 \in Nat /\ f2 \in Nat /\ e2 \in Nat
  <2>1. Listed(l1) /\ Divides(l1, b1) /\ Listed(l2) /\ Divides(l2, b2)
    BY DEF Joinable
  <2> HIDE DEF s
  <2>2. f1 \in 0 .. Len(l1) /\ e1 \in 0 .. Len(l1)
    BY <1>1, <2>1, SectionIs
  <2>3. f2 \in 0 .. Len(l2) /\ e2 \in 0 .. Len(l2)
    BY <1>1, <2>1, SectionIs
  <2> QED BY <2>2, <2>3
<1>4. \A x \in f1 .. i - 1 : \A y \in j .. e2 - 1 : x < e1 => HashAt(l1, x) < HashAt(l2, y)
  BY DEF Behind
<1> HIDE DEF f1, e1, f2, e2
<1>5. ASSUME a < i PROVE FALSE
  <2>1. a \in f1 .. i - 1 /\ c \in j .. e2 - 1
    BY <1>2, <1>3, <1>5
  <2>2. HashAt(l1, a) < HashAt(l2, c)
    BY <1>2, <1>4, <2>1
  <2> QED BY <1>1, <2>2
<1> QED BY <1>2, <1>5

\* Both lists of a section are left when one of them is at its end.
LEMMA SectionEndMoves ==
  ASSUME NEW plot, NEW l1, NEW l2, NEW b1, NEW b2, NEW share, NEW me, NEW you,
         Stands(l1, l2, b1, b2, share, me), me.at = "scan",
         me.i >= BoundEnd(b1, l1, me.section) \/ me.j >= BoundEnd(b2, l2, me.section),
         you.section = me.section + 1, you.at = "enter"
  PROVE  Moved(plot, l1, l2, b1, b2, share, me, you)
<1> DEFINE s == me.section
           i == me.i
           j == me.j
           e1 == BoundEnd(b1, l1, s)
           e2 == BoundEnd(b2, l2, s)
<1>1. me.at \in Busy /\ Joinable(l1, l2, b1, b2)
  BY DEF Busy, Stands
<1>2. /\ s \in 0 .. 3 /\ i \in Nat /\ j \in Nat /\ e1 \in Nat /\ e2 \in Nat
      /\ Behind(l1, l2, b1, b2, s, i, j)
      /\ share.at <= s /\ s + 1 <= share.end /\ share.at \in 0 .. 4 /\ share.end \in 0 .. 4
  BY <1>1, BusyAt
<1>3. i >= e1 \/ j >= e2
  OBVIOUS
<1>4. you.section = s + 1
  OBVIOUS
<1>5. InShare(share, you) /\ InBounds(l1, l2, b1, b2, you)
  <2>1. InBounds(l1, l2, b1, b2, you)
    BY DEF InBounds, Busy
  <2> HIDE DEF s
  <2>2. you.section >= share.at /\ you.section <= share.end
    BY <1>2, <1>4
  <2> QED BY <2>1, <2>2 DEF InShare, Busy
<1>6. ASSUME NEW a, NEW c, Pairing(plot, l1, l2, a, c)
      PROVE  IsDone(l2, share, you, a, c) <=> IsDone(l2, share, me, a, c)
  <2> DEFINE t == SectionAt(l2, c)
  <2>1. t \in 0 .. 3 /\ PairAt(l1, l2, b1, b2, t, a, c)
    BY <1>1, <1>6, PairingAt
  <2>2. IsDone(l2, share, me, a, c) <=> share.at <= t /\ (t < s \/ (t = s /\ c < j))
    BY DEF IsDone, Busy
  <2>3. IsDone(l2, share, you, a, c) <=> share.at <= t /\ t < s + 1
    BY <1>4 DEF IsDone, Busy
  <2>4. a \in Nat /\ c \in Nat /\ (t = s => a < e1 /\ c < e2)
    BY <2>1 DEF PairAt
  <2>5. t = s /\ j <= c => i <= a
    BY <1>1, <1>2, <1>6, BehindPairs
  <2> HIDE DEF t, s, i, j, e1, e2
  <2>6. t = s => c < j
    BY <1>2, <1>3, <2>4, <2>5
  <2>7. t < s + 1 <=> t < s \/ t = s
    BY <1>2, <2>1
  <2> QED BY <2>2, <2>3, <2>6, <2>7
<1> QED BY <1>5, <1>6 DEF Moved, SamePairs

\* The hashes at i and at j, while neither list of the section is at its end.
LEMMA HashesAt ==
  ASSUME NEW l1, NEW l2, NEW b1, NEW b2, Joinable(l1, l2, b1, b2), NEW s \in 0 .. 3, NEW i \in Nat, NEW j \in Nat,
         i < BoundEnd(b1, l1, s), j < BoundEnd(b2, l2, s)
  PROVE  /\ i \in 0 .. Len(l1) - 1 /\ HashAt(l1, i) \in Nat
         /\ j \in 0 .. Len(l2) - 1 /\ HashAt(l2, j) \in Nat
<1>1. Listed(l1) /\ Divides(l1, b1) /\ Listed(l2) /\ Divides(l2, b2)
  BY DEF Joinable
<1>2. BoundEnd(b1, l1, s) \in 0 .. Len(l1) /\ Len(l1) \in Nat
  BY <1>1, SectionIs
<1>3. BoundEnd(b2, l2, s) \in 0 .. Len(l2) /\ Len(l2) \in Nat
  BY <1>1, SectionIs
<1>4. i \in 0 .. Len(l1) - 1
  BY <1>2
<1>5. j \in 0 .. Len(l2) - 1
  BY <1>3
<1> QED BY <1>1, <1>4, <1>5, ListedAt

\* A hash of the second list that is above that at i has no pair from i on.
LEMMA AheadPairs ==
  ASSUME NEW plot, NEW l1, NEW l2, NEW b1, NEW b2, Joinable(l1, l2, b1, b2),
         NEW i \in 0 .. Len(l1) - 1, NEW a, NEW c, Pairing(plot, l1, l2, a, c), HashAt(l2, c) < HashAt(l1, i)
  PROVE  a < i
<1>1. a \in 0 .. Len(l1) - 1 /\ HashAt(l1, a) = HashAt(l2, c)
  BY DEF Pairing
<1>2. HashAt(l1, a) \in Nat /\ HashAt(l1, i) \in Nat /\ (i <= a => HashAt(l1, i) <= HashAt(l1, a))
  BY <1>1, ListedAt DEF Joinable
<1> QED BY <1>1, <1>2

\* A run of equal hashes begins.
LEMMA RunBegins ==
  ASSUME NEW plot, NEW l1, NEW l2, NEW b1, NEW b2, NEW share, NEW me, NEW you,
         Stands(l1, l2, b1, b2, share, me), me.at = "scan",
         me.i < BoundEnd(b1, l1, me.section), me.j < BoundEnd(b2, l2, me.section),
         HashAt(l1, me.i) = HashAt(l2, me.j),
         you.section = me.section, you.i = me.i, you.j = me.j, you.ti = me.i, you.at = "run"
  PROVE  Moved(plot, l1, l2, b1, b2, share, me, you)
<1> DEFINE s == me.section
           i == me.i
           j == me.j
<1>1. me.at \in Busy /\ Joinable(l1, l2, b1, b2)
  BY DEF Busy, Stands
<1>2. /\ s \in 0 .. 3 /\ i \in Nat /\ j \in Nat /\ b1[s] <= i /\ b2[s] <= j
      /\ Behind(l1, l2, b1, b2, s, i, j)
      /\ share.at <= s /\ s + 1 <= share.end /\ share.at \in 0 .. 4 /\ share.end \in 0 .. 4
  BY <1>1, BusyAt
<1>3. InShare(share, you)
  <2>1. you.section = s
    OBVIOUS
  <2> HIDE DEF s
  <2>2. s >= share.at /\ s <= share.end /\ s < share.end
    BY <1>2
  <2> QED BY <2>1, <2>2 DEF InShare
<1>4. InBounds(l1, l2, b1, b2, you)
  <2>1. you.i <= you.ti
    BY <1>2
  <2> QED BY <1>2, <2>1 DEF InBounds
<1>6. ASSUME NEW a, NEW c, Pairing(plot, l1, l2, a, c)
      PROVE  IsDone(l2, share, you, a, c) <=> IsDone(l2, share, me, a, c)
  <2> DEFINE t == SectionAt(l2, c)
  <2>1. t \in 0 .. 3 /\ PairAt(l1, l2, b1, b2, t, a, c)
    BY <1>1, <1>6, PairingAt
  <2>2. IsDone(l2, share, me, a, c) <=> share.at <= t /\ (t < s \/ (t = s /\ c < j))
    BY DEF IsDone, Busy
  <2>3. IsDone(l2, share, you, a, c) <=> share.at <= t /\ (t < s \/ (t = s /\ (c < j \/ (c = j /\ a < i))))
    BY DEF IsDone, Busy
  <2>4. a \in Nat /\ c \in Nat
    BY <2>1 DEF PairAt
  <2>5. t = s /\ j <= c => i <= a
    BY <1>1, <1>2, <1>6, BehindPairs
  <2> HIDE DEF t, s, i, j
  <2>6. ~ (t = s /\ c = j /\ a < i)
    BY <1>2, <2>4, <2>5
  <2> QED BY <2>2, <2>3, <2>6
<1> QED BY <1>3, <1>4, <1>6 DEF Moved, SamePairs

\* A hash of the first list that is below that of the second is passed.
LEMMA FirstMoves ==
  ASSUME NEW plot, NEW l1, NEW l2, NEW b1, NEW b2, NEW share, NEW me, NEW you,
         Stands(l1, l2, b1, b2, share, me), me.at = "scan",
         me.i < BoundEnd(b1, l1, me.section), me.j < BoundEnd(b2, l2, me.section),
         HashAt(l1, me.i) < HashAt(l2, me.j),
         you.section = me.section, you.i = me.i + 1, you.j = me.j, you.at = "scan"
  PROVE  Moved(plot, l1, l2, b1, b2, share, me, you)
<1> DEFINE s == me.section
           i == me.i
           j == me.j
           f1 == b1[s]
           f2 == b2[s]
           e1 == BoundEnd(b1, l1, s)
           e2 == BoundEnd(b2, l2, s)
<1>1. me.at \in Busy /\ Joinable(l1, l2, b1, b2)
  BY DEF Busy, Stands
<1>2. /\ s \in 0 .. 3 /\ i \in Nat /\ j \in Nat /\ f1 <= i /\ f2 <= j
      /\ Behind(l1, l2, b1, b2, s, i, j)
      /\ share.at <= s /\ s + 1 <= share.end /\ share.at \in 0 .. 4 /\ share.end \in 0 .. 4
  BY <1>1, BusyAt
<1>3. /\ f1 \in 0 .. Len(l1) /\ e1 \in 0 .. Len(l1) /\ Len(l1) \in Nat
      /\ f2 \in 0 .. Len(l2) /\ e2 \in 0 .. Len(l2) /\ Len(l2) \in Nat
  BY <1>1, BusyAt
<1>4. i < e1 /\ j < e2 /\ HashAt(l1, i) < HashAt(l2, j)
  OBVIOUS
<1>5. /\ i \in 0 .. Len(l1) - 1 /\ HashAt(l1, i) \in Nat
      /\ j \in 0 .. Len(l2) - 1 /\ HashAt(l2, j) \in Nat
  <2> HIDE DEF s, i, j
  <2> QED BY <1>1, <1>2, <1>4, HashesAt DEF e1, e2
<1>6. InShare(share, you)
  <2>1. you.section = s
    OBVIOUS
  <2> HIDE DEF s
  <2>2. s >= share.at /\ s <= share.end /\ s < share.end
    BY <1>2
  <2> QED BY <2>1, <2>2 DEF InShare
<1>7. Behind(l1, l2, b1, b2, s, i + 1, j)
  <2>1. \A x \in f1 .. i - 1 : \A y \in j .. e2 - 1 : x < e1 => HashAt(l1, x) < HashAt(l2, y)
    BY <1>2 DEF Behind
  <2>2. ASSUME NEW x \in f1 .. (i + 1) - 1, NEW y \in j .. e2 - 1, x < e1
        PROVE  HashAt(l1, x) < HashAt(l2, y)
    <3>1. CASE x = i
      <4>1. y \in 0 .. Len(l2) - 1 /\ j <= y
        <5> HIDE DEF i, j, f1, e2, s
        <5> QED BY <1>2, <1>3
      <4>2. HashAt(l2, j) <= HashAt(l2, y) /\ HashAt(l2, y) \in Nat
        BY <1>1, <1>5, <4>1, ListedAt DEF Joinable
      <4> DEFINE p == HashAt(l1, i)
                 q == HashAt(l2, j)
                 r == HashAt(l2, y)
      <4>3. p \in Nat /\ q \in Nat /\ r \in Nat /\ p < q /\ q <= r
        BY <1>4, <1>5, <4>2
      <4> HIDE DEF p, q, r
      <4>4. p < r
        BY <4>3
      <4> QED BY <3>1, <4>4 DEF p, r
    <3>2. CASE x # i
      <4>1. x \in f1 .. i - 1
        <5> HIDE DEF i, j, f1, e2, s
        <5> QED BY <1>2, <1>3, <3>2
      <4> QED BY <2>1, <2>2, <4>1
    <3> QED BY <3>1, <3>2
  <2> QED BY <2>2 DEF Behind
<1>8. InBounds(l1, l2, b1, b2, you)
  <2>1. b1[s] <= i + 1
    <3> HIDE DEF i, f1, s
    <3>1. f1 <= i + 1
      BY <1>2, <1>3
    <3> QED BY <3>1 DEF f1
  <2> QED BY <1>2, <1>7, <2>1 DEF InBounds
<1>9. ASSUME NEW a, NEW c
      PROVE  IsDone(l2, share, you, a, c) <=> IsDone(l2, share, me, a, c)
  BY DEF IsDone, Busy
<1> QED BY <1>6, <1>8, <1>9 DEF Moved, SamePairs

\* Less of the second list is still to come.
LEMMA BehindFewer ==
  ASSUME NEW l1, NEW l2, NEW b1, NEW b2, NEW s, NEW i \in Nat, NEW j \in Nat, Behind(l1, l2, b1, b2, s, i, j)
  PROVE  Behind(l1, l2, b1, b2, s, i, j + 1)
<1>1. \A x \in b1[s] .. i - 1 : \A y \in j .. BoundEnd(b2, l2, s) - 1 :
        x < BoundEnd(b1, l1, s) => HashAt(l1, x) < HashAt(l2, y)
  BY DEF Behind
<1> DEFINE e2 == BoundEnd(b2, l2, s)
<1>2. \A y \in (j + 1) .. e2 - 1 : y \in j .. e2 - 1
  <2> HIDE DEF e2
  <2> QED OBVIOUS
<1> HIDE DEF e2
<1>3. \A x \in b1[s] .. i - 1 : \A y \in (j + 1) .. e2 - 1 :
        x < BoundEnd(b1, l1, s) => HashAt(l1, x) < HashAt(l2, y)
  BY <1>1, <1>2 DEF e2
<1> QED BY <1>3 DEF Behind, e2

\* The thread goes on in the second list, when nothing from i on pairs at j.
LEMMA SecondMoves ==
  ASSUME NEW plot, NEW l1, NEW l2, NEW b1, NEW b2, NEW share, NEW me, NEW you,
         Stands(l1, l2, b1, b2, share, me), me.at \in {"scan", "run"},
         \A a : Pairing(plot, l1, l2, a, me.j) /\ SectionAt(l2, me.j) = me.section /\ me.i <= a
                  => me.at = "run" /\ a < me.ti,
         you.section = me.section, you.i = me.i, you.j = me.j + 1, you.at = "scan"
  PROVE  Moved(plot, l1, l2, b1, b2, share, me, you)
<1> DEFINE s == me.section
           i == me.i
           j == me.j
           ti == me.ti
           run == me.at = "run"
<1>1. me.at \in Busy /\ Joinable(l1, l2, b1, b2)
  BY DEF Busy, Stands
<1>2. /\ s \in 0 .. 3 /\ i \in Nat /\ j \in Nat /\ ti \in Nat /\ b1[s] <= i /\ b2[s] <= j /\ b2[s] \in 0 .. Len(l2)
      /\ Len(l2) \in Nat
      /\ Behind(l1, l2, b1, b2, s, i, j)
      /\ share.at <= s /\ s + 1 <= share.end /\ share.at \in 0 .. 4 /\ share.end \in 0 .. 4
  BY <1>1, BusyAt
<1>3. \A a : Pairing(plot, l1, l2, a, j) /\ SectionAt(l2, j) = s /\ i <= a => run /\ a < ti
  OBVIOUS
<1>4. InShare(share, you)
  <2>1. you.section = s
    OBVIOUS
  <2> HIDE DEF s
  <2>2. s >= share.at /\ s <= share.end /\ s < share.end
    BY <1>2
  <2> QED BY <2>1, <2>2 DEF InShare
<1>5. InBounds(l1, l2, b1, b2, you)
  <2>1. Behind(l1, l2, b1, b2, s, i, j + 1)
    <3> HIDE DEF s, i, j
    <3> QED BY <1>2, BehindFewer
  <2>2. b2[s] <= j + 1
    <3> DEFINE f == b2[s]
    <3>1. f <= j /\ f \in Nat /\ j \in Nat
      BY <1>2
    <3> HIDE DEF f, j
    <3>2. f <= j + 1
      BY <3>1
    <3> QED BY <3>2 DEF f
  <2> QED BY <1>2, <2>1, <2>2 DEF InBounds
<1>6. ASSUME NEW a, NEW c, Pairing(plot, l1, l2, a, c)
      PROVE  IsDone(l2, share, you, a, c) <=> IsDone(l2, share, me, a, c)
  <2> DEFINE t == SectionAt(l2, c)
  <2>1. t \in 0 .. 3 /\ PairAt(l1, l2, b1, b2, t, a, c)
    BY <1>1, <1>6, PairingAt
  <2>2. IsDone(l2, share, me, a, c) <=> share.at <= t /\ (t < s \/ (t = s /\ (c < j \/ (run /\ c = j /\ a < ti))))
    BY DEF IsDone, Busy
  <2>3. IsDone(l2, share, you, a, c) <=> share.at <= t /\ (t < s \/ (t = s /\ c < j + 1))
    BY DEF IsDone, Busy
  <2>4. a \in Nat /\ c \in Nat
    BY <2>1 DEF PairAt
  <2>5. t = s /\ j <= c => i <= a
    BY <1>1, <1>2, <1>6, BehindPairs
  <2>6. c = j /\ t = s /\ i <= a => run /\ a < ti
    BY <1>3, <1>6
  <2> HIDE DEF t, s, i, j, ti, run
  <2>7. t = s => (c < j + 1 <=> c < j \/ (run /\ c = j /\ a < ti))
    BY <1>2, <2>4, <2>5, <2>6
  <2> QED BY <2>2, <2>3, <2>7
<1> QED BY <1>4, <1>5, <1>6 DEF Moved, SamePairs

\* A hash of the second list that is below that of the first is passed.
LEMMA SmallerMoves ==
  ASSUME NEW plot, NEW l1, NEW l2, NEW b1, NEW b2, NEW share, NEW me, NEW you,
         Stands(l1, l2, b1, b2, share, me), me.at = "scan",
         me.i < BoundEnd(b1, l1, me.section), me.j < BoundEnd(b2, l2, me.section),
         HashAt(l1, me.i) > HashAt(l2, me.j),
         you.section = me.section, you.i = me.i, you.j = me.j + 1, you.at = "scan"
  PROVE  Moved(plot, l1, l2, b1, b2, share, me, you)
<1> DEFINE s == me.section
           i == me.i
           j == me.j
<1>1. me.at \in Busy /\ Joinable(l1, l2, b1, b2)
  BY DEF Busy, Stands
<1>2. s \in 0 .. 3 /\ i \in Nat /\ j \in Nat
  BY <1>1, BusyAt
<1>3. i \in 0 .. Len(l1) - 1 /\ HashAt(l1, i) \in Nat /\ HashAt(l2, j) \in Nat
  <2>1. i < BoundEnd(b1, l1, s) /\ j < BoundEnd(b2, l2, s)
    OBVIOUS
  <2> HIDE DEF s, i, j
  <2> QED BY <1>1, <1>2, <2>1, HashesAt
<1>4. HashAt(l2, j) < HashAt(l1, i)
  BY <1>3
<1>5. ASSUME NEW a, Pairing(plot, l1, l2, a, j), i <= a PROVE FALSE
  <2>1. a < i
    BY <1>1, <1>3, <1>4, <1>5, AheadPairs
  <2>2. a \in Nat
    BY <1>5 DEF Pairing
  <2> QED BY <1>2, <1>5, <2>1, <2>2
<1> QED BY <1>5, SecondMoves

\* A run ends where the hash changes or the section does.
LEMMA RunEndMoves ==
  ASSUME NEW plot, NEW l1, NEW l2, NEW b1, NEW b2, NEW share, NEW me, NEW you,
         Stands(l1, l2, b1, b2, share, me), me.at = "run",
         me.ti < BoundEnd(b1, l1, me.section) => HashAt(l1, me.ti) # HashAt(l2, me.j),
         you.section = me.section, you.i = me.i, you.j = me.j + 1, you.at = "scan"
  PROVE  Moved(plot, l1, l2, b1, b2, share, me, you)
<1> DEFINE s == me.section
           i == me.i
           j == me.j
           ti == me.ti
           e1 == BoundEnd(b1, l1, s)
<1>1. me.at \in Busy /\ Joinable(l1, l2, b1, b2)
  BY DEF Busy, Stands
<1>2. s \in 0 .. 3 /\ i \in Nat /\ j \in Nat /\ ti \in Nat /\ e1 \in 0 .. Len(l1) /\ Len(l1) \in Nat
  BY <1>1, BusyAt
<1>3. i < e1 /\ j < BoundEnd(b2, l2, s) /\ i <= ti /\ HashAt(l1, i) = HashAt(l2, j)
  BY DEF Stands, InBounds
<1>4. i \in 0 .. Len(l1) - 1 /\ HashAt(l1, i) \in Nat /\ HashAt(l2, j) \in Nat
  <2> HIDE DEF s, i, j
  <2> QED BY <1>1, <1>2, <1>3, HashesAt DEF e1
<1>5. ti < e1 => HashAt(l1, ti) # HashAt(l2, j)
  OBVIOUS
<1>6. ASSUME NEW a, Pairing(plot, l1, l2, a, j), SectionAt(l2, j) = s, i <= a PROVE a < ti
  <2>1. PairAt(l1, l2, b1, b2, s, a, j)
    BY <1>1, <1>6, PairingAt
  <2>2. a \in Nat /\ a < e1
    BY <2>1 DEF PairAt
  <2>3. ASSUME ti <= a PROVE FALSE
    <3>1. ti < e1 /\ ti \in 0 .. Len(l1) - 1
      <4> HIDE DEF s, i, j, ti, e1
      <4> QED BY <1>2, <2>2, <2>3
    <3>2. HashAt(l1, i) <= HashAt(l1, ti) /\ HashAt(l1, ti) \in Nat
      BY <1>1, <1>3, <1>4, <3>1, ListedAt DEF Joinable
    <3> DEFINE p == HashAt(l1, ti)
               q == HashAt(l2, j)
    <3>3. q <= p /\ p # q /\ p \in Nat /\ q \in Nat
      BY <1>3, <1>4, <1>5, <3>1, <3>2
    <3> HIDE DEF p, q
    <3>4. q < p
      BY <3>3
    <3>5. HashAt(l2, j) < HashAt(l1, ti)
      BY <3>4 DEF p, q
    <3>6. a < ti
      <4> HIDE DEF ti, j
      <4> QED BY <1>1, <1>6, <3>1, <3>5, AheadPairs
    <3> QED BY <1>2, <2>2, <2>3, <3>6
  <2> HIDE DEF ti
  <2> QED BY <1>2, <2>2, <2>3
<1> QED BY <1>6, SecondMoves

\* The thread goes on in a run: the pair it was at is the only one that it is
\* past now and was not before.
LEMMA RunMoves ==
  ASSUME NEW plot, NEW l1, NEW l2, NEW b1, NEW b2, NEW share, NEW me, NEW you,
         Stands(l1, l2, b1, b2, share, me), me.at \in {"run", "store"},
         you.section = me.section, you.i = me.i, you.j = me.j, you.ti = me.ti + 1, you.at = "run"
  PROVE  /\ InShare(share, you) /\ InBounds(l1, l2, b1, b2, you)
         /\ \A a, c : Pairing(plot, l1, l2, a, c) =>
              /\ IsDone(l2, share, you, a, c) <=> IsDone(l2, share, me, a, c) \/ (a = me.ti /\ c = me.j)
              /\ a = me.ti /\ c = me.j => ~ IsDone(l2, share, me, a, c)
<1> DEFINE s == me.section
           i == me.i
           j == me.j
           ti == me.ti
<1>1. me.at \in Busy /\ Joinable(l1, l2, b1, b2)
  BY DEF Busy, Stands
<1>2. /\ s \in 0 .. 3 /\ i \in Nat /\ j \in Nat /\ ti \in Nat /\ b1[s] <= i /\ b2[s] <= j
      /\ Behind(l1, l2, b1, b2, s, i, j) /\ Len(l2) \in Nat /\ BoundEnd(b2, l2, s) \in 0 .. Len(l2)
      /\ share.at <= s /\ s + 1 <= share.end /\ share.at \in 0 .. 4 /\ share.end \in 0 .. 4
  BY <1>1, BusyAt
<1>3. i < BoundEnd(b1, l1, s) /\ j < BoundEnd(b2, l2, s) /\ i <= ti /\ HashAt(l1, i) = HashAt(l2, j)
  BY DEF Stands, InBounds
<1>4. InShare(share, you)
  <2>1. you.section = s
    OBVIOUS
  <2> HIDE DEF s
  <2>2. s >= share.at /\ s <= share.end /\ s < share.end
    BY <1>2
  <2> QED BY <2>1, <2>2 DEF InShare
<1>5. InBounds(l1, l2, b1, b2, you)
  <2>1. i <= ti + 1
    BY <1>2, <1>3
  <2> QED BY <1>2, <1>3, <2>1 DEF InBounds
<1>6. SectionAt(l2, j) = s
  <2>1. j \in 0 .. Len(l2) - 1
    <3> HIDE DEF j, s
    <3> QED BY <1>2, <1>3
  <2> HIDE DEF s, j
  <2>2. \A c \in 0 .. Len(l2) - 1 : SectionAt(l2, c) = s <=> b2[s] <= c /\ c < BoundEnd(b2, l2, s)
    BY <1>1, <1>2, SectionIs DEF Joinable
  <2> QED BY <1>2, <1>3, <2>1, <2>2
<1>7. ASSUME NEW a, NEW c, Pairing(plot, l1, l2, a, c)
      PROVE  /\ IsDone(l2, share, you, a, c) <=> IsDone(l2, share, me, a, c) \/ (a = ti /\ c = j)
             /\ a = ti /\ c = j => ~ IsDone(l2, share, me, a, c)
  <2> DEFINE t == SectionAt(l2, c)
  <2>1. t \in 0 .. 3 /\ PairAt(l1, l2, b1, b2, t, a, c)
    BY <1>1, <1>7, PairingAt
  <2>2. IsDone(l2, share, me, a, c) <=> share.at <= t /\ (t < s \/ (t = s /\ (c < j \/ (c = j /\ a < ti))))
    BY DEF IsDone, Busy
  <2>3. IsDone(l2, share, you, a, c) <=> share.at <= t /\ (t < s \/ (t = s /\ (c < j \/ (c = j /\ a < ti + 1))))
    BY DEF IsDone, Busy
  <2>4. a \in Nat /\ c \in Nat
    BY <2>1 DEF PairAt
  <2>5. c = j => t = s
    BY <1>6
  <2> HIDE DEF t, s, i, j, ti
  <2>6. a < ti + 1 <=> a < ti \/ a = ti
    BY <1>2, <2>4
  <2>7. t = s => share.at <= t /\ ~ (t < s)
    BY <1>2
  <2>8. c = j => ~ (c < j)
    BY <1>2
  <2>9. a = ti => ~ (a < ti)
    BY <1>2
  <2> QED BY <2>2, <2>3, <2>5, <2>6, <2>7, <2>8, <2>9
<1> QED BY <1>4, <1>5, <1>7

-----------------------------------------------------------------------------
(* The join of all threads                                                 *)

\* Every pair the thread w is past has a slot; every slot has a pair some
\* thread is past; and no two have the same pair.
Complete(plot, l1, l2, m, w, me) ==
  \A a, c : Pairing(plot, l1, l2, a, c) /\ IsDone(l2, ShareOf(4, w), me, a, c)
              => \E s \in DOMAIN m : Has(m[s], l1, l2, a, c)
FromPair(plot, l1, l2, wk, slot) ==
  \E w, a, c : /\ w \in Workers /\ Pairing(plot, l1, l2, a, c)
               /\ IsDone(l2, ShareOf(4, w), wk[w], a, c) /\ Has(slot, l1, l2, a, c)
Apart(m) == \A r, s \in DOMAIN m : m[r].x1 = m[s].x1 /\ m[r].x2 = m[s].x2 => r = s

MergeOK(plot, l1, l2, b1, b2, wk, m) ==
  /\ \A w \in Workers :
       InShare(ShareOf(4, w), wk[w]) /\ InBounds(l1, l2, b1, b2, wk[w]) /\ Complete(plot, l1, l2, m, w, wk[w])
  /\ \A s \in DOMAIN m : FromPair(plot, l1, l2, wk, m[s])
  /\ Apart(m)

\* A thread is past a pair of one of its own sections only.
LEMMA DoneIn ==
  ASSUME NEW l1, NEW l2, NEW b1, NEW b2, NEW share, NEW me, Stands(l1, l2, b1, b2, share, me),
         NEW a, NEW c, SectionAt(l2, c) \in 0 .. 3, IsDone(l2, share, me, a, c)
  PROVE  share.at <= SectionAt(l2, c) /\ SectionAt(l2, c) < share.end
<1> DEFINE t == SectionAt(l2, c)
           s == me.section
<1>1. s \in 0 .. 4 /\ share.end \in 0 .. 4
  BY FieldsOf DEF Stands
<1>2. s <= share.end /\ (me.at \in Busy => s < share.end)
  BY DEF Stands, InShare
<1>3. share.at <= t /\ (t < s \/ (t = s /\ me.at \in Busy))
  BY DEF IsDone
<1>4. t \in 0 .. 3
  OBVIOUS
<1> HIDE DEF t, s
<1>5. t < share.end
  BY <1>1, <1>2, <1>3, <1>4
<1> QED BY <1>3, <1>5 DEF t

\* A step of one thread that does not store.
LEMMA MergeStep ==
  ASSUME NEW plot, NEW l1, NEW l2, NEW b1, NEW b2, NEW wk, NEW m, MergeOK(plot, l1, l2, b1, b2, wk, m),
         NEW w \in Workers, NEW you, Moved(plot, l1, l2, b1, b2, ShareOf(4, w), wk[w], you),
         NEW after, after[w] = you, \A v \in Workers : v # w => after[v] = wk[v]
  PROVE  MergeOK(plot, l1, l2, b1, b2, after, m)
<1>1. /\ InShare(ShareOf(4, w), you) /\ InBounds(l1, l2, b1, b2, you)
      /\ \A a, c : Pairing(plot, l1, l2, a, c) =>
           (IsDone(l2, ShareOf(4, w), you, a, c) <=> IsDone(l2, ShareOf(4, w), wk[w], a, c))
  BY DEF Moved, SamePairs
<1>2. /\ \A v \in Workers :
           InShare(ShareOf(4, v), wk[v]) /\ InBounds(l1, l2, b1, b2, wk[v]) /\ Complete(plot, l1, l2, m, v, wk[v])
      /\ \A s \in DOMAIN m : FromPair(plot, l1, l2, wk, m[s])
      /\ Apart(m)
  BY DEF MergeOK
<1>3. ASSUME NEW v \in Workers
      PROVE  InShare(ShareOf(4, v), after[v]) /\ InBounds(l1, l2, b1, b2, after[v])
             /\ Complete(plot, l1, l2, m, v, after[v])
  <2>1. CASE v = w
    <3>1. Complete(plot, l1, l2, m, w, wk[w])
      BY <1>2
    <3>2. Complete(plot, l1, l2, m, w, you)
      BY <1>1, <3>1 DEF Complete
    <3> QED BY <1>1, <2>1, <3>2
  <2>2. CASE v # w
    BY <1>2, <2>2
  <2> QED BY <2>1, <2>2
<1>4. ASSUME NEW s \in DOMAIN m PROVE FromPair(plot, l1, l2, after, m[s])
  <2>1. FromPair(plot, l1, l2, wk, m[s])
    BY <1>2
  <2>2. PICK v, a, c :
          v \in Workers /\ Pairing(plot, l1, l2, a, c) /\ IsDone(l2, ShareOf(4, v), wk[v], a, c) /\ Has(m[s], l1, l2, a, c)
    BY <2>1 DEF FromPair
  <2>3. IsDone(l2, ShareOf(4, v), after[v], a, c)
    <3>1. CASE v = w
      BY <1>1, <2>2, <3>1
    <3>2. CASE v # w
      BY <2>2, <3>2
    <3> QED BY <3>1, <3>2
  <2> QED BY <2>2, <2>3 DEF FromPair
<1> QED BY <1>2, <1>3, <1>4 DEF MergeOK

\* No two pairs of entries have the same x values.
PairsApart(plot, l1, l2) ==
  \A a, c, e, g : Pairing(plot, l1, l2, a, c) /\ Pairing(plot, l1, l2, e, g)
                    /\ l1[a + 1].x = l1[e + 1].x /\ l2[c + 1].x = l2[g + 1].x => a = e /\ c = g

\* A thread goes on to the next x1 of a run.
NextOfRun(me, you) ==
  /\ you \in WorkerState /\ you.section = me.section /\ you.i = me.i /\ you.j = me.j /\ you.ti = me.ti + 1
  /\ you.at = "run"
\* It is the only one that moves.
OneMoves(wk, w, you, after) == after[w] = you /\ \A v \in Workers : v # w => after[v] = wk[v]
\* A new slot is stored.
OneMore(m, k, new, more) ==
  /\ k \notin DOMAIN m /\ DOMAIN more = DOMAIN m \cup {k} /\ more[k] = new
  /\ \A s \in DOMAIN m : more[s] = m[s]
\* Where all threads are.
AllStand(l1, l2, b1, b2, wk) == \A v \in Workers : Stands(l1, l2, b1, b2, ShareOf(4, v), wk[v])

\* A step of one thread that stores its pair in a new slot.
LEMMA MergeStore ==
  ASSUME NEW plot, NEW l1, NEW l2, NEW b1, NEW b2, NEW wk, NEW m, MergeOK(plot, l1, l2, b1, b2, wk, m),
         PairsApart(plot, l1, l2), AllStand(l1, l2, b1, b2, wk),
         NEW w \in Workers, wk[w].at = "store", Pairing(plot, l1, l2, wk[w].ti, wk[w].j),
         NEW you, NextOfRun(wk[w], you), NEW after, OneMoves(wk, w, you, after),
         NEW k, NEW new, Has(new, l1, l2, wk[w].ti, wk[w].j), NEW more, OneMore(m, k, new, more)
  PROVE  MergeOK(plot, l1, l2, b1, b2, after, more)
<1>p. \A v \in Workers : Stands(l1, l2, b1, b2, ShareOf(4, v), wk[v])
  BY DEF AllStand
<1>q. /\ you \in WorkerState /\ you.section = wk[w].section /\ you.i = wk[w].i /\ you.j = wk[w].j
      /\ you.ti = wk[w].ti + 1 /\ you.at = "run"
  BY DEF NextOfRun
<1>r. after[w] = you /\ \A v \in Workers : v # w => after[v] = wk[v]
  BY DEF OneMoves
<1>s. /\ k \notin DOMAIN m /\ DOMAIN more = DOMAIN m \cup {k} /\ more[k] = new
      /\ \A s \in DOMAIN m : more[s] = m[s]
  BY DEF OneMore
<1> USE <1>p, <1>q, <1>r, <1>s
<1> DEFINE me == wk[w]
           ti == me.ti
           j == me.j
           Share(v) == ShareOf(4, v)
<1>1. /\ InShare(Share(w), you) /\ InBounds(l1, l2, b1, b2, you)
      /\ \A a, c : Pairing(plot, l1, l2, a, c) =>
           /\ IsDone(l2, Share(w), you, a, c) <=> IsDone(l2, Share(w), me, a, c) \/ (a = ti /\ c = j)
           /\ a = ti /\ c = j => ~ IsDone(l2, Share(w), me, a, c)
  <2>1. me.at \in {"run", "store"} /\ Stands(l1, l2, b1, b2, Share(w), me)
    OBVIOUS
  <2>2. you.section = me.section /\ you.i = me.i /\ you.j = me.j /\ you.ti = me.ti + 1 /\ you.at = "run"
    OBVIOUS
  <2> HIDE DEF me, Share
  <2> QED BY <2>1, <2>2, RunMoves
<1>2. /\ \A v \in Workers :
           InShare(Share(v), wk[v]) /\ InBounds(l1, l2, b1, b2, wk[v]) /\ Complete(plot, l1, l2, m, v, wk[v])
      /\ \A s \in DOMAIN m : FromPair(plot, l1, l2, wk, m[s])
      /\ Apart(m)
  BY DEF MergeOK
<1>3. ASSUME NEW v \in Workers
      PROVE  InShare(Share(v), after[v]) /\ InBounds(l1, l2, b1, b2, after[v])
             /\ Complete(plot, l1, l2, more, v, after[v])
  <2>1. InShare(Share(v), after[v]) /\ InBounds(l1, l2, b1, b2, after[v])
    <3>1. CASE v = w
      BY <1>1, <3>1
    <3>2. CASE v # w
      BY <1>2, <3>2
    <3> QED BY <3>1, <3>2
  <2>2. ASSUME NEW a, NEW c, Pairing(plot, l1, l2, a, c), IsDone(l2, Share(v), after[v], a, c)
        PROVE  \E s \in DOMAIN more : Has(more[s], l1, l2, a, c)
    <3>1. CASE IsDone(l2, Share(v), wk[v], a, c)
      <4>1. Complete(plot, l1, l2, m, v, wk[v])
        BY <1>2
      <4>2. PICK s \in DOMAIN m : Has(m[s], l1, l2, a, c)
        BY <2>2, <3>1, <4>1 DEF Complete
      <4> QED BY <4>2
    <3>2. CASE ~ IsDone(l2, Share(v), wk[v], a, c)
      <4>1. v = w
        BY <2>2, <3>2
      <4>2. a = ti /\ c = j
        BY <1>1, <2>2, <3>2, <4>1
      <4>3. Has(more[k], l1, l2, a, c) /\ k \in DOMAIN more
        BY <4>2
      <4> QED BY <4>3
    <3> QED BY <3>1, <3>2
  <2>3. Complete(plot, l1, l2, more, v, after[v])
    BY <2>2 DEF Complete
  <2> QED BY <2>1, <2>3
<1>4. ASSUME NEW s \in DOMAIN more PROVE FromPair(plot, l1, l2, after, more[s])
  <2>1. CASE s \in DOMAIN m
    <3>1. FromPair(plot, l1, l2, wk, m[s])
      BY <1>2, <2>1
    <3>2. PICK v, a, c :
            v \in Workers /\ Pairing(plot, l1, l2, a, c) /\ IsDone(l2, Share(v), wk[v], a, c) /\ Has(m[s], l1, l2, a, c)
      BY <3>1 DEF FromPair
    <3>3. IsDone(l2, Share(v), after[v], a, c)
      <4>1. CASE v = w
        BY <1>1, <3>2, <4>1
      <4>2. CASE v # w
        BY <3>2, <4>2
      <4> QED BY <4>1, <4>2
    <3>4. FromPair(plot, l1, l2, after, m[s])
      BY <3>2, <3>3 DEF FromPair
    <3> QED BY <2>1, <3>4
  <2>2. CASE s = k
    <3>1. Pairing(plot, l1, l2, ti, j) /\ IsDone(l2, Share(w), after[w], ti, j) /\ Has(more[k], l1, l2, ti, j)
      BY <1>1
    <3>2. FromPair(plot, l1, l2, after, more[k])
      BY <3>1 DEF FromPair
    <3> QED BY <2>2, <3>2
  <2> QED BY <1>4, <2>1, <2>2
<1>5. ASSUME NEW s \in DOMAIN m, m[s].x1 = new.x1, m[s].x2 = new.x2 PROVE FALSE
  <2>1. FromPair(plot, l1, l2, wk, m[s])
    BY <1>2
  <2>2. PICK v, a, c :
          v \in Workers /\ Pairing(plot, l1, l2, a, c) /\ IsDone(l2, Share(v), wk[v], a, c) /\ Has(m[s], l1, l2, a, c)
    BY <2>1 DEF FromPair
  <2>3. a = ti /\ c = j
    <3>1. l1[a + 1].x = l1[ti + 1].x /\ l2[c + 1].x = l2[j + 1].x
      BY <1>5, <2>2 DEF Has
    <3>2. Pairing(plot, l1, l2, ti, j)
      OBVIOUS
    <3> HIDE DEF ti, j
    <3> QED BY <2>2, <3>1, <3>2 DEF PairsApart
  <2> DEFINE t == SectionAt(l2, j)
  <2>4. t \in 0 .. 3
    BY PairingAt DEF Stands
  <2>5. Share(v).at <= t /\ t < Share(v).end
    <3>1. Stands(l1, l2, b1, b2, Share(v), wk[v]) /\ IsDone(l2, Share(v), wk[v], ti, j)
      BY <2>2, <2>3
    <3> HIDE DEF ti, j, Share
    <3> QED BY <2>4, <3>1, DoneIn
  <2>6. Share(w).at <= t /\ t < Share(w).end
    <3>1. Stands(l1, l2, b1, b2, Share(w), you)
      BY <1>1 DEF Stands
    <3>2. IsDone(l2, Share(w), you, ti, j)
      BY <1>1
    <3> HIDE DEF ti, j, Share
    <3> QED BY <2>4, <3>1, <3>2, DoneIn
  <2>7. v = w
    <3>1. v \in Workers /\ w \in Workers
      BY <2>2
    <3> QED BY <2>4, <2>5, <2>6, <3>1, SharesPartition
  <2> QED BY <1>1, <2>2, <2>3, <2>7
<1>6. Apart(more)
  <2>1. ASSUME NEW r \in DOMAIN more, NEW s \in DOMAIN more, more[r].x1 = more[s].x1, more[r].x2 = more[s].x2
        PROVE  r = s
    <3>1. more[k].x1 = new.x1 /\ more[k].x2 = new.x2
      OBVIOUS
    <3>2. CASE r \in DOMAIN m /\ s \in DOMAIN m
      BY <1>2, <2>1, <3>2 DEF Apart
    <3>3. CASE r \in DOMAIN m /\ s = k
      BY <1>5, <2>1, <3>1, <3>3
    <3>4. CASE r = k /\ s \in DOMAIN m
      BY <1>5, <2>1, <3>1, <3>4
    <3> QED BY <2>1, <3>2, <3>3, <3>4
  <2> QED BY <2>1 DEF Apart
<1> QED BY <1>3, <1>4, <1>6 DEF MergeOK

-----------------------------------------------------------------------------
(* What makes the matching of table 1 complete                             *)

\* The lists of candidates have everything they should have.
ListsInv ==
  /\ phase = "hash" => \A t \in Workers : found[t] = Blank
  /\ phase \in {"filter", "match1"} => OnceEach(x1s, Wanted1(Plot, unique)) /\ InHashOrder(x1s)
  /\ phase = "filter" /\ ~ failed =>
       \A t \in Workers : found[t] # Blank => HitsTo(Plot, x1s, found[t], t, ChunkLen(t))
  /\ phase = "match1" => OnceEach(x2s, Wanted2(Plot, x1s)) /\ InHashOrder(x2s)

\* The threads of table 1 have stored the pairs they are past.
MergeInv == phase = "match1" => MergeOK(Plot, x1s, x2s, bounds.x1, bounds.x2, worker, t1)

\* The slots of table 1 are the wanted pairs.
PairIn(slot)  == <<slot.x1, slot.x2>>
SlotsAre ==
  /\ DOMAIN t1 = 0 .. taken - 1 /\ Apart(t1)
  /\ \A s \in DOMAIN t1 : PairIn(t1[s]) \in WantedPairs
  /\ \A p \in WantedPairs : \E s \in DOMAIN t1 : PairIn(t1[s]) = p
MatchedInv == phase \in Late => SlotsAre

CInv == ListsInv /\ MergeInv /\ MatchedInv

\* A search begins so.
LEMMA InitCInv ==
  ASSUME Init
  PROVE  CInv
BY DEF Init, CInv, ListsInv, MergeInv, MatchedInv, Late

\* The sorted list of x1 candidates is complete.
LEMMA HashX1CInv ==
  ASSUME IInv, CInv, HashX1
  PROVE  CInv'
<1> USE CallIs
<1> DEFINE list == [i \in 1 .. Len(unique') * HalfXs * MatchKeys[1] |-> X1Candidate(unique', i - 1)]
<1>1. /\ phase = "hash" /\ phase' = "filter" /\ unique' = UniqueOf(mapping)
      /\ x1s' = SortedByHash(list) /\ asked' = asked /\ found' = found
  BY DEF HashX1
<1>2. SameCall
  BY <1>1, CallStays
<1>3. mapping = XBits /\ XBits \in Seq(0 .. HalfXs - 1)
  BY <1>1 DEF MappingOK, BitsAre
<1>4. unique' \in Seq(0 .. HalfXs - 1) /\ \A g, h \in 1 .. Len(unique') : unique'[g] = unique'[h] => g = h
  <2>1. unique' \in Seq(0 .. HalfXs - 1)
    BY <1>1, <1>3, UniqueHasEach
  <2>2. OnceEach(unique', {mapping[i] : i \in 1 .. Len(mapping)})
    <3>1. mapping \in Seq(0 .. HalfXs - 1)
      BY <1>3
    <3>2. OnceEach(UniqueOf(mapping), {mapping[i] : i \in 1 .. Len(mapping)})
      BY <3>1, UniqueHasEach
    <3> QED BY <1>1, <3>2
  <2> QED BY <2>1, <2>2 DEF OnceEach
<1> DEFINE ranges == unique'
<1>5. OnceEach(list, Wanted1(Plot, ranges))
  <2>1. ranges \in Seq(0 .. HalfXs - 1) /\ \A g, h \in 1 .. Len(ranges) : ranges[g] = ranges[h] => g = h
    BY <1>4
  <2> HIDE DEF ranges
  <2> QED BY <2>1, X1ListOnce DEF ranges
<1>6. \A e \in Wanted1(Plot, ranges) : e.hash \in Nat
  BY CandidateHash DEF Wanted1, GoodX1
<1> HIDE DEF list
<1>7. OnceEach(x1s', Wanted1(Plot, unique')) /\ InHashOrder(x1s')
  BY <1>1, <1>5, <1>6, SortedOnce
<1>8. \A t \in Workers : found'[t] = Blank
  BY <1>1 DEF CInv, ListsInv
<1>9. ListsInv'
  BY <1>1, <1>2, <1>7, <1>8 DEF ListsInv, SameCall
<1> QED BY <1>1, <1>9 DEF CInv, MergeInv, MatchedInv, Late

\* A thread of filterX2Candidates whose part is not full has put away all its hits.
LEMMA FilterChunkCInv ==
  ASSUME IInv, CInv, NEW t \in Workers, FilterChunk(t)
  PROVE  CInv'
<1> USE CallIs
<1> DEFINE hits == HitsOf(t)
           part == SubSeq(hits, 1, Min({MaxPerThread, Len(hits)}))
<1>1. /\ phase = "filter" /\ phase' = "filter" /\ found' = [found EXCEPT ![t] = part]
      /\ failed' = (failed \/ Len(hits) >= MaxPerThread)
      /\ asked' = asked /\ unique' = unique /\ x1s' = x1s
  BY DEF FilterChunk
<1>2. SameCall
  BY <1>1, CallStays
<1>3. /\ OnceEach(x1s, Wanted1(Plot, unique)) /\ InHashOrder(x1s)
      /\ ~ failed => \A v \in Workers : found[v] # Blank => HitsTo(Plot, x1s, found[v], v, ChunkLen(v))
  BY <1>1 DEF CInv, ListsInv
<1>4. HitsTo(Plot, x1s, hits, t, ChunkLen(t))
  BY HitsFound
<1>5. ASSUME ~ failed' PROVE part = hits /\ ~ failed
  <2>1. hits \in Seq(GoodX2(Plot)) /\ MaxPerThread \in Nat
    BY HitsGood, SolverAssumption
  <2> HIDE DEF hits
  <2>2. Len(hits) < MaxPerThread /\ ~ failed
    <3>1. ~ failed /\ ~ (Len(hits) >= MaxPerThread)
      BY <1>1, <1>5, Zenon
    <3> DEFINE n == Len(hits)
    <3>2. n \in Nat /\ ~ (n >= MaxPerThread)
      BY <2>1, <3>1
    <3> HIDE DEF n
    <3>3. n < MaxPerThread
      BY <2>1, <3>2
    <3> QED BY <3>1, <3>3 DEF n
  <2> QED BY <2>1, <2>2, CutShort
<1>6. DOMAIN found = Workers
  BY DEF CandidatesOK
<1> HIDE DEF hits, part
<1>7. ASSUME ~ failed', NEW v \in Workers, found'[v] # Blank PROVE HitsTo(Plot, x1s, found'[v], v, ChunkLen(v))
  <2>1. CASE v = t
    BY <1>1, <1>4, <1>5, <1>6, <1>7, <2>1
  <2>2. CASE v # t
    <3>1. found'[v] = found[v]
      BY <1>1, <2>2
    <3> QED BY <1>3, <1>5, <1>7, <3>1
  <2> QED BY <2>1, <2>2
<1>8. ListsInv'
  BY <1>1, <1>2, <1>3, <1>7 DEF ListsInv, SameCall
<1> QED BY <1>1, <1>8 DEF CInv, MergeInv, MatchedInv, Late

\* Such a list is one that can be joined.
LEMMA OnceListed ==
  ASSUME NEW E, E \subseteq Candidate, NEW list, OnceEach(list, E), InHashOrder(list)
  PROVE  Listed(list)
<1>1. list \in Seq(E)
  BY DEF OnceEach
<1>2. list \in Seq(Candidate)
  BY <1>1
<1> QED BY <1>2 DEF Listed

\* Their parts together are complete, and no thread of table 1 is past anything.
LEMMA JoinFilterCInv ==
  ASSUME IInv, CInv, JoinFilter
  PROVE  CInv'
<1> USE CallIs
<1> DEFINE sorted == SortedByHash(PartsOf[Threads])
<1>1. /\ phase = "filter" /\ \A t \in Workers : found[t] # Blank
      /\ asked' = asked /\ unique' = unique /\ x1s' = x1s /\ t1' = t1 /\ taken' = taken
      /\ \/ phase' = "thrown"
         \/ /\ ~ failed /\ phase' = "match1" /\ x2s' = sorted
            /\ worker' = [w \in Workers |-> Idle(ShareOf(4, w).at)]
  BY DEF JoinFilter
<1>2. SameCall
  BY <1>1, CallStays
<1>3. CASE phase' = "thrown"
  BY <1>3 DEF CInv, ListsInv, MergeInv, MatchedInv, Late
<1>4. CASE /\ ~ failed /\ phase' = "match1" /\ x2s' = sorted
           /\ worker' = [w \in Workers |-> Idle(ShareOf(4, w).at)]
  <2>1. /\ OnceEach(x1s, Wanted1(Plot, unique)) /\ InHashOrder(x1s)
        /\ \A v \in Workers : HitsTo(Plot, x1s, found[v], v, ChunkLen(v))
    BY <1>1, <1>4 DEF CInv, ListsInv
  <2>2. OnceEach(PartsOf[Threads], Wanted2(Plot, x1s))
    BY <2>1, PartsOnce
  <2>3. \A e \in Wanted2(Plot, x1s) : e.hash \in Nat
    BY CandidateHash DEF Wanted2, GoodX2
  <2>4. OnceEach(sorted, Wanted2(Plot, x1s)) /\ InHashOrder(sorted)
    BY <2>2, <2>3, SortedOnce
  <2> HIDE DEF sorted
  <2>5. ListsInv'
    BY <1>1, <1>2, <1>4, <2>1, <2>4 DEF ListsInv, SameCall
  <2>6. DOMAIN t1 = {}
    <3>1. taken = 0
      BY <1>1 DEF IInv, CallOK
    <3>2. DOMAIN t1 \subseteq 0 .. taken - 1
      BY <1>1 DEF SlotsOK
    <3>3. 0 .. taken - 1 = {}
      BY <3>1
    <3> QED BY <3>2, <3>3
  <2>l. Listed(x1s) /\ Listed(sorted)
    <3>1. Wanted1(Plot, unique) \subseteq Candidate /\ Wanted2(Plot, x1s) \subseteq Candidate
      BY DEF Wanted1, GoodX1, Wanted2, GoodX2
    <3> QED BY <2>1, <2>4, <3>1, OnceListed
  <2>7. ASSUME NEW w \in Workers, NEW plot, NEW l1, NEW l2, NEW b1, NEW b2, Listed(l2)
        PROVE  /\ InShare(ShareOf(4, w), worker'[w]) /\ InBounds(l1, l2, b1, b2, worker'[w])
               /\ Complete(plot, l1, l2, t1, w, worker'[w])
    <3> DEFINE at == ShareOf(4, w).at
               end == ShareOf(4, w).end
               me == worker'[w]
    <3>1. at \in 0 .. 4 /\ end \in 0 .. 4 /\ at <= end
      <4>1. 4 \in Nat
        OBVIOUS
      <4> HIDE DEF at, end
      <4> QED BY <4>1, ShareIn, SharesMeet DEF at, end
    <3>2. me = Idle(at)
      BY <1>4
    <3>3. me.at = "enter" /\ me.section = at
      BY <3>1, <3>2, IdleIs
    <3> HIDE DEF me
    <3>4. InShare(ShareOf(4, w), me)
      <4>1. me.section >= at /\ me.section <= end
        <5> HIDE DEF at, end
        <5> QED BY <3>1, <3>3
      <4> QED BY <3>3, <4>1 DEF InShare, Busy
    <3>5. InBounds(l1, l2, b1, b2, me)
      BY <3>3 DEF InBounds, Busy
    <3>6. ASSUME NEW a, NEW c, Pairing(plot, l1, l2, a, c), IsDone(l2, ShareOf(4, w), me, a, c) PROVE FALSE
      <4>1. at <= SectionAt(l2, c) /\ SectionAt(l2, c) < at
        BY <3>3, <3>6 DEF IsDone, Busy
      <4> DEFINE t == SectionAt(l2, c)
      <4>2. t \in 0 .. 3
        <5>1. c \in 0 .. Len(l2) - 1
          BY <3>6 DEF Pairing
        <5>2. \A x \in 0 .. Len(l2) - 1 : SectionAt(l2, x) \in 0 .. 3
          BY <2>7, ListedAt
        <5> QED BY <5>1, <5>2
      <4>3. at <= t /\ t < at
        BY <4>1
      <4> HIDE DEF t, at
      <4> QED BY <3>1, <4>2, <4>3
    <3>7. Complete(plot, l1, l2, t1, w, me)
      BY <3>6 DEF Complete
    <3> QED BY <3>4, <3>5, <3>7 DEF me
  <2>8. MergeOK(Plot', x1s', x2s', bounds'.x1, bounds'.x2, worker', t1')
    <3>1. Apart(t1)
      BY <2>6 DEF Apart
    <3>2. \A w \in Workers :
            /\ InShare(ShareOf(4, w), worker'[w]) /\ InBounds(x1s', x2s', bounds'.x1, bounds'.x2, worker'[w])
            /\ Complete(Plot', x1s', x2s', t1, w, worker'[w])
      BY <1>4, <2>l, <2>7
    <3> QED BY <1>1, <2>6, <3>1, <3>2 DEF MergeOK
  <2> QED BY <1>4, <2>5, <2>8 DEF CInv, MergeInv, MatchedInv, Late
<1> QED BY <1>1, <1>3, <1>4

-----------------------------------------------------------------------------
(* The pairs of entries are the pairs the validator accepts                *)

\* The complete lists of candidates.
ListsFor(plot, ranges, l1, l2) ==
  OnceEach(l1, Wanted1(plot, ranges)) /\ OnceEach(l2, Wanted2(plot, l1))

\* The entries of a pair.
EntriesAre(plot, ranges, l1, l2, a, c) ==
  /\ a + 1 \in 1 .. Len(l1) /\ c + 1 \in 1 .. Len(l2) /\ a \in Nat /\ c \in Nat
  /\ l1[a + 1] \in Wanted1(plot, ranges) /\ l2[c + 1] \in GoodX2(plot)
  /\ l1[a + 1].hash = l2[c + 1].hash /\ Passes(plot, 1, <<l1[a + 1].x, l2[c + 1].x>>)

\* What a pair of entries of complete lists is made of.
LEMMA EntriesOf ==
  ASSUME NEW plot, NEW ranges, NEW l1, NEW l2, ListsFor(plot, ranges, l1, l2),
         NEW a, NEW c, Pairing(plot, l1, l2, a, c)
  PROVE  EntriesAre(plot, ranges, l1, l2, a, c)
<1>1. l1 \in Seq(Wanted1(plot, ranges)) /\ l2 \in Seq(Wanted2(plot, l1)) /\ Len(l1) \in Nat /\ Len(l2) \in Nat
  BY DEF ListsFor, OnceEach
<1>2. /\ a \in 0 .. Len(l1) - 1 /\ c \in 0 .. Len(l2) - 1 /\ l1[a + 1].hash = l2[c + 1].hash
      /\ Passes(plot, 1, <<l1[a + 1].x, l2[c + 1].x>>)
  BY DEF Pairing, HashAt
<1>n. \A n \in Nat : \A i \in 0 .. n - 1 : i + 1 \in 1 .. n /\ i \in Nat
  OBVIOUS
<1>3. a + 1 \in 1 .. Len(l1) /\ a \in Nat
  BY <1>n, <1>1, <1>2, Zenon
<1>4. c + 1 \in 1 .. Len(l2) /\ c \in Nat
  BY <1>n, <1>1, <1>2, Zenon
<1>5. l1[a + 1] \in Wanted1(plot, ranges) /\ l2[c + 1] \in Wanted2(plot, l1)
  <2> DEFINE m == a + 1
             n == c + 1
  <2> HIDE DEF m, n
  <2>1. m \in 1 .. Len(l1) /\ n \in 1 .. Len(l2)
    BY <1>3, <1>4 DEF m, n
  <2>2. l1[m] \in Wanted1(plot, ranges)
    BY <1>1, <2>1
  <2>3. l2[n] \in Wanted2(plot, l1)
    BY <1>1, <2>1
  <2> QED BY <2>2, <2>3 DEF m, n
<1> QED BY <1>2, <1>3, <1>4, <1>5 DEF Wanted2, EntriesAre

\* Candidates of one hash and x value are one.
LEMMA SameCandidate ==
  ASSUME NEW e \in Candidate, NEW g \in Candidate, e.hash = g.hash, e.x = g.x
  PROVE  e = g
<1>1. e = [hash |-> e.hash, x |-> e.x]
  BY DEF Candidate
<1>2. g = [hash |-> g.hash, x |-> g.x]
  BY DEF Candidate
<1> QED BY <1>1, <1>2

\* No x values come from two pairs of entries.
LEMMA EntriesApart ==
  ASSUME NEW plot, NEW ranges, NEW l1, NEW l2, ListsFor(plot, ranges, l1, l2)
  PROVE  PairsApart(plot, l1, l2)
<1>1. ASSUME NEW a, NEW c, NEW e, NEW g, Pairing(plot, l1, l2, a, c), Pairing(plot, l1, l2, e, g),
             l1[a + 1].x = l1[e + 1].x, l2[c + 1].x = l2[g + 1].x
      PROVE  a = e /\ c = g
  <2> DEFINE a1 == l1[a + 1]
             c2 == l2[c + 1]
             e1 == l1[e + 1]
             g2 == l2[g + 1]
  <2>1. /\ a + 1 \in 1 .. Len(l1) /\ c + 1 \in 1 .. Len(l2) /\ a \in Nat /\ c \in Nat
        /\ a1 \in Wanted1(plot, ranges) /\ c2 \in GoodX2(plot) /\ a1.hash = c2.hash
    <3>1. Pairing(plot, l1, l2, a, c)
      BY <1>1
    <3>2. EntriesAre(plot, ranges, l1, l2, a, c)
      BY <3>1, EntriesOf
    <3> QED BY <3>2 DEF EntriesAre
  <2>2. /\ e + 1 \in 1 .. Len(l1) /\ g + 1 \in 1 .. Len(l2) /\ e \in Nat /\ g \in Nat
        /\ e1 \in Wanted1(plot, ranges) /\ g2 \in GoodX2(plot) /\ e1.hash = g2.hash
    <3>1. Pairing(plot, l1, l2, e, g)
      BY <1>1
    <3>2. EntriesAre(plot, ranges, l1, l2, e, g)
      BY <3>1, EntriesOf
    <3> QED BY <3>2 DEF EntriesAre
  <2>3. a1.x = e1.x /\ c2.x = g2.x
    BY <1>1
  <2>4. \A m, n \in 1 .. Len(l1) : l1[m] = l1[n] => m = n
    BY DEF ListsFor, OnceEach
  <2>5. \A m, n \in 1 .. Len(l2) : l2[m] = l2[n] => m = n
    BY DEF ListsFor, OnceEach
  <2>6. a1 = e1 => a + 1 = e + 1
    BY <2>1, <2>2, <2>4
  <2>7. c2 = g2 => c + 1 = g + 1
    BY <2>1, <2>2, <2>5
  <2> HIDE DEF a1, c2, e1, g2
  <2>8. c2.hash = g2.hash /\ c2 \in Candidate /\ g2 \in Candidate
    <3>1. c2.hash = Info(plot, 0, <<c2.x>>) /\ c2 \in Candidate
      BY <2>1 DEF GoodX2
    <3>2. g2.hash = Info(plot, 0, <<g2.x>>) /\ g2 \in Candidate
      BY <2>2 DEF GoodX2
    <3> QED BY <2>3, <3>1, <3>2
  <2>9. c2 = g2
    BY <2>3, <2>8, SameCandidate
  <2>10. a1 \in Candidate /\ e1 \in Candidate
    BY <2>1, <2>2 DEF Wanted1, GoodX1
  <2>11. a1 = e1
    <3>1. a1.hash = e1.hash
      BY <2>1, <2>2, <2>8
    <3> QED BY <2>3, <2>10, <3>1, SameCandidate
  <2>12. a + 1 = e + 1 /\ c + 1 = g + 1
    BY <2>6, <2>7, <2>9, <2>11
  <2> QED BY <2>1, <2>2, <2>12
<1> QED BY <1>1 DEF PairsApart

\* The pairs of table 1 that are wanted.
PairsOf(plot, ranges) ==
  {p \in Xs \X Xs : \E g \in 1 .. Len(ranges) : Upper(p[1]) = ranges[g] /\ ValidPair(plot, p)}

\* What is paired is wanted.
LEMMA PairedIsWanted ==
  ASSUME NEW plot \in Plots, NEW ranges, NEW l1, NEW l2, ListsFor(plot, ranges, l1, l2),
         NEW a, NEW c, Pairing(plot, l1, l2, a, c)
  PROVE  <<l1[a + 1].x, l2[c + 1].x>> \in PairsOf(plot, ranges)
<1> DEFINE e1 == l1[a + 1]
           e2 == l2[c + 1]
           m == [x1 |-> e1.x, x2 |-> e2.x, hash |-> Info(plot, 1, <<e1.x, e2.x>>)]
<1>1. /\ e1 \in Wanted1(plot, ranges) /\ e2 \in GoodX2(plot)
      /\ e1.hash = e2.hash /\ Passes(plot, 1, <<e1.x, e2.x>>)
  BY EntriesOf DEF EntriesAre
<1> HIDE DEF e1, e2
<1>2. e1 \in GoodX1(plot) /\ \E g \in 1 .. Len(ranges) : Upper(e1.x) = ranges[g]
  BY <1>1 DEF Wanted1
<1>3. m \in GoodMatch(plot)
  BY <1>1, <1>2, PairFound
<1>4. m.x1 = e1.x /\ m.x2 = e2.x
  OBVIOUS
<1> HIDE DEF m
<1>5. ValidPair(plot, <<e1.x, e2.x>>) /\ e1.x \in Xs /\ e2.x \in Xs
  BY <1>3, <1>4 DEF GoodMatch, Match
<1> DEFINE p == <<e1.x, e2.x>>
<1>6. p \in Xs \X Xs /\ p[1] = e1.x /\ ValidPair(plot, p)
  BY <1>5
<1> HIDE DEF p
<1>7. p \in PairsOf(plot, ranges)
  BY <1>2, <1>6 DEF PairsOf
<1> QED BY <1>7 DEF p, e1, e2

\* What is wanted is paired.
LEMMA WantedIsPaired ==
  ASSUME NEW plot \in Plots, NEW ranges, NEW l1, NEW l2, ListsFor(plot, ranges, l1, l2),
         NEW x \in Xs, NEW y \in Xs, <<x, y>> \in PairsOf(plot, ranges)
  PROVE  \E a, c : Pairing(plot, l1, l2, a, c) /\ l1[a + 1].x = x /\ l2[c + 1].x = y
<1> DEFINE p == <<x, y>>
           left == Info(plot, 0, <<x>>)
           hash == Info(plot, 0, <<y>>)
           key == KeyOf(1, hash)
           target == TargetIn(1, hash)
           e1 == [hash |-> hash, x |-> x]
           e2 == [hash |-> hash, x |-> y]
<1>1. p[1] = x /\ p[2] = y
  OBVIOUS
<1>2. (\E g \in 1 .. Len(ranges) : Upper(x) = ranges[g]) /\ ValidPair(plot, p)
  BY <1>1 DEF PairsOf
<1>3. LeftHalf(p) = <<x>> /\ RightHalf(p) = <<y>>
  BY PairHalves
<1> HIDE DEF p
<1>4. InfosMatch(plot, 1, <<x>>, left, hash) /\ Passes(plot, 1, p)
  <2>1. 1 - 1 = 0
    OBVIOUS
  <2> QED BY <1>2, <1>3, <2>1 DEF ValidPair, Pairs
<1>5. left \in Xs /\ hash \in Xs
  BY HashAssumption
<1> HIDE DEF left, hash
<1>6. SectionOf(hash) = MatchingSection(SectionOf(left)) /\ target = TargetOf(plot, 1, <<x>>, key)
  BY <1>4 DEF InfosMatch
<1>7. /\ key \in 0 .. MatchKeys[1] - 1
      /\ hash = (SectionOf(hash) * SectionSize) + (key * Targets(1)) + target
  BY <1>5, InfoMade
<1> HIDE DEF key, target
<1>8. hash = InfoToMatch(1, left, key, TargetOf(plot, 1, <<x>>, key))
  BY <1>6, <1>7 DEF InfoToMatch
<1>9. e1 \in Candidate /\ e1.hash = hash /\ e1.x = x /\ e2 \in Candidate /\ e2.hash = hash /\ e2.x = y
  BY <1>5 DEF Candidate
<1> HIDE DEF e1, e2
<1>10. e1 \in Wanted1(plot, ranges)
  <2>1. e1.hash = InfoToMatch(1, Info(plot, 0, <<e1.x>>), key, TargetOf(plot, 1, <<e1.x>>, key))
    BY <1>8, <1>9 DEF left
  <2>2. e1 \in GoodX1(plot)
    BY <1>7, <1>9, <2>1 DEF GoodX1
  <2> QED BY <1>2, <1>9, <2>2 DEF Wanted1
<1>11. PICK m \in 1 .. Len(l1) : l1[m] = e1
  BY <1>10 DEF ListsFor, OnceEach
<1>12. Len(l1) \in Nat /\ Len(l2) \in Nat /\ DOMAIN l1 = 1 .. Len(l1)
  BY DEF ListsFor, OnceEach
<1>13. e2 \in Wanted2(plot, l1)
  <2>1. e2.hash = Info(plot, 0, <<e2.x>>)
    BY <1>9 DEF hash
  <2>2. e2 \in GoodX2(plot)
    BY <1>9, <2>1 DEF GoodX2
  <2>3. l1[m].hash = hash
    BY <1>9, <1>11
  <2>4. Known(plot, l1, e2.x)
    BY <1>9, <1>12, <2>1, <2>3 DEF Known
  <2> QED BY <2>2, <2>4 DEF Wanted2
<1>14. PICK n \in 1 .. Len(l2) : l2[n] = e2
  BY <1>13 DEF ListsFor, OnceEach
<1> DEFINE a == m - 1
           c == n - 1
<1>15. a \in 0 .. Len(l1) - 1 /\ c \in 0 .. Len(l2) - 1 /\ a + 1 = m /\ c + 1 = n
  BY <1>12
<1> HIDE DEF a, c
<1>16. Pairing(plot, l1, l2, a, c) /\ l1[a + 1].x = x /\ l2[c + 1].x = y
  BY <1>4, <1>9, <1>11, <1>14, <1>15 DEF Pairing, HashAt, p
<1> QED BY <1>16

-----------------------------------------------------------------------------
(* The threads of table 1 keep what makes it complete                      *)

\* The lists and their bounds, while table 1 is matched.
JoinIs ==
  /\ Joinable(x1s, x2s, bounds.x1, bounds.x2) /\ ListsFor(Plot, unique, x1s, x2s)
  /\ MergeOK(Plot, x1s, x2s, bounds.x1, bounds.x2, worker, t1)
  /\ \A w \in Workers : Stands(x1s, x2s, bounds.x1, bounds.x2, ShareOf(4, w), worker[w])

\* They are lists that can be joined, and every thread stands somewhere in them.
LEMMA WhileJoined ==
  ASSUME IInv, CInv, BoundsFindSections, phase = "match1"
  PROVE  JoinIs
<1> USE CallIs
<1>1. /\ OnceEach(x1s, Wanted1(Plot, unique)) /\ InHashOrder(x1s)
      /\ OnceEach(x2s, Wanted2(Plot, x1s)) /\ InHashOrder(x2s)
      /\ MergeOK(Plot, x1s, x2s, bounds.x1, bounds.x2, worker, t1)
  BY DEF CInv, ListsInv, MergeInv
<1>2. Listed(x1s) /\ Listed(x2s)
  <2>1. Wanted1(Plot, unique) \subseteq Candidate /\ Wanted2(Plot, x1s) \subseteq Candidate
    BY DEF Wanted1, GoodX1, Wanted2, GoodX2
  <2> QED BY <1>1, <2>1, OnceListed
<1>3. \A s \in Sections :
        /\ bounds.x1[s] = Cardinality({i \in DOMAIN x1s : SectionOf(x1s[i].hash) < s})
        /\ bounds.x2[s] = Cardinality({i \in DOMAIN x2s : SectionOf(x2s[i].hash) < s})
  BY DEF BoundsFindSections
<1>4. Divides(x1s, bounds.x1)
  <2> DEFINE b == bounds.x1
  <2>1. \A s \in Sections : b[s] = Cardinality({i \in DOMAIN x1s : SectionOf(x1s[i].hash) < s})
    BY <1>3
  <2> HIDE DEF b
  <2> QED BY <1>2, <2>1, Divided DEF b
<1>5. Divides(x2s, bounds.x2)
  <2> DEFINE b == bounds.x2
  <2>1. \A s \in Sections : b[s] = Cardinality({i \in DOMAIN x2s : SectionOf(x2s[i].hash) < s})
    BY <1>3
  <2> HIDE DEF b
  <2> QED BY <1>2, <2>1, Divided DEF b
<1>6. Joinable(x1s, x2s, bounds.x1, bounds.x2)
  BY <1>2, <1>4, <1>5 DEF Joinable
<1>7. ASSUME NEW w \in Workers PROVE Stands(x1s, x2s, bounds.x1, bounds.x2, ShareOf(4, w), worker[w])
  <2>1. ShareOf(4, w).at \in 0 .. 4 /\ ShareOf(4, w).end \in 0 .. 4
    <3>1. 4 \in Nat
      OBVIOUS
    <3> QED BY <3>1, ShareIn
  <2>2. worker[w] \in WorkerState
    BY DEF WorkersOK, BusyOK
  <2>3. InShare(ShareOf(4, w), worker[w]) /\ InBounds(x1s, x2s, bounds.x1, bounds.x2, worker[w])
    BY <1>1 DEF MergeOK
  <2> QED BY <1>6, <2>1, <2>2, <2>3 DEF Stands
<1> QED BY <1>1, <1>6, <1>7 DEF JoinIs, ListsFor

\* The parts of the invariant, in a step of a thread of table 1.
LEMMA StepCInv ==
  ASSUME CInv, phase = "match1", phase' \in {"match1", "exited"}, UNCHANGED <<asked, listVars>>,
         phase' = "match1" => MergeOK(Plot, x1s, x2s, bounds.x1, bounds.x2, worker', t1')
  PROVE  CInv'
<1>1. SameCall
  BY CallStays
<1>2. unique' = unique /\ x1s' = x1s /\ x2s' = x2s /\ bounds' = bounds /\ found' = found /\ failed' = failed
  BY DEF listVars
<1>3. /\ OnceEach(x1s, Wanted1(Plot, unique)) /\ InHashOrder(x1s)
      /\ OnceEach(x2s, Wanted2(Plot, x1s)) /\ InHashOrder(x2s)
  BY DEF CInv, ListsInv
<1>4. ListsInv'
  BY <1>1, <1>2, <1>3 DEF ListsInv, SameCall
<1>5. MergeInv'
  BY <1>1, <1>2 DEF MergeInv, SameCall
<1>6. MatchedInv'
  BY DEF MatchedInv, Late
<1> QED BY <1>4, <1>5, <1>6 DEF CInv

\* A step that moves a thread and stores nothing.
LEMMA MovedCInv ==
  ASSUME IInv, CInv, BoundsFindSections, phase = "match1", phase' \in {"match1", "exited"},
         UNCHANGED <<asked, listVars, t1>>, NEW w \in Workers, NEW you, worker' = [worker EXCEPT ![w] = you],
         Moved(Plot, x1s, x2s, bounds.x1, bounds.x2, ShareOf(4, w), worker[w], you)
  PROVE  CInv'
<1> USE CallIs
<1>1. JoinIs
  BY WhileJoined
<1>2. DOMAIN worker = Workers
  BY DEF WorkersOK
<1>3. worker'[w] = you /\ \A v \in Workers : v # w => worker'[v] = worker[v]
  BY <1>2
<1>4. MergeOK(Plot, x1s, x2s, bounds.x1, bounds.x2, worker, t1)
  BY <1>1 DEF JoinIs
<1>5. MergeOK(Plot, x1s, x2s, bounds.x1, bounds.x2, worker', t1)
  BY <1>3, <1>4, MergeStep
<1> QED BY <1>5, StepCInv

\* A thread begins a section, or ends.
LEMMA EnterSectionCInv ==
  ASSUME IInv, CInv, BoundsFindSections, NEW w \in Workers, EnterSection(w)
  PROVE  CInv'
<1> USE CallIs
<1> DEFINE me == worker[w]
           you == IF me.section < ShareOf(4, w).end
                    THEN [me EXCEPT !.i = bounds.x1[me.section], !.j = bounds.x2[me.section], !.at = "scan"]
                    ELSE [me EXCEPT !.at = "done"]
<1>1. /\ phase = "match1" /\ me.at = "enter" /\ worker' = [worker EXCEPT ![w] = you]
      /\ UNCHANGED <<phase, asked, listVars, t1>>
  BY DEF EnterSection, Step
<1>2. JoinIs
  BY <1>1, WhileJoined
<1>3. me \in WorkerState /\ Stands(x1s, x2s, bounds.x1, bounds.x2, ShareOf(4, w), me)
  BY <1>2 DEF JoinIs, Stands
<1>4. /\ you.section = me.section
      /\ \/ /\ me.section < ShareOf(4, w).end /\ you.at = "scan"
            /\ you.i = bounds.x1[me.section] /\ you.j = bounds.x2[me.section]
         \/ ~ (me.section < ShareOf(4, w).end) /\ you.at = "done"
  <2> HIDE DEF me
  <2>1. CASE me.section < ShareOf(4, w).end
    <3>1. you = [me EXCEPT !.i = bounds.x1[me.section], !.j = bounds.x2[me.section], !.at = "scan"]
      BY <2>1
    <3> HIDE DEF you
    <3> QED BY <1>3, <2>1, <3>1 DEF WorkerState
  <2>2. CASE ~ (me.section < ShareOf(4, w).end)
    <3>1. you = [me EXCEPT !.at = "done"]
      BY <2>2
    <3> HIDE DEF you
    <3> QED BY <1>3, <2>2, <3>1 DEF WorkerState
  <2> QED BY <2>1, <2>2
<1> HIDE DEF you
<1>5. Moved(Plot, x1s, x2s, bounds.x1, bounds.x2, ShareOf(4, w), me, you)
  <2> DEFINE b1 == bounds.x1
             b2 == bounds.x2
             share == ShareOf(4, w)
  <2>1. Stands(x1s, x2s, b1, b2, share, me) /\ me.at = "enter"
    BY <1>1, <1>3
  <2>2. /\ you.section = me.section
        /\ \/ /\ me.section < share.end /\ you.at = "scan"
              /\ you.i = b1[me.section] /\ you.j = b2[me.section]
           \/ ~ (me.section < share.end) /\ you.at = "done"
    BY <1>4
  <2> HIDE DEF me, b1, b2, share
  <2>3. Moved(Plot, x1s, x2s, b1, b2, share, me, you)
    BY <2>1, <2>2, EnterMoves
  <2> QED BY <2>3 DEF b1, b2, share
<1> QED BY <1>1, <1>5, MovedCInv

\* A turn of the loop over both lists.
LEMMA ScanCInv ==
  ASSUME IInv, CInv, BoundsFindSections, NEW w \in Workers, Scan(w)
  PROVE  CInv'
<1> USE CallIs
<1> DEFINE me == worker[w]
           b1 == bounds.x1
           b2 == bounds.x2
           share == ShareOf(4, w)
           end == me.i >= BoundEnd(b1, x1s, me.section) \/ me.j >= BoundEnd(b2, x2s, me.section)
           h1  == HashAt(x1s, me.i)
           h2  == HashAt(x2s, me.j)
           you == CASE end            -> Idle(me.section + 1)
                    [] ~end /\ h1 = h2 -> [me EXCEPT !.ti = me.i, !.at = "run"]
                    [] ~end /\ h1 < h2 -> [me EXCEPT !.i = @ + 1]
                    [] ~end /\ h1 > h2 -> [me EXCEPT !.j = @ + 1]
<1>1. /\ phase = "match1" /\ me.at = "scan" /\ worker' = [worker EXCEPT ![w] = you]
      /\ UNCHANGED <<phase, asked, listVars, t1>>
  BY DEF Scan, Step
<1>2. JoinIs
  BY <1>1, WhileJoined
<1>3. me \in WorkerState /\ Stands(x1s, x2s, b1, b2, share, me) /\ Joinable(x1s, x2s, b1, b2)
  BY <1>2 DEF JoinIs, Stands
<1>4. me.at \in Busy
  BY <1>1 DEF Busy
<1> HIDE DEF me, b1, b2, share
<1>5. /\ me.section \in 0 .. 3 /\ me.i \in Nat /\ me.j \in Nat
      /\ BoundEnd(b1, x1s, me.section) \in Nat /\ BoundEnd(b2, x2s, me.section) \in Nat
  <2>1. /\ me.section \in 0 .. 3 /\ me.i \in Nat /\ me.j \in Nat
        /\ BoundEnd(b1, x1s, me.section) \in 0 .. Len(x1s) /\ BoundEnd(b2, x2s, me.section) \in 0 .. Len(x2s)
    BY <1>3, <1>4, BusyAt
  <2> QED BY <2>1
<1>6. Moved(Plot, x1s, x2s, b1, b2, share, me, you)
  <2>1. CASE end
    <3>1. you = Idle(me.section + 1)
      <4> HIDE DEF end, h1, h2
      <4> QED BY <2>1
    <3>2. me.section + 1 \in 0 .. 4
      <4> DEFINE s == me.section
      <4>1. s \in 0 .. 3
        BY <1>5
      <4> HIDE DEF s
      <4>2. s + 1 \in 0 .. 4
        BY <4>1
      <4> QED BY <4>2 DEF s
    <3> HIDE DEF you
    <3>3. you.section = me.section + 1 /\ you.at = "enter"
      BY <3>1, <3>2, IdleIs
    <3> QED BY <1>1, <1>3, <2>1, <3>3, SectionEndMoves
  <2>2. CASE ~ end
    <3>1. me.i < BoundEnd(b1, x1s, me.section) /\ me.j < BoundEnd(b2, x2s, me.section)
      BY <1>5, <2>2
    <3>2. h1 \in Nat /\ h2 \in Nat
      BY <1>3, <1>5, <3>1, HashesAt
    <3> HIDE DEF end
    <3>3. CASE h1 = h2
      <4>1. you = [me EXCEPT !.ti = me.i, !.at = "run"]
        <5> HIDE DEF h1, h2
        <5> QED BY <2>2, <3>2, <3>3
      <4> HIDE DEF you
      <4>2. you.section = me.section /\ you.i = me.i /\ you.j = me.j /\ you.ti = me.i /\ you.at = "run"
        BY <1>3, <4>1 DEF WorkerState
      <4> QED BY <1>1, <1>3, <3>1, <3>3, <4>2, RunBegins
    <3>4. CASE h1 < h2
      <4>1. you = [me EXCEPT !.i = @ + 1]
        <5> HIDE DEF h1, h2
        <5> QED BY <2>2, <3>2, <3>4
      <4> HIDE DEF you
      <4>2. you.section = me.section /\ you.i = me.i + 1 /\ you.j = me.j /\ you.at = "scan"
        BY <1>1, <1>3, <4>1 DEF WorkerState
      <4> QED BY <1>1, <1>3, <3>1, <3>4, <4>2, FirstMoves
    <3>5. CASE h1 > h2
      <4>1. you = [me EXCEPT !.j = @ + 1]
        <5> HIDE DEF h1, h2
        <5> QED BY <2>2, <3>2, <3>5
      <4> HIDE DEF you
      <4>2. you.section = me.section /\ you.i = me.i /\ you.j = me.j + 1 /\ you.at = "scan"
        BY <1>1, <1>3, <4>1 DEF WorkerState
      <4> QED BY <1>1, <1>3, <3>1, <3>5, <4>2, SmallerMoves
    <3> QED
      <4> HIDE DEF h1, h2, you
      <4> QED BY <3>2, <3>3, <3>4, <3>5
  <2> QED BY <2>1, <2>2
<1> HIDE DEF you
<1> QED BY <1>1, <1>6, MovedCInv DEF me, b1, b2, share

\* A slot is taken: the thread is past what it was past.
LEMMA TakesSlot ==
  ASSUME NEW plot, NEW l1, NEW l2, NEW b1, NEW b2, NEW share, NEW me, NEW you,
         Stands(l1, l2, b1, b2, share, me), me.at = "run",
         you.section = me.section, you.i = me.i, you.j = me.j, you.ti = me.ti, you.at = "store"
  PROVE  Moved(plot, l1, l2, b1, b2, share, me, you)
<1>1. InShare(share, me) /\ InBounds(l1, l2, b1, b2, me)
  BY DEF Stands
<1>2. InShare(share, you)
  BY <1>1 DEF InShare, Busy
<1>3. InBounds(l1, l2, b1, b2, you)
  BY <1>1 DEF InBounds, Busy
<1>4. ASSUME NEW a, NEW c PROVE IsDone(l2, share, you, a, c) <=> IsDone(l2, share, me, a, c)
  BY DEF IsDone, Busy
<1> QED BY <1>2, <1>3, <1>4 DEF Moved, SamePairs

\* A pair that the filter does not let through is passed.
LEMMA PassesOver ==
  ASSUME NEW plot, NEW l1, NEW l2, NEW b1, NEW b2, NEW share, NEW me, NEW you,
         Stands(l1, l2, b1, b2, share, me), me.at = "run", ~ Pairing(plot, l1, l2, me.ti, me.j),
         you.section = me.section, you.i = me.i, you.j = me.j, you.ti = me.ti + 1, you.at = "run"
  PROVE  Moved(plot, l1, l2, b1, b2, share, me, you)
<1>1. /\ InShare(share, you) /\ InBounds(l1, l2, b1, b2, you)
      /\ \A a, c : Pairing(plot, l1, l2, a, c) =>
           /\ IsDone(l2, share, you, a, c) <=> IsDone(l2, share, me, a, c) \/ (a = me.ti /\ c = me.j)
           /\ a = me.ti /\ c = me.j => ~ IsDone(l2, share, me, a, c)
  BY RunMoves
<1>2. ASSUME NEW a, NEW c, Pairing(plot, l1, l2, a, c)
      PROVE  IsDone(l2, share, you, a, c) <=> IsDone(l2, share, me, a, c)
  <2>1. ~ (a = me.ti /\ c = me.j)
    BY <1>2
  <2> QED BY <1>1, <1>2, <2>1
<1> QED BY <1>1, <1>2 DEF Moved, SamePairs

\* One x1 of equal hash.
LEMMA PairUpCInv ==
  ASSUME IInv, CInv, BoundsFindSections, NEW w \in Workers, PairUp(w)
  PROVE  CInv'
<1> USE CallIs
<1> DEFINE me == worker[w]
           b1 == bounds.x1
           b2 == bounds.x2
           share == ShareOf(4, w)
           pair == <<x1s[me.ti + 1].x, x2s[me.j + 1].x>>
           you == IF Passes(Plot, 1, pair) THEN [me EXCEPT !.slot = taken, !.at = "store"]
                                           ELSE [me EXCEPT !.ti = @ + 1]
<1>1. /\ phase = "match1" /\ me.at = "run" /\ worker' = [worker EXCEPT ![w] = you]
      /\ phase' \in {"match1", "exited"} /\ UNCHANGED <<asked, listVars, t1>>
  BY DEF PairUp, Step
<1>2. JoinIs
  BY <1>1, WhileJoined
<1>3. me \in WorkerState /\ Stands(x1s, x2s, b1, b2, share, me)
  BY <1>2 DEF JoinIs, Stands
<1> HIDE DEF me, b1, b2, share
<1>4. Moved(Plot, x1s, x2s, b1, b2, share, me, you)
  <2>1. CASE Passes(Plot, 1, pair)
    <3>1. you = [me EXCEPT !.slot = taken, !.at = "store"]
      BY <2>1
    <3> HIDE DEF you
    <3>2. you.section = me.section /\ you.i = me.i /\ you.j = me.j /\ you.ti = me.ti /\ you.at = "store"
      BY <1>3, <3>1 DEF WorkerState
    <3> QED BY <1>1, <1>3, <3>2, TakesSlot
  <2>2. CASE ~ Passes(Plot, 1, pair)
    <3>1. you = [me EXCEPT !.ti = @ + 1]
      BY <2>2
    <3> HIDE DEF you
    <3>2. you.section = me.section /\ you.i = me.i /\ you.j = me.j /\ you.ti = me.ti + 1 /\ you.at = "run"
      BY <1>1, <1>3, <3>1 DEF WorkerState
    <3>3. ~ Pairing(Plot, x1s, x2s, me.ti, me.j)
      BY <2>2 DEF Pairing
    <3> QED BY <1>1, <1>3, <3>2, <3>3, PassesOver
  <2> QED BY <2>1, <2>2
<1> HIDE DEF you
<1> QED BY <1>1, <1>4, MovedCInv DEF me, b1, b2, share

\* The end of a run of equal hashes.
LEMMA EndRunCInv ==
  ASSUME IInv, CInv, BoundsFindSections, NEW w \in Workers, EndRun(w)
  PROVE  CInv'
<1> USE CallIs
<1> DEFINE me == worker[w]
           b1 == bounds.x1
           b2 == bounds.x2
           share == ShareOf(4, w)
           you == [me EXCEPT !.j = @ + 1, !.at = "scan"]
<1>1. /\ phase = "match1" /\ me.at = "run" /\ worker' = [worker EXCEPT ![w] = you]
      /\ UNCHANGED <<phase, asked, listVars, t1>>
  BY DEF EndRun, Step
<1>2. me.ti < BoundEnd(b1, x1s, me.section) => HashAt(x1s, me.ti) # HashAt(x2s, me.j)
  BY DEF EndRun, InRun
<1>3. JoinIs
  BY <1>1, WhileJoined
<1>4. me \in WorkerState /\ Stands(x1s, x2s, b1, b2, share, me)
  BY <1>3 DEF JoinIs, Stands
<1> HIDE DEF me, b1, b2, share
<1>5. you.section = me.section /\ you.i = me.i /\ you.j = me.j + 1 /\ you.at = "scan"
  BY <1>4 DEF WorkerState
<1> HIDE DEF you
<1>6. Moved(Plot, x1s, x2s, b1, b2, share, me, you)
  BY <1>1, <1>2, <1>4, <1>5, RunEndMoves
<1> QED BY <1>1, <1>6, MovedCInv DEF me, b1, b2, share

\* A pair is stored.
LEMMA StoreCInv ==
  ASSUME IInv, CInv, BoundsFindSections, NEW w \in Workers, Store(w)
  PROVE  CInv'
<1> USE CallIs
<1> DEFINE me == worker[w]
           b1 == bounds.x1
           b2 == bounds.x2
           pair == <<x1s[me.ti + 1].x, x2s[me.j + 1].x>>
           new == [x1 |-> pair[1], x2 |-> pair[2], hash |-> Info(Plot, 1, pair)]
           you == [me EXCEPT !.ti = @ + 1, !.at = "run"]
           k == me.slot
<1>1. /\ phase = "match1" /\ me.at = "store" /\ worker' = [worker EXCEPT ![w] = you]
      /\ t1' = [s \in DOMAIN t1 \cup {k} |-> IF s = k THEN new ELSE t1[s]]
      /\ phase' = phase /\ UNCHANGED <<asked, listVars>>
  BY DEF Store, Step
<1>2. JoinIs
  BY <1>1, WhileJoined
<1>3. /\ \A v \in Workers : Stands(x1s, x2s, b1, b2, ShareOf(4, v), worker[v])
      /\ MergeOK(Plot, x1s, x2s, b1, b2, worker, t1) /\ PairsApart(Plot, x1s, x2s)
  BY <1>2, EntriesApart DEF JoinIs
<1>4. me \in WorkerState /\ me.ti \in Nat /\ me.j \in Nat /\ Len(x1s) \in Nat /\ Len(x2s) \in Nat /\ me.j < Len(x2s)
  BY <1>1, InRunIs
<1>5. /\ me.ti < Len(x1s) /\ x1s[me.ti + 1].hash = x2s[me.j + 1].hash
      /\ Passes(Plot, 1, pair) /\ k \notin DOMAIN t1
  BY <1>1 DEF WorkersOK, BusyOK
<1>6. Pairing(Plot, x1s, x2s, me.ti, me.j)
  <2>1. me.ti \in 0 .. Len(x1s) - 1
    <3> DEFINE a == me.ti
               n == Len(x1s)
    <3>1. a \in Nat /\ n \in Nat /\ a < n
      BY <1>4, <1>5
    <3> HIDE DEF a, n
    <3>2. a \in 0 .. n - 1
      BY <3>1
    <3> QED BY <3>2 DEF a, n
  <2>2. me.j \in 0 .. Len(x2s) - 1
    <3> DEFINE a == me.j
               n == Len(x2s)
    <3>1. a \in Nat /\ n \in Nat /\ a < n
      BY <1>4
    <3> HIDE DEF a, n
    <3>2. a \in 0 .. n - 1
      BY <3>1
    <3> QED BY <3>2 DEF a, n
  <2> QED BY <1>5, <2>1, <2>2 DEF Pairing, HashAt
<1>7. /\ you \in WorkerState /\ you.section = me.section /\ you.i = me.i /\ you.j = me.j /\ you.ti = me.ti + 1
      /\ you.at = "run"
  <2>1. you = [me EXCEPT !.ti = @ + 1, !.at = "run"]
    OBVIOUS
  <2>2. me.section \in 0 .. 4 /\ me.i \in Nat /\ me.j \in Nat /\ me.ti \in Nat /\ me.slot \in Nat
    BY <1>4, FieldsOf
  <2>3. me.ti + 1 \in Nat
    BY <2>2
  <2> HIDE DEF me, you
  <2>4. you = [section |-> me.section, i |-> me.i, j |-> me.j, ti |-> me.ti + 1, slot |-> me.slot, at |-> "run"]
    BY <1>4, <2>1 DEF WorkerState
  <2> QED BY <2>2, <2>3, <2>4 DEF WorkerState
<1>8. DOMAIN worker = Workers
  BY <1>1 DEF WorkersOK
<1>9. worker'[w] = you /\ \A v \in Workers : v # w => worker'[v] = worker[v]
  BY <1>1, <1>8
<1>10. Has(new, x1s, x2s, me.ti, me.j)
  BY DEF Has
<1> HIDE DEF new, you
<1>11. DOMAIN t1' = DOMAIN t1 \cup {k} /\ t1'[k] = new /\ \A s \in DOMAIN t1 : t1'[s] = t1[s]
  BY <1>1, <1>5
<1>12. MergeOK(Plot, x1s, x2s, b1, b2, worker', t1')
  <2> HIDE DEF k, b1, b2, pair
  <2>1. worker[w].at = "store" /\ Pairing(Plot, x1s, x2s, worker[w].ti, worker[w].j)
    BY <1>1, <1>6
  <2>2. NextOfRun(worker[w], you)
    BY <1>7 DEF NextOfRun
  <2>3. Has(new, x1s, x2s, worker[w].ti, worker[w].j)
    BY <1>10
  <2>4. OneMoves(worker, w, you, worker')
    BY <1>9 DEF OneMoves
  <2>5. OneMore(t1, k, new, t1')
    BY <1>5, <1>11 DEF OneMore
  <2>6. AllStand(x1s, x2s, b1, b2, worker)
    BY <1>3 DEF AllStand
  <2> HIDE DEF me
  <2> QED BY <1>3, <2>1, <2>2, <2>3, <2>4, <2>5, <2>6, MergeStore
<1> QED BY <1>1, <1>12, StepCInv

\* The threads are joined: they are past every pair.
LEMMA JoinMatch1CInv ==
  ASSUME IInv, CInv, BoundsFindSections, JoinMatch1
  PROVE  CInv'
<1> USE CallIs
<1>1. /\ phase = "match1" /\ phase' = "begin2" /\ \A w \in Workers : worker[w].at = "done"
      /\ UNCHANGED <<asked, unique, t1, taken>>
  BY DEF JoinMatch1, listVars, matchVars
<1>2. JoinIs
  BY <1>1, WhileJoined
<1> DEFINE l1 == x1s
           l2 == x2s
           b1 == bounds.x1
           b2 == bounds.x2
<1>3. /\ Joinable(l1, l2, b1, b2) /\ ListsFor(Plot, unique, l1, l2)
      /\ \A w \in Workers :
           InShare(ShareOf(4, w), worker[w]) /\ Complete(Plot, l1, l2, t1, w, worker[w])
      /\ \A s \in DOMAIN t1 : FromPair(Plot, l1, l2, worker, t1[s])
      /\ Apart(t1)
  BY <1>2 DEF JoinIs, MergeOK
<1> HIDE DEF l1, l2, b1, b2
<1>4. DOMAIN t1 = 0 .. taken - 1
  BY <1>1 DEF SlotsOK, WorkersOK, Held
<1>5. WantedPairs = PairsOf(Plot, unique)
  <2>1. DOMAIN unique = 1 .. Len(unique)
    BY DEF MappingOK
  <2> QED BY <2>1 DEF WantedPairs, PairsOf
<1>6. ASSUME NEW s \in DOMAIN t1 PROVE PairIn(t1[s]) \in WantedPairs
  <2>1. PICK w, a, c : w \in Workers /\ Pairing(Plot, l1, l2, a, c) /\ Has(t1[s], l1, l2, a, c)
    BY <1>3 DEF FromPair
  <2>2. <<l1[a + 1].x, l2[c + 1].x>> \in PairsOf(Plot, unique)
    BY <1>3, <2>1, PairedIsWanted
  <2> QED BY <1>5, <2>1, <2>2 DEF PairIn, Has
<1>7. ASSUME NEW p \in WantedPairs PROVE \E s \in DOMAIN t1 : PairIn(t1[s]) = p
  <2>1. PICK x \in Xs, y \in Xs : p = <<x, y>>
    BY DEF WantedPairs
  <2>2. <<x, y>> \in PairsOf(Plot, unique)
    BY <1>5, <2>1
  <2>3. PICK a, c : Pairing(Plot, l1, l2, a, c) /\ l1[a + 1].x = x /\ l2[c + 1].x = y
    BY <1>3, <2>2, WantedIsPaired
  <2> DEFINE t == SectionAt(l2, c)
  <2>4. t \in 0 .. 3
    BY <1>3, <2>3, PairingAt
  <2>5. PICK w \in Workers : ShareOf(4, w).at <= t /\ t < ShareOf(4, w).end
    <3>1. 4 \in Nat /\ t \in 0 .. 4 - 1
      BY <2>4
    <3> HIDE DEF t
    <3> QED BY <3>1, SharesPartition
  <2>6. worker[w].section = ShareOf(4, w).end
    BY <1>1, <1>3 DEF InShare
  <2>7. IsDone(l2, ShareOf(4, w), worker[w], a, c)
    BY <2>5, <2>6 DEF IsDone
  <2>8. PICK s \in DOMAIN t1 : Has(t1[s], l1, l2, a, c)
    BY <1>3, <2>3, <2>7 DEF Complete
  <2>9. PairIn(t1[s]) = p
    BY <2>1, <2>3, <2>8 DEF PairIn, Has
  <2> QED BY <2>9
<1>8. SlotsAre
  BY <1>3, <1>4, <1>6, <1>7 DEF SlotsAre
<1>9. SlotsAre'
  <2>1. Plot' = Plot /\ WantedPairs' = WantedPairs /\ t1' = t1 /\ taken' = taken
    BY <1>1, CallStays DEF SameCall, WantedPairs
  <2> QED BY <1>8, <2>1 DEF SlotsAre
<1> QED BY <1>1, <1>9 DEF CInv, ListsInv, MergeInv, MatchedInv, Late

-----------------------------------------------------------------------------
(* The matching of table 1 is complete                                     *)

\* The steps after table 1 leave it alone.
LEMMA LateCInv ==
  ASSUME CInv, phase \in Late, phase' \in Late, UNCHANGED <<asked, unique, t1, taken>>
  PROVE  CInv'
<1>1. SlotsAre
  BY DEF CInv, MatchedInv
<1>2. Plot' = Plot /\ WantedPairs' = WantedPairs /\ t1' = t1 /\ taken' = taken
  BY CallStays DEF SameCall, WantedPairs
<1>3. SlotsAre'
  BY <1>1, <1>2 DEF SlotsAre
<1>4. phase' \notin {"hash", "filter", "match1"}
  BY DEF Late
<1> QED BY <1>3, <1>4 DEF CInv, ListsInv, MergeInv, MatchedInv

\* No step changes that the matching of table 1 is complete, if the sections of
\* the lists are where they are looked for.
LEMMA NextCInv ==
  ASSUME IInv, CInv, BoundsFindSections, [Next]_vars
  PROVE  CInv'
<1>1. CASE HashX1
  BY <1>1, HashX1CInv
<1>2. CASE JoinFilter
  BY <1>2, JoinFilterCInv
<1>3. CASE JoinMatch1
  BY <1>3, JoinMatch1CInv
<1>4. CASE Begin2 \/ JoinMatch2 \/ MatchT3 \/ Construct \/ \E w \in Workers : MatchLeft(w)
  <2>1. phase \in Late /\ phase' \in Late /\ UNCHANGED <<asked, unique, t1, taken>>
    BY <1>4 DEF Begin2, JoinMatch2, MatchT3, Construct, MatchLeft, Late, listVars, matchVars
  <2> QED BY <2>1, LateCInv
<1>5. ASSUME NEW w \in Workers, FilterChunk(w) PROVE CInv'
  BY <1>5, FilterChunkCInv
<1>6. ASSUME NEW w \in Workers, EnterSection(w) \/ Scan(w) \/ PairUp(w) \/ Store(w) \/ EndRun(w) PROVE CInv'
  BY <1>6, EnterSectionCInv, ScanCInv, PairUpCInv, StoreCInv, EndRunCInv
<1>7. CASE UNCHANGED vars
  <2>1. UNCHANGED <<asked, phase, unique, x1s, found, failed, x2s, bounds, worker, t1, taken>>
    BY <1>7 DEF vars, listVars, matchVars
  <2>2. Plot' = Plot /\ WantedPairs' = WantedPairs
    BY <2>1, CallStays DEF SameCall, WantedPairs
  <2>3. ListsInv'
    BY <2>1, <2>2 DEF CInv, ListsInv
  <2>4. MergeInv'
    BY <2>1, <2>2 DEF CInv, MergeInv
  <2>5. MatchedInv'
    BY <2>1, <2>2 DEF CInv, MatchedInv, SlotsAre
  <2> QED BY <2>3, <2>4, <2>5 DEF CInv
<1>8. CASE Next
  BY <1>1, <1>2, <1>3, <1>4, <1>5, <1>6, <1>7, <1>8 DEF Next, Coordinate, MatchWork
<1> QED BY <1>7, <1>8

\* Slots that are the wanted pairs are so each once.
LEMMA SlotsCounted ==
  ASSUME IInv, SlotsAre
  PROVE  /\ {PairIn(t1[s]) : s \in 0 .. taken - 1} = WantedPairs
         /\ Cardinality(WantedPairs) = taken
<1> DEFINE slots == 0 .. taken - 1
           pairs == [s \in slots |-> PairIn(t1[s])]
<1>1. taken \in Nat
  BY DEF IInv, CallOK
<1>2. DOMAIN t1 = slots /\ \A s \in slots : PairIn(t1[s]) \in WantedPairs
  BY DEF SlotsAre
<1>3. \A p \in WantedPairs : \E s \in slots : PairIn(t1[s]) = p
  BY <1>2 DEF SlotsAre
<1>4. ASSUME NEW r \in slots, NEW s \in slots, PairIn(t1[r]) = PairIn(t1[s]) PROVE r = s
  <2>1. t1[r].x1 = t1[s].x1 /\ t1[r].x2 = t1[s].x2
    BY <1>4 DEF PairIn
  <2> QED BY <1>2, <2>1 DEF SlotsAre, Apart
<1> HIDE DEF slots
<1>5. pairs \in Bijection(slots, WantedPairs)
  BY <1>2, <1>3, <1>4 DEF Bijection, Injection, Surjection, IsInjective
<1>6. ExistsBijection(slots, WantedPairs)
  BY <1>5 DEF ExistsBijection
<1>7. IsFiniteSet(slots) /\ Cardinality(slots) = taken
  BY <1>1, FS_Interval DEF slots
<1>8. Cardinality(WantedPairs) = taken
  BY <1>6, <1>7, FS_Bijection
<1>9. {PairIn(t1[s]) : s \in slots} = WantedPairs
  BY <1>2, <1>3
<1> QED BY <1>8, <1>9 DEF slots

\* What the matching of table 1 keeps, in every search whose sections are where
\* they are looked for.
LEMMA SearchComplete == Spec /\ []BoundsFindSections => []CInv
<1>1. Init => CInv
  BY InitCInv
<1>2. IInv /\ CInv /\ BoundsFindSections /\ [Next]_vars => CInv'
  BY NextCInv
<1> QED BY <1>1, <1>2, SolverKeeps, PTL DEF Spec

\* The threads of table 1, whatever their number, the share each has of the
\* x values and of the sections, and the order of their steps, leave in the
\* slots every pair the validator accepts of the wanted ranges, each once and
\* nothing else, in every search whose sections are found.
THEOREM MatchesFoundOnce == Spec /\ []BoundsFindSections => []MatchesOnce
<1>1. ASSUME IInv, CInv PROVE MatchesOnce
  <2>1. SUFFICES ASSUME phase = "begin2"
                 PROVE  /\ DOMAIN t1 = 0 .. taken - 1
                        /\ {<<t1[s].x1, t1[s].x2>> : s \in 0 .. taken - 1} = WantedPairs
                        /\ Cardinality(WantedPairs) = taken
    BY DEF MatchesOnce
  <2>2. SlotsAre
    BY <1>1, <2>1 DEF CInv, MatchedInv, Late
  <2>3. /\ {PairIn(t1[s]) : s \in 0 .. taken - 1} = WantedPairs
        /\ Cardinality(WantedPairs) = taken
    BY <1>1, <2>2, SlotsCounted
  <2> QED BY <2>2, <2>3 DEF SlotsAre, PairIn
<1> QED BY <1>1, SolverKeeps, SearchComplete, PTL

-----------------------------------------------------------------------------
(* Where the sections are found                                            *)

\* The index at which the search for a section begins.
Ideal(list, s) == Min({s * (Len(list) \div 4), Len(list) - 1})

\* The search does not begin beyond the section, or finds no second entry there.
FoundFrom(list, s) ==
  Len(list) # 0 =>
    \/ SectionAt(list, Ideal(list, s)) <= s
    \/ \A a, c \in 0 .. Len(list) - 1 : SectionAt(list, a) = s /\ SectionAt(list, c) = s => a = c

\* The entries before a section.
Before(list, s) == Cardinality({i \in DOMAIN list : SectionOf(list[i].hash) < s})

\* A section is from m to e of a list of n.
SectionFrom(sec, n, s, m, e) ==
  /\ sec \in [0 .. n - 1 -> 0 .. 3] /\ m \in 0 .. n /\ e \in 0 .. n
  /\ \A a \in 0 .. n - 1 : a < m <=> sec[a] < s
  /\ \A a \in 0 .. n - 1 : a < e <=> sec[a] <= s

\* The search forward finds its first entry.
LEMMA SearchForward ==
  ASSUME NEW n \in Nat, NEW s \in 0 .. 3, NEW sec, NEW m, NEW e, SectionFrom(sec, n, s, m, e),
         NEW i \in 0 .. n - 1, sec[i] < s
  PROVE  Min({n} \cup {a \in i .. n - 1 : sec[a] >= s}) = m
<1> DEFINE S == {n} \cup {a \in i .. n - 1 : sec[a] >= s}
<1>1. m \in 0 .. n /\ sec \in [0 .. n - 1 -> 0 .. 3] /\ i < m
  BY DEF SectionFrom
<1>2. S \subseteq Nat /\ S # {}
  OBVIOUS
<1>3. Min(S) \in S /\ \A y \in S : Min(S) <= y
  BY <1>2, MinNat
<1>4. m \in S
  <2>1. CASE m = n
    BY <2>1
  <2>2. CASE m # n
    <3>1. m \in 0 .. n - 1 /\ m \in i .. n - 1
      BY <1>1, <2>2
    <3>2. ~ (sec[m] < s)
      BY <3>1 DEF SectionFrom
    <3>3. sec[m] \in 0 .. 3
      BY <1>1, <3>1
    <3> QED BY <3>1, <3>2, <3>3
  <2> QED BY <2>1, <2>2
<1>5. ASSUME NEW a \in S PROVE m <= a
  <2>1. CASE a = n
    BY <1>1, <2>1
  <2>2. CASE a \in i .. n - 1 /\ sec[a] >= s
    <3>1. a \in 0 .. n - 1
      BY <2>2
    <3>2. sec[a] \in 0 .. 3
      BY <1>1, <3>1
    <3>3. ~ (sec[a] < s)
      BY <2>2, <3>2
    <3>4. ~ (a < m)
      BY <3>1, <3>3 DEF SectionFrom
    <3> QED BY <1>1, <3>1, <3>4
  <2> QED BY <2>1, <2>2
<1> DEFINE x == Min(S)
<1>6. x \in Nat /\ m <= x /\ x <= m
  BY <1>2, <1>3, <1>4, <1>5
<1> HIDE DEF x
<1>7. x = m
  BY <1>1, <1>6
<1> QED BY <1>7 DEF x

\* So does the search back within it.
LEMMA SearchWithin ==
  ASSUME NEW n \in Nat, NEW s \in 0 .. 3, NEW sec, NEW m, NEW e, SectionFrom(sec, n, s, m, e),
         NEW i \in 0 .. n - 1, sec[i] = s
  PROVE  Min({a \in 0 .. i : \A c \in a .. i : sec[c] = s}) = m
<1> DEFINE S == {a \in 0 .. i : \A c \in a .. i : sec[c] = s}
<1>1. /\ m \in 0 .. n /\ e \in 0 .. n /\ sec \in [0 .. n - 1 -> 0 .. 3]
      /\ \A a \in 0 .. n - 1 : (a < m <=> sec[a] < s) /\ (a < e <=> sec[a] <= s)
  BY DEF SectionFrom
<1>2. m <= i /\ i < e
  BY <1>1
<1>3. m \in S
  <2>1. ASSUME NEW c \in m .. i PROVE sec[c] = s
    <3>1. c \in 0 .. n - 1 /\ ~ (c < m) /\ c < e
      BY <1>1, <1>2
    <3>2. sec[c] \in 0 .. 3 /\ ~ (sec[c] < s) /\ sec[c] <= s
      BY <1>1, <3>1
    <3> QED BY <3>2
  <2>2. m \in 0 .. i
    BY <1>1, <1>2
  <2> QED BY <2>1, <2>2
<1>4. ASSUME NEW a \in S PROVE m <= a
  <2>1. a \in 0 .. n - 1 /\ a \in a .. i
    OBVIOUS
  <2>2. sec[a] = s
    BY <2>1
  <2>3. ~ (a < m)
    BY <1>1, <2>1, <2>2
  <2> QED BY <1>1, <2>1, <2>3
<1>5. S \subseteq Nat /\ S # {}
  BY <1>3
<1>6. Min(S) \in S /\ \A y \in S : Min(S) <= y
  BY <1>5, MinNat
<1> DEFINE x == Min(S)
<1>7. x \in Nat /\ m <= x /\ x <= m
  BY <1>3, <1>4, <1>5, <1>6
<1> HIDE DEF x
<1>8. x = m
  BY <1>1, <1>7
<1> QED BY <1>8 DEF x

\* The search back from beyond a section stops at its last entry, which is its
\* first one only if it is the only one; without one it stops right.
LEMMA SearchBack ==
  ASSUME NEW n \in Nat, NEW s \in 0 .. 3, NEW sec, NEW m, NEW e, SectionFrom(sec, n, s, m, e),
         NEW i \in 0 .. n - 1, sec[i] > s,
         NEW back, back = Max({a \in 0 .. i : a = 0 \/ sec[a] <= s})
  PROVE  /\ (IF sec[back] < s THEN back + 1 ELSE back) = m
              <=> \A a, c \in 0 .. n - 1 : sec[a] = s /\ sec[c] = s => a = c
<1> DEFINE S == {a \in 0 .. i : a = 0 \/ sec[a] <= s}
<1>1. /\ m \in 0 .. n /\ e \in 0 .. n /\ sec \in [0 .. n - 1 -> 0 .. 3]
      /\ \A a \in 0 .. n - 1 : sec[a] \in 0 .. 3 /\ (a < m <=> sec[a] < s) /\ (a < e <=> sec[a] <= s)
  BY DEF SectionFrom
<1>2. e <= i
  BY <1>1
<1>3. back \in S /\ \A y \in S : y <= back
  <2>1. S \subseteq Nat /\ S # {} /\ i \in Nat /\ \A x \in S : x <= i
    OBVIOUS
  <2>2. Max(S) \in S /\ \A y \in S : y <= Max(S)
    BY <2>1, MaxNat
  <2> QED BY <2>2
<1>4. \A a \in 0 .. n - 1 : sec[a] = s <=> m <= a /\ a < e
  <2>1. ASSUME NEW a \in 0 .. n - 1 PROVE sec[a] = s <=> m <= a /\ a < e
    <3>1. sec[a] \in 0 .. 3 /\ (a < m <=> sec[a] < s) /\ (a < e <=> sec[a] <= s)
      BY <1>1
    <3> QED BY <1>1, <3>1
  <2> QED BY <2>1
<1>5. CASE e = 0
  <2>1. back = 0
    <3>1. ASSUME back # 0 PROVE FALSE
      <4>1. back \in 0 .. n - 1 /\ sec[back] <= s
        BY <1>3, <3>1
      <4> QED BY <1>1, <1>5, <4>1
    <3> QED BY <3>1
  <2>2. 0 \in 0 .. n - 1
    OBVIOUS
  <2>3. m = 0
    <3>1. ASSUME 0 < m PROVE FALSE
      <4>1. sec[0] < s
        BY <1>1, <2>2, <3>1
      <4>2. sec[0] <= s
        BY <1>1, <2>2, <4>1
      <4> QED BY <1>1, <1>5, <2>2, <4>2
    <3> QED BY <1>1, <3>1
  <2>4. ~ (sec[back] < s)
    BY <1>1, <2>1, <2>2, <2>3
  <2>5. \A a \in 0 .. n - 1 : sec[a] # s
    BY <1>1, <1>4, <1>5
  <2> QED BY <2>1, <2>3, <2>4, <2>5
<1>6. CASE e # 0
  <2> DEFINE d == e - 1
  <2>1. d \in 0 .. n - 1 /\ d < e /\ d \in 0 .. i /\ e = d + 1
    BY <1>1, <1>2, <1>6
  <2>2. sec[d] <= s
    BY <1>1, <2>1
  <2>3. d \in S
    BY <2>1, <2>2
  <2> HIDE DEF d
  <2>4. back \in 0 .. n - 1 /\ d <= back
    BY <1>3, <2>3
  <2>5. back = d
    <3>1. CASE back = 0
      BY <2>1, <2>4, <3>1
    <3>2. CASE back # 0
      <4>1. sec[back] <= s
        BY <1>3, <3>2
      <4>2. back < e
        BY <1>1, <2>4, <4>1
      <4> QED BY <2>1, <2>4, <4>2
    <3> QED BY <3>1, <3>2
  <2>6. sec[d] < s <=> d < m
    BY <1>1, <2>1
  <2>7. m <= e
    <3>1. ASSUME e < m PROVE FALSE
      <4>1. e \in 0 .. n - 1
        BY <1>1, <1>2
      <4>2. sec[e] < s
        BY <1>1, <3>1, <4>1
      <4>3. sec[e] <= s
        BY <1>1, <4>1, <4>2
      <4>4. e < e
        BY <1>1, <4>1, <4>3
      <4> QED BY <1>1, <4>4
    <3> QED BY <1>1, <3>1
  <2>8. CASE d < m
    <3>1. m = d + 1
      BY <1>1, <2>1, <2>7, <2>8
    <3>2. \A a \in 0 .. n - 1 : sec[a] # s
      <4>1. \A a \in 0 .. n - 1 : ~ (m <= a /\ a < e)
        BY <2>1, <3>1
      <4> QED BY <1>4, <4>1
    <3> QED BY <2>5, <2>6, <2>8, <3>1, <3>2
  <2>9. CASE ~ (d < m)
    <3>1. m <= d /\ m \in 0 .. n - 1
      BY <1>1, <2>1, <2>9
    <3>2. sec[m] = s /\ sec[d] = s
      BY <1>1, <1>4, <2>1, <3>1
    <3>3. ASSUME m = d, NEW a \in 0 .. n - 1, sec[a] = s PROVE a = d
      <4>1. m <= a /\ a < e
        BY <1>4, <3>3
      <4> QED BY <2>1, <3>3, <4>1
    <3>4. (\A a, c \in 0 .. n - 1 : sec[a] = s /\ sec[c] = s => a = c) <=> m = d
      BY <2>1, <3>1, <3>2, <3>3
    <3> QED BY <2>5, <2>6, <2>9, <3>4
  <2> QED BY <2>8, <2>9
<1> QED BY <1>5, <1>6

\* The index of a section is that of its first entry if and only if the search
\* does not begin beyond a section of several entries.
LEMMA SectionBoundFinds ==
  ASSUME NEW list, Listed(list), NEW s \in 0 .. 3
  PROVE  SectionBound(list, s) = Before(list, s) <=> FoundFrom(list, s)
<1> DEFINE n == Len(list)
           sec == [a \in 0 .. n - 1 |-> SectionAt(list, a)]
           b == [t \in Sections |-> Before(list, t)]
           m == Before(list, s)
           e == BoundEnd(b, list, s)
           i == Ideal(list, s)
<1>1. n \in Nat /\ DOMAIN list = 1 .. n /\ s \in Sections
  BY DEF Listed, Sections
<1>2. Divides(list, b)
  <2>1. \A t \in Sections : b[t] = Cardinality({k \in DOMAIN list : SectionOf(list[k].hash) < t})
    BY DEF Before
  <2> HIDE DEF b
  <2> QED BY <2>1, Divided
<1>3. b[s] = m
  BY <1>1
<1> HIDE DEF b, m
<1>4. \A a \in 0 .. n - 1 : SectionAt(list, a) \in 0 .. 3
  BY ListedAt
<1>5. m \in 0 .. n /\ \A a \in 0 .. n - 1 : a < m <=> SectionAt(list, a) < s
  BY <1>1, <1>2, <1>3 DEF Divides
<1>6. e \in 0 .. n /\ \A a \in 0 .. n - 1 : SectionAt(list, a) = s <=> m <= a /\ a < e
  BY <1>2, <1>3, SectionIs
<1>7. m <= e
  <2>1. CASE s = 3
    BY <1>5, <2>1 DEF BoundEnd
  <2>2. CASE s # 3
    <3>1. e = b[s + 1] /\ s + 1 \in Sections
      BY <1>1, <2>2 DEF BoundEnd, Sections
    <3>2. \A a \in 0 .. n - 1 : a < e <=> SectionAt(list, a) < s + 1
      BY <1>2, <3>1 DEF Divides
    <3> HIDE DEF n, e
    <3>3. ASSUME e < m PROVE FALSE
      <4>1. e \in 0 .. n - 1
        BY <1>1, <1>5, <1>6, <3>3
      <4> DEFINE t == SectionAt(list, e)
      <4>2. t \in 0 .. 3 /\ t < s
        BY <1>4, <1>5, <3>3, <4>1
      <4>3. e < e <=> t < s + 1
        BY <3>2, <4>1
      <4> HIDE DEF t
      <4> QED BY <4>1, <4>2, <4>3
    <3> QED BY <1>1, <1>5, <1>6, <3>3
  <2> QED BY <2>1, <2>2
<1>8. SectionFrom(sec, n, s, m, e)
  <2>1. sec \in [0 .. n - 1 -> 0 .. 3] /\ \A a \in 0 .. n - 1 : a < m <=> sec[a] < s
    BY <1>4, <1>5
  <2> HIDE DEF n, e
  <2>2. ASSUME NEW a \in 0 .. n - 1 PROVE a < e <=> sec[a] <= s
    <3> DEFINE t == SectionAt(list, a)
    <3>1. sec[a] = t /\ t \in 0 .. 3
      BY <1>4
    <3>2. (t = s <=> m <= a /\ a < e) /\ (a < m <=> t < s)
      BY <1>5, <1>6
    <3> HIDE DEF t, sec
    <3> QED BY <1>1, <1>5, <1>6, <1>7, <3>1, <3>2
  <2> QED BY <1>5, <1>6, <2>1, <2>2 DEF SectionFrom
<1>9. CASE n = 0
  <2>1. SectionBound(list, s) = 0
    BY <1>9 DEF SectionBound
  <2>2. m = 0
    BY <1>5, <1>9
  <2> QED BY <1>9, <2>1, <2>2 DEF FoundFrom, m
<1>10. CASE n # 0
  <2>1. i \in 0 .. n - 1
    <3> DEFINE p == s * (n \div 4)
    <3>1. p \in Nat /\ n - 1 \in Nat
      <4>1. n \div 4 \in Nat
        BY <1>1, Quotient
      <4> QED BY <1>1, <1>10, <4>1
    <3>2. i = Min({p, n - 1})
      BY DEF Ideal
    <3> HIDE DEF p
    <3>3. i = IF p <= n - 1 THEN p ELSE n - 1
      BY <3>1, <3>2, MinPair
    <3> HIDE DEF i
    <3> QED BY <3>1, <3>3
  <2>2. \A a \in 0 .. n - 1 : sec[a] = SectionAt(list, a)
    OBVIOUS
  <2> DEFINE back == Max({a \in 0 .. i : a = 0 \/ sec[a] <= s})
  <2>3. SectionBound(list, s) =
          CASE sec[i] < s -> Min({n} \cup {a \in i .. n - 1 : sec[a] >= s})
            [] sec[i] > s -> IF sec[back] < s THEN back + 1 ELSE back
            [] sec[i] = s -> Min({a \in 0 .. i : \A c \in a .. i : sec[c] = s})
    <3> DEFINE Sec(a) == SectionOf(list[a + 1].hash)
               last == Max({a \in 0 .. i : a = 0 \/ Sec(a) <= s})
    <3>1. \A a \in 0 .. n - 1 : sec[a] = Sec(a)
      BY DEF SectionAt, HashAt
    <3>2. SectionBound(list, s) =
            CASE n = 0 -> 0
              [] n > 0 /\ Sec(i) < s -> Min({n} \cup {a \in i .. n - 1 : Sec(a) >= s})
              [] n > 0 /\ Sec(i) > s -> IF Sec(last) < s THEN last + 1 ELSE last
              [] n > 0 /\ Sec(i) = s -> Min({a \in 0 .. i : \A c \in a .. i : Sec(c) = s})
      BY DEF SectionBound, Ideal
    <3>3. Sec(i) = sec[i] /\ Sec(i) \in 0 .. 3
      BY <1>8, <2>1, <3>1 DEF SectionFrom
    <3> HIDE DEF Sec, sec, i, n
    <3>4. {a \in i .. n - 1 : Sec(a) >= s} = {a \in i .. n - 1 : sec[a] >= s}
      <4>1. \A a \in i .. n - 1 : a \in 0 .. n - 1
        BY <1>1, <2>1
      <4> QED BY <3>1, <4>1
    <3>5. {a \in 0 .. i : a = 0 \/ Sec(a) <= s} = {a \in 0 .. i : a = 0 \/ sec[a] <= s}
      <4>1. \A a \in 0 .. i : a \in 0 .. n - 1
        BY <1>1, <2>1
      <4> QED BY <3>1, <4>1
    <3>6. {a \in 0 .. i : \A c \in a .. i : Sec(c) = s} = {a \in 0 .. i : \A c \in a .. i : sec[c] = s}
      <4>1. \A a \in 0 .. i : \A c \in a .. i : c \in 0 .. n - 1
        BY <1>1, <2>1
      <4> QED BY <3>1, <4>1
    <3>7. back \in 0 .. n - 1
      <4> DEFINE S == {a \in 0 .. i : a = 0 \/ sec[a] <= s}
      <4>1. S \subseteq Nat /\ S # {} /\ i \in Nat /\ \A x \in S : x <= i
        BY <2>1
      <4>2. Max(S) \in S
        BY <4>1, MaxNat
      <4>3. back \in 0 .. i
        BY <4>2
      <4> HIDE DEF back
      <4> QED BY <1>1, <2>1, <4>3
    <3>8. last = back
      BY <3>5
    <3> HIDE DEF last, back
    <3>9. Sec(last) = sec[back]
      BY <3>1, <3>7, <3>8
    <3>10. n > 0
      BY <1>1, <1>10
    <3> DEFINE u == sec[i]
    <3>11. u \in 0 .. 3 /\ Sec(i) = u
      BY <3>3
    <3> HIDE DEF u
    <3>12. CASE u < s
      <4>1. SectionBound(list, s) = Min({n} \cup {a \in i .. n - 1 : Sec(a) >= s})
        BY <3>2, <3>10, <3>11, <3>12
      <4> QED BY <3>4, <3>11, <3>12, <4>1 DEF u
    <3>13. CASE u > s
      <4>1. SectionBound(list, s) = IF Sec(last) < s THEN last + 1 ELSE last
        BY <3>2, <3>10, <3>11, <3>13
      <4> QED BY <3>8, <3>9, <3>11, <3>13, <4>1 DEF u
    <3>14. CASE u = s
      <4>1. SectionBound(list, s) = Min({a \in 0 .. i : \A c \in a .. i : Sec(c) = s})
        BY <3>2, <3>10, <3>11, <3>14
      <4> QED BY <3>6, <3>11, <3>14, <4>1 DEF u
    <3>15. u < s \/ u > s \/ u = s
      BY <3>11
    <3> QED BY <3>12, <3>13, <3>14, <3>15, Zenon
  <2>4. FoundFrom(list, s) <=>
          \/ sec[i] <= s
          \/ \A a, c \in 0 .. n - 1 : sec[a] = s /\ sec[c] = s => a = c
    BY <1>10, <2>1, <2>2 DEF FoundFrom
  <2>5. sec[i] \in 0 .. 3
    BY <1>4, <2>1
  <2> HIDE DEF sec, i, n, e, back
  <2>6. CASE sec[i] < s
    <3>1. SectionBound(list, s) = Min({n} \cup {a \in i .. n - 1 : sec[a] >= s})
      BY <2>3, <2>5, <2>6
    <3>2. SectionBound(list, s) = m
      BY <1>1, <1>8, <2>1, <2>6, <3>1, SearchForward
    <3> QED BY <2>4, <2>5, <2>6, <3>2 DEF m
  <2>7. CASE sec[i] = s
    <3>1. SectionBound(list, s) = Min({a \in 0 .. i : \A c \in a .. i : sec[c] = s})
      BY <2>3, <2>5, <2>7
    <3>2. SectionBound(list, s) = m
      BY <1>1, <1>8, <2>1, <2>7, <3>1, SearchWithin
    <3> QED BY <2>4, <2>5, <2>7, <3>2 DEF m
  <2>8. CASE sec[i] > s
    <3>1. SectionBound(list, s) = IF sec[back] < s THEN back + 1 ELSE back
      BY <2>3, <2>5, <2>8
    <3>2. SectionBound(list, s) = m <=> \A a, c \in 0 .. n - 1 : sec[a] = s /\ sec[c] = s => a = c
      <4>1. back = Max({a \in 0 .. i : a = 0 \/ sec[a] <= s})
        BY DEF back
      <4> QED BY <1>1, <1>8, <2>1, <2>8, <3>1, <4>1, SearchBack
    <3>3. ~ (sec[i] <= s)
      BY <2>5, <2>8
    <3> QED BY <2>4, <3>2, <3>3 DEF m
  <2> QED BY <2>5, <2>6, <2>7, <2>8
<1> QED BY <1>9, <1>10

-----------------------------------------------------------------------------
(* Which searches find their sections                                      *)

\* The sections are looked for in the lists that are joined.
BoundsInv == phase = "match1" => bounds = [x1 |-> BoundsOf(x1s), x2 |-> BoundsOf(x2s)]

\* Before table 1 there is nothing to keep of its matching.
LEMMA ListsAlone ==
  ASSUME ListsInv, phase \in {"hash", "filter"}
  PROVE  CInv
BY DEF CInv, MergeInv, MatchedInv, Late

\* No step changes that the lists are complete and sorted, and their sections
\* those that the search for them finds.
LEMMA NextLists ==
  ASSUME IInv, ListsInv, BoundsInv, [Next]_vars
  PROVE  ListsInv' /\ BoundsInv'
<1>1. CASE HashX1
  <2>1. phase \in {"hash", "filter"} /\ phase' = "filter"
    BY <1>1 DEF HashX1
  <2>2. CInv'
    BY <1>1, <2>1, ListsAlone, HashX1CInv
  <2> QED BY <2>1, <2>2 DEF CInv, BoundsInv
<1>2. ASSUME NEW w \in Workers, FilterChunk(w) PROVE ListsInv' /\ BoundsInv'
  <2>1. phase \in {"hash", "filter"} /\ phase' = "filter"
    BY <1>2 DEF FilterChunk
  <2>2. CInv'
    BY <1>2, <2>1, ListsAlone, FilterChunkCInv
  <2> QED BY <2>1, <2>2 DEF CInv, BoundsInv
<1>3. CASE JoinFilter
  <2>1. phase \in {"hash", "filter"}
    BY <1>3 DEF JoinFilter
  <2>2. CInv'
    BY <1>3, <2>1, ListsAlone, JoinFilterCInv
  <2>3. phase' = "match1" => x1s' = x1s /\ bounds' = [x1 |-> BoundsOf(x1s), x2 |-> BoundsOf(x2s')]
    BY <1>3 DEF JoinFilter
  <2> QED BY <2>2, <2>3 DEF CInv, BoundsInv
<1>4. CASE phase' \notin {"hash", "filter", "match1"}
  BY <1>4 DEF ListsInv, BoundsInv
<1>5. CASE phase' = phase /\ UNCHANGED <<asked, listVars>>
  <2>1. Plot' = Plot
    BY <1>5, CallStays DEF SameCall
  <2>2. unique' = unique /\ x1s' = x1s /\ x2s' = x2s /\ bounds' = bounds /\ found' = found /\ failed' = failed
    BY <1>5 DEF listVars
  <2>3. ListsInv'
    BY <1>5, <2>1, <2>2 DEF ListsInv
  <2>4. BoundsInv'
    BY <1>5, <2>2 DEF BoundsInv
  <2> QED BY <2>3, <2>4
<1>6. ASSUME NEW w \in Workers, MatchWork(w) PROVE ListsInv' /\ BoundsInv'
  <2>1. \/ phase' \notin {"hash", "filter", "match1"}
        \/ phase' = phase /\ UNCHANGED <<asked, listVars>>
    BY <1>6 DEF MatchWork, EnterSection, Scan, PairUp, Store, EndRun, MatchLeft
  <2> QED BY <1>4, <1>5, <2>1
<1>7. CASE JoinMatch1 \/ Begin2 \/ JoinMatch2 \/ MatchT3 \/ Construct
  BY <1>4, <1>7 DEF JoinMatch1, Begin2, JoinMatch2, MatchT3, Construct
<1>8. CASE UNCHANGED vars
  BY <1>5, <1>8 DEF vars
<1>9. CASE Next
  BY <1>1, <1>2, <1>3, <1>6, <1>7, <1>8, <1>9 DEF Next, Coordinate
<1> QED BY <1>8, <1>9

\* It is so in every search.
LEMMA ListsKeep == Spec => [](ListsInv /\ BoundsInv)
<1>1. Init => ListsInv /\ BoundsInv
  BY InitCInv DEF Init, CInv, BoundsInv
<1>2. IInv /\ (ListsInv /\ BoundsInv) /\ [Next]_vars => (ListsInv /\ BoundsInv)'
  BY NextLists
<1> QED BY <1>1, <1>2, SolverKeeps, PTL DEF Spec

\* The lists that table 1 joins are sorted and have every candidate they should,
\* each once.
CandidatesExact ==
  phase = "match1" =>
    /\ OnceEach(x1s, Wanted1(Plot, unique)) /\ InHashOrder(x1s)
    /\ OnceEach(x2s, Wanted2(Plot, x1s)) /\ InHashOrder(x2s)

\* Whatever the number of threads and the order in which they fill their parts,
\* no search that matches table 1 has lost a candidate or has one twice.
THEOREM CandidatesComplete == Spec => []CandidatesExact
<1>1. ListsInv => CandidatesExact
  BY DEF ListsInv, CandidatesExact
<1> QED BY <1>1, ListsKeep, PTL

\* No section of several entries lies before the index at which the search for
\* it begins.
SectionsReached == \A s \in Sections : FoundFrom(x1s, s) /\ FoundFrom(x2s, s)

\* The sections are divided right if and only if that is so.
BoundsFindExactly == phase = "match1" => (BoundsFindSections <=> SectionsReached)

\* The comment at computeSectionBoundaries is true of exactly the searches in
\* which it begins beyond no section of several entries: in all others an entry
\* of the section is left out.
THEOREM SectionsFound == Spec => []BoundsFindExactly
<1>1. ASSUME IInv, ListsInv, BoundsInv, phase = "match1" PROVE BoundsFindSections <=> SectionsReached
  <2>1. OnceEach(x1s, Wanted1(Plot, unique)) /\ InHashOrder(x1s) /\ OnceEach(x2s, Wanted2(Plot, x1s)) /\ InHashOrder(x2s)
    BY <1>1 DEF ListsInv
  <2>2. Listed(x1s) /\ Listed(x2s)
    <3>1. Wanted1(Plot, unique) \subseteq Candidate /\ Wanted2(Plot, x1s) \subseteq Candidate
      BY DEF Wanted1, GoodX1, Wanted2, GoodX2
    <3> QED BY <2>1, <3>1, OnceListed
  <2>3. ASSUME NEW s \in Sections
        PROVE  /\ bounds.x1[s] = Before(x1s, s) <=> FoundFrom(x1s, s)
               /\ bounds.x2[s] = Before(x2s, s) <=> FoundFrom(x2s, s)
    <3>1. s \in 0 .. 3
      BY DEF Sections
    <3>2. bounds.x1[s] = SectionBound(x1s, s) /\ bounds.x2[s] = SectionBound(x2s, s)
      BY <1>1 DEF BoundsInv, BoundsOf
    <3> QED BY <2>2, <3>1, <3>2, SectionBoundFinds
  <2>4. BoundsFindSections <=>
          \A s \in Sections : bounds.x1[s] = Before(x1s, s) /\ bounds.x2[s] = Before(x2s, s)
    BY <1>1 DEF BoundsFindSections, Before
  <2> QED BY <2>3, <2>4 DEF SectionsReached
<1>2. ASSUME IInv, ListsInv, BoundsInv PROVE BoundsFindExactly
  BY <1>1, <1>2 DEF BoundsFindExactly
<1> QED BY <1>2, SolverKeeps, ListsKeep, PTL

\* So it is on the lists alone that it depends whether table 1 is complete.
THEOREM MatchesFoundIfReached == Spec /\ [](phase = "match1" => SectionsReached) => []MatchesOnce
<1>1. BoundsFindExactly /\ (phase = "match1" => SectionsReached) => BoundsFindSections
  BY DEF BoundsFindExactly, BoundsFindSections
<1> QED BY <1>1, SectionsFound, MatchesFoundOnce, PTL

-----------------------------------------------------------------------------
(* Lists multiplied out                                                    *)

\* An index of m times k is one of m and one of k.
LEMMA SplitIndex ==
  ASSUME NEW m \in Nat, NEW k \in Nat, NEW i \in Nat, i < m * k
  PROVE  /\ k # 0 /\ i \div k \in 0 .. m - 1 /\ i % k \in 0 .. k - 1
         /\ i = (k * (i \div k)) + (i % k)
<1> DEFINE q == i \div k
           r == i % k
<1>1. k \in Nat \ {0}
  OBVIOUS
<1>2. q \in Nat /\ r \in 0 .. k - 1 /\ i = (k * q) + r
  BY <1>1, Quotient
<1> HIDE DEF q, r
<1>3. q < m
  <2>1. SUFFICES ASSUME m <= q PROVE FALSE
    BY <1>2
  <2>2. m * k <= q * k /\ q * k = k * q /\ k * q \in Nat /\ m * k \in Nat
    BY <1>2, <2>1
  <2> DEFINE u == m * k
             w == k * q
  <2>3. u <= w /\ i < u /\ i = w + r /\ r \in Nat /\ u \in Nat /\ w \in Nat
    BY <1>1, <1>2, <2>2
  <2> HIDE DEF u, w
  <2> QED BY <2>3
<1>4. q \in 0 .. m - 1
  BY <1>2, <1>3
<1> QED BY <1>1, <1>2, <1>4 DEF q, r

\* And these two make such an index.
LEMMA MakeIndex ==
  ASSUME NEW m \in Nat, NEW k \in Nat, NEW q \in 0 .. m - 1, NEW r \in 0 .. k - 1
  PROVE  /\ (k * q) + r \in Nat /\ (k * q) + r < m * k /\ k # 0
         /\ ((k * q) + r) \div k = q /\ ((k * q) + r) % k = r
<1> DEFINE i == (k * q) + r
<1>1. k \in Nat \ {0} /\ q \in Nat /\ q + 1 <= m
  OBVIOUS
<1>2. i \in Nat
  BY <1>1
<1>3. i < m * k
  <2>1. (q + 1) * k <= m * k /\ (q + 1) * k = (k * q) + k
    BY <1>1
  <2> DEFINE u == m * k
             w == k * q
  <2>2. u \in Nat /\ w \in Nat /\ w + k <= u
    BY <1>1, <2>1
  <2> HIDE DEF u, w
  <2>3. w + r < u
    BY <1>1, <2>2
  <2> QED BY <2>3 DEF u, w
<1>4. i \div k = q /\ i % k = r
  BY <1>1, <1>2, OneQuotient
<1> QED BY <1>1, <1>2, <1>3, <1>4

\* Two lists of one length joined are as many as there are pairs of them.
LEMMA JoinedApart ==
  ASSUME NEW E, NEW a \in Seq(E), NEW b \in Seq(E), NEW c \in Seq(E), NEW d \in Seq(E),
         Len(a) = Len(c), a \o b = c \o d
  PROVE  a = c /\ b = d
<1>1. Joins(E, a, b, a \o b) /\ Joins(E, c, d, a \o b)
  BY ListsJoined
<1> DEFINE l == a \o b
           n == Len(a)
<1>2. /\ Len(l) = n + Len(b) /\ Len(l) = n + Len(d) /\ n \in Nat /\ Len(b) \in Nat /\ Len(d) \in Nat
      /\ \A i \in 1 .. n : l[i] = a[i] /\ l[i] = c[i]
      /\ (\A i \in 1 .. Len(b) : l[i + n] = b[i]) /\ (\A i \in 1 .. Len(d) : l[i + n] = d[i])
  BY <1>1 DEF Joins
<1> HIDE DEF l, n
<1>3. Len(b) = Len(d)
  BY <1>2
<1>4. \A i \in 1 .. n : a[i] = c[i]
  BY <1>2
<1>5. \A i \in 1 .. Len(b) : b[i] = d[i]
  BY <1>2, <1>3
<1>6. a = c
  BY <1>4, SameList DEF n
<1>7. b = d
  BY <1>3, <1>5, SameList
<1> QED BY <1>6, <1>7

\* All pairs of two sets of lists, joined.
JoinsOf(E, F) == {p[1] \o p[2] : p \in E \X F}

\* Lists of one length.
OfLength(X, E, n) == E \subseteq Seq(X) /\ \A e \in E : Len(e) = n

\* Two lists with everything once, multiplied out, are one.
LEMMA ProductOnce ==
  ASSUME NEW X, NEW E, NEW F, NEW n, OfLength(X, E, n), F \subseteq Seq(X),
         NEW a, OnceEach(a, E), NEW b, OnceEach(b, F)
  PROVE  OnceEach(Product(a, b), JoinsOf(E, F))
<1> DEFINE m == Len(a)
           k == Len(b)
           P == m * k
           G == JoinsOf(E, F)
           At(i) == a[((i - 1) \div k) + 1] \o b[((i - 1) % k) + 1]
           l == Product(a, b)
<1>1. /\ a \in Seq(E) /\ b \in Seq(F) /\ m \in Nat /\ k \in Nat
      /\ (\A i \in 1 .. m : a[i] \in E) /\ (\A i \in 1 .. k : b[i] \in F)
  BY DEF OnceEach
<1>2. /\ \A e \in E : \E i \in 1 .. m : a[i] = e
      /\ \A e \in F : \E i \in 1 .. k : b[i] = e
  BY DEF OnceEach
<1>3. /\ \A i, j \in 1 .. m : a[i] = a[j] => i = j
      /\ \A i, j \in 1 .. k : b[i] = b[j] => i = j
  BY DEF OnceEach
<1>4. l = [i \in 1 .. P |-> At(i)]
  BY DEF Product
<1>5. P \in Nat
  BY <1>1
<1>6. l \in Seq(G)
  <2>1. \A e \in E, f \in F : e \o f \in G
    <3>1. ASSUME NEW e \in E, NEW f \in F PROVE e \o f \in G
      <4>1. <<e, f>> \in E \X F /\ <<e, f>>[1] = e /\ <<e, f>>[2] = f
        OBVIOUS
      <4> QED BY <4>1, Zenon DEF JoinsOf
    <3> QED BY <3>1
  <2> HIDE DEF G
  <2> QED BY <1>1, <2>1, ProductGood
<1> HIDE DEF l
<1>7. Len(l) = P
  BY <1>4, <1>5
<1> DEFINE Q(i) == ((i - 1) \div k) + 1
           R(i) == ((i - 1) % k) + 1
<1> HIDE DEF m, k, At
<1>8. ASSUME NEW i \in 1 .. P
      PROVE  Q(i) \in 1 .. m /\ R(i) \in 1 .. k /\ l[i] = a[Q(i)] \o b[R(i)] /\ i = (k * (Q(i) - 1)) + R(i)
  <2> DEFINE j == i - 1
  <2>1. j \in Nat /\ j < m * k
    <3> HIDE DEF P
    <3>1. j \in Nat /\ j < P
      BY <1>5
    <3> QED BY <3>1 DEF P
  <2> HIDE DEF j
  <2> DEFINE q == j \div k
             r == j % k
  <2>2. q \in 0 .. m - 1 /\ r \in 0 .. k - 1 /\ j = (k * q) + r
    BY <1>1, <2>1, SplitIndex
  <2> HIDE DEF q, r
  <2>3. q + 1 \in 1 .. m /\ r + 1 \in 1 .. k /\ (q + 1) - 1 = q
    BY <1>1, <2>2
  <2>4. i = (k * q) + (r + 1)
    <3> DEFINE w == k * q
    <3>1. w \in Int
      BY <1>1, <2>2
    <3>2. i = j + 1 /\ i \in Int
      BY <1>5 DEF j
    <3> HIDE DEF w
    <3>3. j = w + r
      BY <2>2 DEF w
    <3>4. i = w + (r + 1)
      BY <1>1, <2>2, <3>1, <3>2, <3>3
    <3> QED BY <3>4 DEF w
  <2>5. Q(i) = q + 1 /\ R(i) = r + 1
    BY DEF q, r, j
  <2>6. l[i] = a[Q(i)] \o b[R(i)]
    BY <1>4 DEF At
  <2> HIDE DEF Q, R
  <2> QED BY <2>3, <2>4, <2>5, <2>6
<1>9. ASSUME NEW g \in G PROVE \E i \in 1 .. P : l[i] = g
  <2>1. PICK e \in E, f \in F : g = e \o f
    BY DEF JoinsOf
  <2>2. PICK s \in 1 .. m : a[s] = e
    BY <1>2, <2>1
  <2>3. PICK t \in 1 .. k : b[t] = f
    BY <1>2, <2>1
  <2> DEFINE q == s - 1
             r == t - 1
             j == (k * q) + r
  <2>4. q \in 0 .. m - 1 /\ r \in 0 .. k - 1 /\ q + 1 = s /\ r + 1 = t
    BY <1>1
  <2> HIDE DEF q, r
  <2>5. j \in Nat /\ j < P /\ j \div k = q /\ j % k = r
    <3>1. m \in Nat /\ k \in Nat /\ q \in 0 .. m - 1 /\ r \in 0 .. k - 1
      BY <1>1, <2>4
    <3>2. /\ (k * q) + r \in Nat /\ (k * q) + r < m * k
          /\ ((k * q) + r) \div k = q /\ ((k * q) + r) % k = r
      BY <3>1, MakeIndex
    <3> QED BY <3>2
  <2> HIDE DEF j, P
  <2>6. j + 1 \in 1 .. P /\ (j + 1) - 1 = j
    BY <1>5, <2>5
  <2>7. l[j + 1] = g
    BY <1>8, <2>1, <2>2, <2>3, <2>4, <2>5, <2>6
  <2> QED BY <2>6, <2>7
<1>10. ASSUME NEW i \in 1 .. P, NEW j \in 1 .. P, l[i] = l[j] PROVE i = j
  <2> HIDE DEF Q, R
  <2>1. /\ Q(i) \in 1 .. m /\ R(i) \in 1 .. k /\ l[i] = a[Q(i)] \o b[R(i)]
        /\ Q(j) \in 1 .. m /\ R(j) \in 1 .. k /\ l[j] = a[Q(j)] \o b[R(j)]
    BY <1>8
  <2>2. a[Q(i)] \in E /\ a[Q(j)] \in E /\ b[R(i)] \in F /\ b[R(j)] \in F
    BY <1>1, <2>1
  <2>3. a[Q(i)] = a[Q(j)] /\ b[R(i)] = b[R(j)]
    <3> DEFINE p == a[Q(i)]
               q == a[Q(j)]
               r == b[R(i)]
               s == b[R(j)]
    <3>1. p \in Seq(X) /\ q \in Seq(X) /\ r \in Seq(X) /\ s \in Seq(X) /\ Len(p) = Len(q)
      BY <2>2 DEF OfLength
    <3>2. p \o r = q \o s
      BY <1>10, <2>1
    <3> HIDE DEF p, q, r, s
    <3>3. p = q /\ r = s
      BY <3>1, <3>2, JoinedApart
    <3> QED BY <3>3 DEF p, q, r, s
  <2>4. Q(i) = Q(j) /\ R(i) = R(j)
    BY <1>3, <2>1, <2>3
  <2>5. i = (k * (Q(i) - 1)) + R(i) /\ j = (k * (Q(j) - 1)) + R(j)
    BY <1>8
  <2> QED BY <2>4, <2>5
<1>11. OnceEach(l, G)
  <2> HIDE DEF P, G
  <2> QED BY <1>6, <1>7, <1>9, <1>10 DEF OnceEach
<1> QED BY <1>11 DEF l

-----------------------------------------------------------------------------
(* The groups of table 1 are complete                                      *)

\* A match is known by its x values.
LEMMA SameMatch ==
  ASSUME NEW plot, NEW m \in GoodMatch(plot), NEW n \in GoodMatch(plot), m.x1 = n.x1, m.x2 = n.x2
  PROVE  m = n
<1>1. m \in Match /\ n \in Match /\ m.hash = n.hash
  BY DEF GoodMatch
<1>2. m = [x1 |-> m.x1, x2 |-> m.x2, hash |-> m.hash] /\ n = [x1 |-> n.x1, x2 |-> n.x2, hash |-> n.hash]
  BY <1>1 DEF Match
<1> QED BY <1>1, <1>2

\* The matches of the wanted x ranges.
WantedMatches == {m \in GoodMatch(Plot) : \E i \in DOMAIN unique : Upper(m.x1) = unique[i]}
Slots == [i \in 1 .. taken |-> t1[i - 1]]

\* The slots that are the wanted pairs are the wanted matches.
LEMMA SlotsOnce ==
  ASSUME IInv, SlotsAre
  PROVE  OnceEach(Slots, WantedMatches)
<1> USE CallIs
<1>1. taken \in Nat /\ DOMAIN t1 = 0 .. taken - 1
  BY DEF SlotsAre
<1>2. ASSUME NEW s \in DOMAIN t1 PROVE t1[s] \in WantedMatches
  <2>1. t1[s] \in GoodMatch(Plot)
    BY DEF SlotsOK
  <2>2. <<t1[s].x1, t1[s].x2>> \in WantedPairs
    BY DEF SlotsAre, PairIn
  <2>3. \E i \in DOMAIN unique : Upper(t1[s].x1) = unique[i]
    BY <2>2 DEF WantedPairs
  <2> QED BY <2>1, <2>3 DEF WantedMatches
<1>3. \A i \in 1 .. taken : i - 1 \in DOMAIN t1 /\ Slots[i] = t1[i - 1]
  BY <1>1 DEF Slots
<1>4. Slots \in Seq(WantedMatches) /\ Len(Slots) = taken
  <2>1. Slots \in [1 .. taken -> WantedMatches]
    <3>1. DOMAIN Slots = 1 .. taken /\ Slots = [i \in 1 .. taken |-> Slots[i]]
      BY DEF Slots
    <3>2. \A i \in 1 .. taken : Slots[i] \in WantedMatches
      BY <1>2, <1>3
    <3> QED BY <3>1, <3>2
  <2> QED BY <1>1, <2>1, ListOf
<1>5. ASSUME NEW m \in WantedMatches PROVE \E i \in 1 .. taken : Slots[i] = m
  <2>1. m \in GoodMatch(Plot) /\ m.x1 \in Xs /\ m.x2 \in Xs /\ ValidPair(Plot, <<m.x1, m.x2>>)
        /\ \E i \in DOMAIN unique : Upper(m.x1) = unique[i]
    BY DEF WantedMatches, GoodMatch, Match
  <2>2. <<m.x1, m.x2>> \in WantedPairs
    <3> DEFINE p == <<m.x1, m.x2>>
    <3>1. p \in Xs \X Xs /\ p[1] = m.x1 /\ ValidPair(Plot, p)
      BY <2>1
    <3> HIDE DEF p
    <3>2. p \in WantedPairs
      BY <2>1, <3>1 DEF WantedPairs
    <3> QED BY <3>2 DEF p
  <2>3. PICK s \in DOMAIN t1 : PairIn(t1[s]) = <<m.x1, m.x2>>
    BY <2>2 DEF SlotsAre
  <2>4. t1[s].x1 = m.x1 /\ t1[s].x2 = m.x2
    BY <2>3 DEF PairIn
  <2>5. t1[s] \in GoodMatch(Plot)
    BY <1>2 DEF WantedMatches
  <2>6. t1[s] = m
    BY <2>1, <2>4, <2>5, SameMatch
  <2>7. s + 1 \in 1 .. taken /\ (s + 1) - 1 = s
    BY <1>1
  <2> QED BY <1>3, <2>6, <2>7
<1>6. ASSUME NEW i \in 1 .. taken, NEW j \in 1 .. taken, Slots[i] = Slots[j] PROVE i = j
  <2>1. i - 1 \in DOMAIN t1 /\ j - 1 \in DOMAIN t1 /\ t1[i - 1] = t1[j - 1]
    BY <1>3, <1>6
  <2>2. i - 1 = j - 1
    BY <2>1 DEF SlotsAre, Apart
  <2> QED BY <2>2
<1> QED BY <1>4, <1>5, <1>6 DEF OnceEach

\* groupT1Matches: of every x range all matches.
LEMMA GroupsOnce ==
  ASSUME NEW matches, OnceEach(matches, WantedMatches), NEW g \in DOMAIN unique
  PROVE  OnceEach(GroupsOf(matches)[g], MatchesIn(Plot, unique[g]))
<1> DEFINE F == MatchesIn(Plot, unique[g])
           at == {i \in DOMAIN matches : Upper(matches[i].x1) = unique[g]}
           at2 == {i \in DOMAIN matches : matches[i] \in F}
<1>1. GroupsOf(matches)[g] = Those(matches, at)
  BY DEF GroupsOf
<1>2. \A i \in DOMAIN matches : matches[i] \in GoodMatch(Plot)
  <2>1. matches \in Seq(WantedMatches)
    BY DEF OnceEach
  <2>2. \A i \in DOMAIN matches : matches[i] \in WantedMatches
    BY <2>1, ListShape
  <2> QED BY <2>2 DEF WantedMatches
<1>3. at = at2
  BY <1>2 DEF MatchesIn
<1>4. OnceEach(Those(matches, at2), WantedMatches \cap F)
  BY OnceThose
<1>5. WantedMatches \cap F = F
  BY DEF MatchesIn, WantedMatches
<1> QED BY <1>1, <1>3, <1>4, <1>5

\* So they are until the end.
GroupsExact == phase \in Late => \A g \in DOMAIN unique : OnceEach(groups[g], MatchesIn(Plot, unique[g]))

\* When the threads of table 1 are joined, the slots are the wanted pairs.
LEMMA JoinedSlots ==
  ASSUME IInv, CInv, BoundsFindSections, JoinMatch1
  PROVE  SlotsAre
<1>1. phase' = "begin2" /\ UNCHANGED <<asked, unique, t1, taken>>
  BY DEF JoinMatch1, listVars, matchVars
<1>2. SlotsAre'
  BY <1>1, JoinMatch1CInv DEF CInv, MatchedInv, Late
<1>3. Plot' = Plot /\ WantedPairs' = WantedPairs /\ t1' = t1 /\ taken' = taken
  BY <1>1, CallStays DEF SameCall, WantedPairs
<1> QED BY <1>2, <1>3 DEF SlotsAre

\* The groups are complete when they are made.
LEMMA JoinMatch1Exact ==
  ASSUME IInv, CInv, BoundsFindSections, JoinMatch1
  PROVE  GroupsExact'
<1>1. /\ phase' = "begin2" /\ UNCHANGED <<asked, unique>>
      /\ groups' = GroupsOf(Slots)
  BY DEF JoinMatch1, listVars, Slots
<1>2. Plot' = Plot
  BY <1>1, CallStays DEF SameCall
<1>3. OnceEach(Slots, WantedMatches)
  BY JoinedSlots, SlotsOnce
<1>4. \A g \in DOMAIN unique : OnceEach(groups'[g], MatchesIn(Plot, unique[g]))
  BY <1>1, <1>3, GroupsOnce
<1> QED BY <1>1, <1>2, <1>4 DEF GroupsExact

\* And nothing changes them.
LEMMA GroupsExactKept ==
  ASSUME GroupsExact, phase' \in Late => phase \in Late, UNCHANGED <<asked, unique, groups>>
  PROVE  GroupsExact'
<1>1. Plot' = Plot
  BY CallStays DEF SameCall
<1> QED BY <1>1 DEF GroupsExact

\* The group of a place of the quality string is complete.
LEMMA GroupAll ==
  ASSUME IInv, GroupsExact, phase \in Late, NEW i \in 1 .. 4 * Fragments
  PROVE  OnceEach(groups[mapping[i]], MatchesIn(Plot, XBits[i]))
<1> USE CallIs
<1>1. mapping[i] \in DOMAIN unique /\ unique[mapping[i]] = XBits[i]
  BY DEF MappingOK, Late
<1>2. OnceEach(groups[mapping[i]], MatchesIn(Plot, unique[mapping[i]]))
  BY <1>1 DEF GroupsExact
<1> QED BY <1>1, <1>2

-----------------------------------------------------------------------------
(* What a left entry of table 2 finds                                      *)

\* What the numbers of a set stand for, in their order.
InTurn(f, S) == [i \in DOMAIN InOrder(S) |-> f[InOrder(S)[i]]]

\* If they stand for each thing once, so does the list have it.
LEMMA OnceInOrder ==
  ASSUME NEW S, S \subseteq Nat, IsFiniteSet(S), NEW E, NEW f \in [S -> E],
         \A e \in E : \E n \in S : f[n] = e, \A m, n \in S : f[m] = f[n] => m = n
  PROVE  OnceEach(InTurn(f, S), E)
<1> DEFINE o == InOrder(S)
           N == Cardinality(S)
           l == [i \in DOMAIN o |-> f[o[i]]]
<1>1. Lists(o, S)
  BY InOrderLists
<1> HIDE DEF o
<1>2. N \in Nat /\ o \in [1 .. N -> S] /\ \A i \in S : \E k \in 1 .. N : o[k] = i
  BY <1>1 DEF Lists
<1>3. \A k, m \in 1 .. N : k < m => o[k] < o[m]
  BY <1>1 DEF Lists
<1> HIDE DEF N
<1>4. ASSUME NEW k \in 1 .. N, NEW m \in 1 .. N, o[k] = o[m] PROVE k = m
  <2>1. o[k] \in Nat /\ o[m] \in Nat
    BY <1>2
  <2>2. ~ (k < m) /\ ~ (m < k)
    BY <1>3, <1>4, <2>1
  <2> QED BY <1>2, <2>2
<1>5. l = [i \in 1 .. N |-> f[o[i]]]
  BY <1>2
<1> HIDE DEF l
<1>6. l \in Seq(E) /\ Len(l) = N /\ \A i \in 1 .. N : l[i] = f[o[i]] /\ o[i] \in S
  <2>1. l \in [1 .. N -> E]
    BY <1>2, <1>5
  <2> QED BY <1>2, <1>5, <2>1, ListOf
<1>7. ASSUME NEW e \in E PROVE \E i \in 1 .. N : l[i] = e
  <2>1. PICK n \in S : f[n] = e
    OBVIOUS
  <2>2. PICK k \in 1 .. N : o[k] = n
    BY <1>2
  <2> QED BY <1>6, <2>1, <2>2
<1>8. ASSUME NEW i \in 1 .. N, NEW k \in 1 .. N, l[i] = l[k] PROVE i = k
  <2>1. f[o[i]] = f[o[k]] /\ o[i] \in S /\ o[k] \in S
    BY <1>6, <1>8
  <2>2. o[i] = o[k]
    BY <2>1
  <2> QED BY <1>4, <2>2
<1>9. OnceEach(l, E)
  BY <1>6, <1>7, <1>8 DEF OnceEach
<1> QED BY <1>9 DEF l, o, InTurn

\* In a sorted list the walk along a reduced hash meets all of it.
LEMMA BucketAll ==
  ASSUME NEW E, \A e \in E : e.hash \in Nat, right \in Seq(E), InHashOrder(right), NEW j \in 1 .. Len(right)
  PROVE  j \in Bucket(right[j].hash \div Reduce)
<1> DEFINE L == Len(right)
           Red(i) == right[i].hash \div Reduce
           own == {i \in DOMAIN right : Red(i) = Red(j)}
           first == Min(own)
<1>1. L \in Nat /\ DOMAIN right = 1 .. L /\ \A i \in 1 .. L : right[i].hash \in Nat
  BY ListShape
<1>2. Reduce \in Nat \ {0}
  BY SolverAssumption
<1>3. \A i, k \in 1 .. L : i <= k => Red(i) \in Nat /\ Red(k) \in Nat /\ Red(i) <= Red(k)
  <2>1. ASSUME NEW i \in 1 .. L, NEW k \in 1 .. L, i <= k PROVE Red(i) \in Nat /\ Red(k) \in Nat /\ Red(i) <= Red(k)
    <3>1. right[i].hash <= right[k].hash
      BY <2>1 DEF InHashOrder
    <3> QED BY <1>1, <1>2, <3>1, QuotientGrows
  <2> QED BY <2>1
<1> HIDE DEF Red
<1>4. own \subseteq 1 .. L /\ own \subseteq Nat /\ j \in own /\ \A i \in 1 .. L : Red(i) = Red(j) => i \in own
  BY <1>1
<1>5. first \in own /\ first <= j
  <2> HIDE DEF own
  <2> QED BY <1>4, MinNat
<1> HIDE DEF first
<1>6. \A i \in first .. j : i \in own
  <2>1. ASSUME NEW i \in first .. j PROVE i \in own
    <3>1. first \in 1 .. L /\ i \in 1 .. L /\ first <= i /\ i <= j
      BY <1>1, <1>4, <1>5
    <3>2. Red(first) = Red(j)
      BY <1>5
    <3>3. Red(first) <= Red(i) /\ Red(i) <= Red(j) /\ Red(i) \in Nat /\ Red(j) \in Nat
      BY <1>3, <3>1
    <3>4. Red(i) = Red(j)
      BY <3>2, <3>3
    <3> HIDE DEF own
    <3> QED BY <1>4, <3>1, <3>4
  <2> QED BY <2>1
<1>7. Bucket(Red(j)) = {i \in own : \A k \in Min(own) .. i : k \in own}
  BY DEF Bucket, Red
<1> HIDE DEF own
<1> QED BY <1>4, <1>6, <1>7 DEF first, Red

\* Four x values that begin with a match, and end with one of an x range.
FoursWith(plot, m, b) == {xs \in Fours(plot, Upper(m.x1), b) : xs[1] = m.x1 /\ xs[2] = m.x2}

\* A right entry that pairs with a left one under a key.
Joined2(plot, m, r, key) ==
  /\ r.hash = InfoToMatch(2, m.hash, key, TargetOf(plot, 2, <<m.x1, m.x2>>, key))
  /\ Passes(plot, 2, <<m.x1, m.x2, r.x1, r.x2>>)

\* Four x values that the validator accepts are two matches, the right one of
\* the hash that the left one looks for under some key.
LEMMA FourParts ==
  ASSUME NEW plot \in Plots, NEW m \in GoodMatch(plot), NEW b, NEW xs \in FoursWith(plot, m, b)
  PROVE  \E r \in MatchesIn(plot, b), key \in 0 .. MatchKeys[2] - 1 :
           Joined2(plot, m, r, key) /\ xs = <<m.x1, m.x2, r.x1, r.x2>>
<1> DEFINE a1 == m.x1
           a2 == m.x2
           b1 == xs[3]
           b2 == xs[4]
           hashL == Info(plot, 1, <<a1, a2>>)
           hashR == Info(plot, 1, <<b1, b2>>)
           r == [x1 |-> b1, x2 |-> b2, hash |-> hashR]
           key == KeyOf(2, hashR)
<1>1. /\ xs \in [1 .. 4 -> Xs] /\ ValidPairs2(plot, xs) /\ Upper(b1) = b /\ xs[1] = a1 /\ xs[2] = a2
      /\ a1 \in Xs /\ a2 \in Xs /\ m.hash = hashL
  BY DEF FoursWith, Fours, GoodMatch, Match
<1>2. b1 \in Xs /\ b2 \in Xs /\ xs = <<a1, a2, b1, b2>>
  <2>1. xs = <<xs[1], xs[2], xs[3], xs[4]>> /\ b1 \in Xs /\ b2 \in Xs
    BY <1>1
  <2> QED BY <1>1, <2>1
<1> HIDE DEF a1, a2, b1, b2
<1>3. LeftHalf(xs) = <<a1, a2>> /\ RightHalf(xs) = <<b1, b2>>
  BY <1>1, <1>2, FourHalves
<1>4. /\ ValidPair(plot, <<b1, b2>>) /\ Passes(plot, 2, xs)
      /\ InfosMatch(plot, 2, <<a1, a2>>, hashL, hashR)
  <2>1. 2 - 1 = 1
    OBVIOUS
  <2> QED BY <1>1, <1>3, <2>1 DEF ValidPairs2, Pairs
<1>5. hashL \in Xs /\ hashR \in Xs
  BY <1>1, <1>2, HashAssumption
<1> HIDE DEF hashL, hashR
<1>6. /\ key \in 0 .. MatchKeys[2] - 1
      /\ hashR = (SectionOf(hashR) * SectionSize) + (key * Targets(2)) + TargetIn(2, hashR)
  <2>1. 2 \in 1 .. 3
    OBVIOUS
  <2> QED BY <1>5, <2>1, InfoMade
<1>7. SectionOf(hashR) = MatchingSection(SectionOf(hashL)) /\ TargetIn(2, hashR) = TargetOf(plot, 2, <<a1, a2>>, key)
  BY <1>4 DEF InfosMatch
<1>8. hashR = InfoToMatch(2, hashL, key, TargetOf(plot, 2, <<a1, a2>>, key))
  BY <1>6, <1>7 DEF InfoToMatch
<1>9. r \in Match /\ r.x1 = b1 /\ r.x2 = b2 /\ r.hash = hashR
  BY <1>2, <1>5 DEF Match
<1> HIDE DEF r, key
<1>10. r \in MatchesIn(plot, b)
  BY <1>1, <1>4, <1>9 DEF MatchesIn, GoodMatch, b1, hashR
<1>11. m.x1 = a1 /\ m.x2 = a2
  BY DEF a1, a2
<1>12. Joined2(plot, m, r, key) /\ xs = <<m.x1, m.x2, r.x1, r.x2>>
  BY <1>1, <1>2, <1>4, <1>8, <1>9, <1>11 DEF Joined2
<1> QED BY <1>6, <1>10, <1>12

\* A key is read back from the hash that is looked for under it.
LEMMA KeyOfJoined ==
  ASSUME NEW plot \in Plots, NEW m \in GoodMatch(plot), NEW r, NEW key \in 0 .. MatchKeys[2] - 1,
         Joined2(plot, m, r, key)
  PROVE  KeyOf(2, r.hash) = key
<1>1. m.x1 \in Xs /\ m.x2 \in Xs /\ m.hash \in Xs
  BY DEF GoodMatch, Match
<1>2. TargetOf(plot, 2, <<m.x1, m.x2>>, key) \in 0 .. Targets(2) - 1
  BY <1>1, HashAssumption
<1>3. KeyOf(2, InfoToMatch(2, m.hash, key, TargetOf(plot, 2, <<m.x1, m.x2>>, key))) = key
  <2>1. 2 \in 1 .. 3
    OBVIOUS
  <2> QED BY <1>1, <1>2, <2>1, InfoParts
<1> QED BY <1>3 DEF Joined2

\* A left entry of table 2 finds all right entries it pairs with, each once, whatever
\* the order of equal hashes on the right.
LEMMA LocalOutOnce ==
  ASSUME Plot \in Plots, NEW m \in GoodMatch(Plot), NEW b, OnceEach(right, MatchesIn(Plot, b)),
         InHashOrder(right)
  PROVE  OnceEach(LocalOut(m), FoursWith(Plot, m, b))
<1> DEFINE L == Len(right)
           K2 == MatchKeys[2]
           R == MatchesIn(Plot, b)
           Key(n) == n \div L
           At(n) == (n % L) + 1
           Four(n) == <<m.x1, m.x2, right[At(n)].x1, right[At(n)].x2>>
           S == {n \in 0 .. (K2 * L) - 1 :
                   /\ At(n) \in Bucket(WantedHash(m, Key(n)) \div Reduce)
                   /\ right[At(n)].hash = WantedHash(m, Key(n))
                   /\ Passes(Plot, 2, Four(n))}
           o == InOrder(S)
           E == FoursWith(Plot, m, b)
           f == [n \in S |-> Four(n)]
<1>1. LocalOut(m) = [i \in DOMAIN o |-> Four(o[i])]
  BY DEF LocalOut
<1>2. right \in Seq(R)
  BY DEF OnceEach
<1>3. L \in Nat /\ K2 \in Nat \ {0} /\ \A i \in 1 .. L : right[i] \in R
  BY <1>2, ValidatorAssumption, ListShape
<1>4. \A r \in R : \E i \in 1 .. L : right[i] = r
  BY DEF OnceEach
<1>5. \A i, j \in 1 .. L : right[i] = right[j] => i = j
  BY DEF OnceEach
<1>6. R \subseteq GoodMatch(Plot) /\ \A r \in R : r.hash \in Nat
  <2>1. R \subseteq GoodMatch(Plot)
    BY DEF MatchesIn
  <2>2. \A r \in GoodMatch(Plot) : r.hash \in Nat
    BY TurnAssumption DEF GoodMatch, Match, Xs
  <2> QED BY <2>1, <2>2
<1>7. \A j \in 1 .. L : j \in Bucket(right[j].hash \div Reduce)
  BY <1>2, <1>6, BucketAll
<1>8. S \subseteq 0 .. (K2 * L) - 1 /\ S \subseteq Nat
  OBVIOUS
<1>9. IsFiniteSet(S)
  <2>1. K2 * L \in Nat
    BY <1>3
  <2> DEFINE k == (K2 * L) - 1
  <2>2. k \in Int /\ S \subseteq 0 .. k
    BY <1>8, <2>1
  <2> HIDE DEF k, S
  <2>3. IsFiniteSet(0 .. k)
    BY <2>2, FS_Interval
  <2> QED BY <2>2, <2>3, FS_Subset
<1>10. \A n \in S : /\ n \in 0 .. (K2 * L) - 1 /\ right[At(n)].hash = WantedHash(m, Key(n))
                    /\ Passes(Plot, 2, Four(n))
  OBVIOUS
<1>11. \A n \in 0 .. (K2 * L) - 1 :
         /\ At(n) \in Bucket(WantedHash(m, Key(n)) \div Reduce)
         /\ right[At(n)].hash = WantedHash(m, Key(n))
         /\ Passes(Plot, 2, Four(n))
         => n \in S
  OBVIOUS
<1> HIDE DEF S, L, K2, R
<1>12. ASSUME NEW n \in S
       PROVE  /\ Key(n) \in 0 .. K2 - 1 /\ At(n) \in 1 .. L /\ n = (L * Key(n)) + (At(n) - 1)
              /\ Joined2(Plot, m, right[At(n)], Key(n))
  <2>1. n \in Nat /\ n < K2 * L
    <3>1. K2 * L \in Nat /\ n \in 0 .. (K2 * L) - 1
      BY <1>3, <1>8
    <3> DEFINE u == K2 * L
    <3>2. u \in Nat /\ n \in 0 .. u - 1
      BY <3>1
    <3> HIDE DEF u
    <3>3. n \in Nat /\ n < u
      BY <3>2
    <3> QED BY <3>3 DEF u
  <2>2. n \div L \in 0 .. K2 - 1 /\ n % L \in 0 .. L - 1 /\ n = (L * (n \div L)) + (n % L)
    BY <1>3, <2>1, SplitIndex
  <2> DEFINE q == n \div L
             r == n % L
  <2>3. q \in 0 .. K2 - 1 /\ r \in 0 .. L - 1 /\ n = (L * q) + r
    BY <2>2
  <2> HIDE DEF q, r
  <2>4. r + 1 \in 1 .. L /\ (r + 1) - 1 = r
    BY <1>3, <2>3
  <2>5. Key(n) = q /\ At(n) = r + 1
    BY DEF q, r
  <2>6. right[At(n)].hash = WantedHash(m, Key(n)) /\ Passes(Plot, 2, Four(n))
    BY <1>10
  <2>7. Joined2(Plot, m, right[At(n)], Key(n))
    <3> HIDE DEF Key, At
    <3> QED BY <2>6 DEF Joined2, WantedHash
  <2> HIDE DEF Key, At
  <2> QED BY <2>3, <2>4, <2>5, <2>7
<1>13. ASSUME NEW n \in S PROVE Four(n) \in E
  <2> DEFINE r == right[At(n)]
             key == Key(n)
  <2>1. r \in MatchesIn(Plot, b) /\ key \in 0 .. MatchKeys[2] - 1
    BY <1>3, <1>12 DEF R, K2
  <2>2. Joined2(Plot, m, r, key)
    BY <1>12
  <2>3. Four(n) = <<m.x1, m.x2, r.x1, r.x2>>
    OBVIOUS
  <2> HIDE DEF r, key, Four
  <2>4. <<m.x1, m.x2, r.x1, r.x2>> \in Fours(Plot, Upper(m.x1), b)
    BY <2>1, <2>2, FourFound DEF Joined2
  <2> DEFINE xs == <<m.x1, m.x2, r.x1, r.x2>>
  <2>5. xs[1] = m.x1 /\ xs[2] = m.x2 /\ xs \in Fours(Plot, Upper(m.x1), b) /\ Four(n) = xs
    BY <2>3, <2>4
  <2> HIDE DEF xs
  <2> QED BY <2>5 DEF FoursWith
<1>14. ASSUME NEW xs \in E PROVE \E n \in S : Four(n) = xs
  <2>1. PICK r \in MatchesIn(Plot, b), key \in 0 .. MatchKeys[2] - 1 :
          Joined2(Plot, m, r, key) /\ xs = <<m.x1, m.x2, r.x1, r.x2>>
    BY FourParts
  <2>2. PICK j \in 1 .. L : right[j] = r
    BY <1>4, <2>1 DEF R
  <2> DEFINE n == (L * key) + (j - 1)
  <2>3. n \in Nat /\ n < K2 * L /\ n \div L = key /\ n % L = j - 1
    <3>1. K2 \in Nat /\ L \in Nat /\ key \in 0 .. K2 - 1 /\ j - 1 \in 0 .. L - 1
      BY <1>3, <2>1, <2>2 DEF K2
    <3> DEFINE i == j - 1
    <3>2. i \in 0 .. L - 1
      BY <3>1
    <3> HIDE DEF i
    <3>3. (L * key) + i \in Nat /\ (L * key) + i < K2 * L /\ ((L * key) + i) \div L = key /\ ((L * key) + i) % L = i
      BY <3>1, <3>2, MakeIndex
    <3> QED BY <3>3 DEF i
  <2> HIDE DEF n
  <2>4. n \in 0 .. (K2 * L) - 1
    <3> DEFINE u == K2 * L
    <3>1. u \in Nat /\ n \in Nat /\ n < u
      BY <1>3, <2>3
    <3> HIDE DEF u
    <3>2. n \in 0 .. u - 1
      BY <3>1
    <3> QED BY <3>2 DEF u
  <2>5. Key(n) = key /\ At(n) = j
    BY <1>3, <2>2, <2>3
  <2>6. right[At(n)] = r /\ Four(n) = xs
    BY <2>1, <2>2, <2>5
  <2>7. r.hash = WantedHash(m, Key(n)) /\ Passes(Plot, 2, xs)
    <3> HIDE DEF Key
    <3> QED BY <2>1, <2>5 DEF Joined2, WantedHash
  <2>8. At(n) \in Bucket(WantedHash(m, Key(n)) \div Reduce)
    <3>1. j \in Bucket(right[j].hash \div Reduce)
      BY <1>7, <2>2
    <3> HIDE DEF Key, At
    <3> QED BY <2>2, <2>5, <2>7, <3>1
  <2> HIDE DEF Key, At, Four
  <2>9. n \in S
    BY <1>11, <2>4, <2>6, <2>7, <2>8
  <2> QED BY <2>6, <2>9
<1>15. ASSUME NEW n \in S, NEW k \in S, Four(n) = Four(k) PROVE n = k
  <2>1. /\ Key(n) \in 0 .. K2 - 1 /\ At(n) \in 1 .. L /\ n = (L * Key(n)) + (At(n) - 1)
        /\ Joined2(Plot, m, right[At(n)], Key(n))
        /\ Key(k) \in 0 .. K2 - 1 /\ At(k) \in 1 .. L /\ k = (L * Key(k)) + (At(k) - 1)
        /\ Joined2(Plot, m, right[At(k)], Key(k))
    BY <1>12
  <2>2. right[At(n)].x1 = right[At(k)].x1 /\ right[At(n)].x2 = right[At(k)].x2
    <3> DEFINE r1 == right[At(n)]
               r2 == right[At(k)]
    <3>1. <<m.x1, m.x2, r1.x1, r1.x2>> = <<m.x1, m.x2, r2.x1, r2.x2>>
      BY <1>15
    <3> HIDE DEF r1, r2
    <3>2. r1.x1 = r2.x1 /\ r1.x2 = r2.x2
      BY <3>1
    <3> QED BY <3>2 DEF r1, r2
  <2> HIDE DEF Key, At
  <2>3. right[At(n)] \in GoodMatch(Plot) /\ right[At(k)] \in GoodMatch(Plot)
    BY <1>3, <1>6, <2>1
  <2>4. right[At(n)] = right[At(k)]
    BY <2>2, <2>3, SameMatch
  <2>5. At(n) = At(k)
    BY <1>5, <2>1, <2>4
  <2>6. Key(n) = Key(k)
    <3>1. KeyOf(2, right[At(n)].hash) = Key(n) /\ KeyOf(2, right[At(k)].hash) = Key(k)
      BY <2>1, KeyOfJoined DEF K2
    <3> QED BY <2>4, <3>1
  <2> QED BY <2>1, <2>5, <2>6
<1> HIDE DEF Four, E
<1>16. f \in [S -> E] /\ (\A n \in S : f[n] = Four(n))
  BY <1>13
<1> HIDE DEF f
<1>17. OnceEach(InTurn(f, S), E)
  <2>1. \A xs \in E : \E n \in S : f[n] = xs
    BY <1>14, <1>16
  <2>2. \A n, k \in S : f[n] = f[k] => n = k
    BY <1>15, <1>16
  <2> QED BY <1>8, <1>9, <1>16, <2>1, <2>2, OnceInOrder
<1>18. InTurn(f, S) = [i \in DOMAIN o |-> Four(o[i])]
  <2>1. Lists(o, S)
    BY <1>8, <1>9, InOrderLists
  <2> HIDE DEF o
  <2>2. \A i \in DOMAIN o : o[i] \in S
    BY <2>1 DEF Lists
  <2>3. [i \in DOMAIN o |-> f[o[i]]] = [i \in DOMAIN o |-> Four(o[i])]
    BY <1>16, <2>2
  <2> QED BY <2>3 DEF InTurn, o
<1> QED BY <1>1, <1>17, <1>18 DEF E

-----------------------------------------------------------------------------
(* The groups of table 2 are complete                                      *)

\* A list whose neighbours are in the order of their hashes is in that order.
LEMMA NeighboursOrdered ==
  ASSUME NEW n \in Nat, NEW r, Len(r) = n, \A i \in 1 .. n : r[i].hash \in Nat,
         \A i \in 1 .. n : i # n => r[i].hash <= r[i + 1].hash
  PROVE  InHashOrder(r)
<1> DEFINE S == {k \in Nat : \A i \in 1 .. n : i + k <= n => r[i].hash <= r[i + k].hash}
<1>1. 0 \in S
  OBVIOUS
<1>2. ASSUME NEW k \in Nat, k \in S PROVE k + 1 \in S
  <2>1. ASSUME NEW i \in 1 .. n, i + (k + 1) <= n PROVE r[i].hash <= r[i + (k + 1)].hash
    <3> DEFINE j == i + k
    <3>1. j \in 1 .. n /\ j # n /\ j <= n /\ i + (k + 1) = j + 1 /\ j + 1 \in 1 .. n
      BY <2>1
    <3>2. r[i].hash <= r[j].hash
      BY <1>2, <3>1
    <3> HIDE DEF j
    <3>3. r[j].hash <= r[j + 1].hash /\ r[i].hash \in Nat /\ r[j].hash \in Nat /\ r[j + 1].hash \in Nat
      BY <3>1
    <3>4. r[i].hash <= r[j + 1].hash
      BY <3>2, <3>3
    <3> QED BY <3>1, <3>4
  <2> QED BY <2>1
<1>3. \A k \in Nat : k \in S
  <2> HIDE DEF S
  <2> QED BY <1>1, <1>2, Inductive
<1>4. ASSUME NEW a \in 1 .. n, NEW b \in 1 .. n, a <= b PROVE r[a].hash <= r[b].hash
  <2>1. b - a \in Nat /\ a + (b - a) = b /\ b <= n
    BY <1>4
  <2> QED BY <1>3, <2>1
<1> QED BY <1>4 DEF InHashOrder

\* Whatever std::sort makes of equal hashes, it keeps every entry once.
LEMMA OrdersOnce ==
  ASSUME NEW E, \A e \in E : e.hash \in Nat, NEW list, OnceEach(list, E), NEW r \in SortedOrders(list)
  PROVE  OnceEach(r, E) /\ InHashOrder(r)
<1> DEFINE n == Len(list)
           N == DOMAIN list
<1>1. list \in Seq(E) /\ n \in Nat /\ N = 1 .. n /\ \A i \in 1 .. n : list[i] \in E
  BY DEF OnceEach
<1>2. PICK p \in [N -> N] : /\ r = [i \in N |-> list[p[i]]]
                            /\ \A i \in N : \E j \in N : p[j] = i
                            /\ \A i \in N \ {n} : list[p[i]].hash <= list[p[i + 1]].hash
  BY DEF SortedOrders
<1> HIDE DEF N
<1>3. /\ p \in [1 .. n -> 1 .. n] /\ r = [i \in 1 .. n |-> list[p[i]]]
      /\ (\A i \in 1 .. n : \E j \in 1 .. n : p[j] = i)
      /\ (\A i \in 1 .. n : i # n => list[p[i]].hash <= list[p[i + 1]].hash)
  BY <1>1, <1>2
<1>e. n = Len(list)
  OBVIOUS
<1> HIDE DEF n
<1>4. \A k, m \in 1 .. n : p[k] = p[m] => k = m
  <2>1. p \in Surjection(1 .. n, 1 .. n)
    BY <1>3 DEF Surjection
  <2>2. IsFiniteSet(1 .. n)
    BY <1>1, FS_Interval
  <2>3. p \in Injection(1 .. n, 1 .. n)
    BY <2>1, <2>2, FS_Surjection
  <2> QED BY <2>3 DEF Injection, IsInjective
<1>5. OnceEach(r, E)
  <2>1. Rearranges(r, list, p)
    BY <1>3, <1>4, <1>e, Zenon DEF Rearranges
  <2> QED BY <2>1, OncePermuted
<1>6. Len(r) = n /\ \A i \in 1 .. n : r[i] = list[p[i]] /\ p[i] \in 1 .. n
  <2>1. \A i \in 1 .. n : r[i] = list[p[i]] /\ p[i] \in 1 .. n /\ list[p[i]] \in E
    BY <1>1, <1>3
  <2>2. r \in [1 .. n -> E]
    BY <1>3, <2>1
  <2> QED BY <1>1, <2>1, <2>2, ListOf
<1>7. InHashOrder(r)
  <2>1. ASSUME NEW i \in 1 .. n PROVE r[i].hash \in Nat
    <3>1. list[p[i]] \in E
      BY <1>1, <1>6
    <3> QED BY <1>6, <3>1
  <2>2. ASSUME NEW i \in 1 .. n, i # n PROVE r[i].hash <= r[i + 1].hash
    <3>1. i + 1 \in 1 .. n
      BY <1>1, <2>2
    <3>2. r[i] = list[p[i]] /\ r[i + 1] = list[p[i + 1]]
      BY <1>6, <3>1
    <3> QED BY <1>3, <2>2, <3>2
  <2> QED BY <1>1, <1>6, <2>1, <2>2, NeighboursOrdered
<1> QED BY <1>5, <1>7

\* The left entries that the threads have done.
DoneOf(nx, total) ==
  {i \in 0 .. total - 1 : \E w \in Workers : ShareOf(total, w).at <= i /\ i < nx[w].at}

\* Four x values whose left match is one of those entries.
FoursDone(plot, left, done, a, b) ==
  {xs \in Fours(plot, a, b) : \E i \in done : xs[1] = left[i + 1].x1 /\ xs[2] = left[i + 1].x2}

\* Each thread is within its share.
InShares(nx, total) ==
  \A w \in Workers : /\ nx[w].at \in Nat /\ nx[w].end = ShareOf(total, w).end
                     /\ ShareOf(total, w).at <= nx[w].at /\ nx[w].at <= nx[w].end

\* How far a group of table 2 is: each thread is within its share, and what has
\* been appended is what the entries that are done find.
HalfTwo(plot, left, nx, list, a, b) ==
  /\ InShares(nx, Len(left))
  /\ OnceEach(list, FoursDone(plot, left, DoneOf(nx, Len(left)), a, b))

\* It begins with nothing.
LEMMA HalfBegins ==
  ASSUME NEW plot, NEW left, Len(left) \in Nat, NEW a, NEW b,
         NEW nx, nx = [w \in Workers |-> ShareOf(Len(left), w)]
  PROVE  HalfTwo(plot, left, nx, <<>>, a, b)
<1> DEFINE n == Len(left)
<1>1. \A w \in Workers : nx[w] = ShareOf(n, w)
  OBVIOUS
<1>2. \A w \in Workers : ShareOf(n, w).at \in Nat /\ ShareOf(n, w).end \in Nat
  BY ShareIn
<1>3. \A w \in Workers : ShareOf(n, w).at <= ShareOf(n, w).end
  BY SharesMeet
<1> HIDE DEF n
<1>4. DoneOf(nx, n) = {}
  <2>1. ASSUME NEW i \in 0 .. n - 1, NEW w \in Workers PROVE ~ (ShareOf(n, w).at <= i /\ i < nx[w].at)
    BY <1>1, <1>2
  <2> QED BY <2>1 DEF DoneOf
<1>5. FoursDone(plot, left, {}, a, b) = {}
  BY DEF FoursDone
<1>6. OnceEach(<<>>, {})
  BY DEF OnceEach
<1>7. \A w \in Workers : /\ nx[w].at \in Nat /\ nx[w].end = ShareOf(n, w).end
                         /\ ShareOf(n, w).at <= nx[w].at /\ nx[w].at <= nx[w].end
  BY <1>1, <1>2, <1>3
<1> QED BY <1>4, <1>5, <1>6, <1>7 DEF HalfTwo, InShares, n

\* One thread is an entry further.
OneAhead(nx, ny, w) == ny[w].at = nx[w].at + 1 /\ \A v \in Workers : v # w => ny[v] = nx[v]

\* A thread's next entry is not done, and adds its number to those that are.
LEMMA DoneGrows ==
  ASSUME NEW n \in Nat, NEW nx, NEW ny, NEW w \in Workers,
         InShares(nx, n), nx[w].at < nx[w].end, OneAhead(nx, ny, w)
  PROVE  /\ nx[w].at \in 0 .. n - 1 /\ nx[w].at \notin DoneOf(nx, n)
         /\ DoneOf(ny, n) = DoneOf(nx, n) \cup {nx[w].at}
<1> DEFINE at == nx[w].at
           Lo(v) == ShareOf(n, v).at
           Hi(v) == ShareOf(n, v).end
<1>s. \A v \in Workers : /\ nx[v].at \in Nat /\ nx[v].end = Hi(v)
                          /\ Lo(v) <= nx[v].at /\ nx[v].at <= nx[v].end
  BY DEF InShares
<1>1. \A v \in Workers : Lo(v) \in Nat /\ Hi(v) \in 0 .. n
  BY ShareIn
<1>2. at \in Nat /\ Lo(w) <= at /\ at < Hi(w)
  BY <1>s
<1>3. at \in 0 .. n - 1
  BY <1>1, <1>2
<1>4. ASSUME NEW v \in Workers, Lo(v) <= at, at < nx[v].at PROVE FALSE
  <2>1. nx[v].at \in Nat /\ nx[v].at <= Hi(v)
    BY <1>s
  <2>2. at < Hi(v)
    BY <1>1, <1>2, <1>4, <2>1
  <2>3. v = w
    <3> HIDE DEF at
    <3>1. Lo(v) <= at /\ at < Hi(v) /\ Lo(w) <= at /\ at < Hi(w)
      BY <1>2, <1>4, <2>2
    <3> QED BY <1>3, <3>1, SharesPartition
  <2> QED BY <1>2, <1>4, <2>3
<1>5. at \notin DoneOf(nx, n)
  <2> HIDE DEF at
  <2> QED BY <1>4 DEF DoneOf
<1>a. ny[w].at = nx[w].at + 1 /\ \A v \in Workers : v # w => ny[v] = nx[v]
  BY DEF OneAhead
<1>6. ASSUME NEW i \in 0 .. n - 1, NEW v \in Workers
      PROVE  (Lo(v) <= i /\ i < ny[v].at) <=> (Lo(v) <= i /\ i < nx[v].at) \/ (v = w /\ i = at)
  <2>1. CASE v # w
    BY <1>a, <2>1
  <2>2. CASE v = w
    <3>1. ny[v].at = at + 1 /\ nx[v].at = at /\ at \in Nat /\ Lo(v) <= at /\ Lo(v) \in Nat
      BY <1>1, <1>2, <1>a, <2>2
    <3> HIDE DEF at, Lo
    <3> QED BY <2>2, <3>1
  <2> QED BY <2>1, <2>2
<1>7. DoneOf(ny, n) = DoneOf(nx, n) \cup {at}
  <2> HIDE DEF at
  <2> QED BY <1>3, <1>6 DEF DoneOf
<1> QED BY <1>3, <1>5, <1>7

\* What one left entry finds is not among what the others have found.
LEMMA FoursGrow ==
  ASSUME NEW plot, NEW a, NEW b, NEW left, OnceEach(left, MatchesIn(plot, a)),
         NEW done, done \subseteq 0 .. Len(left) - 1, NEW i \in 0 .. Len(left) - 1, i \notin done
  PROVE  /\ FoursDone(plot, left, done \cup {i}, a, b) =
              FoursDone(plot, left, done, a, b) \cup FoursWith(plot, left[i + 1], b)
         /\ FoursDone(plot, left, done, a, b) \cap FoursWith(plot, left[i + 1], b) = {}
<1> DEFINE n == Len(left)
           D == FoursDone(plot, left, done, a, b)
           W == FoursWith(plot, left[i + 1], b)
<1>1. n \in Nat /\ \A k \in 1 .. n : left[k] \in MatchesIn(plot, a)
  <2>1. left \in Seq(MatchesIn(plot, a))
    BY DEF OnceEach
  <2> QED BY <2>1, ListShape
<1>2. \A k \in 0 .. n - 1 : k + 1 \in 1 .. n /\ left[k + 1] \in GoodMatch(plot) /\ Upper(left[k + 1].x1) = a
  <2>1. \A k \in 0 .. n - 1 : k + 1 \in 1 .. n
    BY <1>1
  <2> QED BY <1>1, <2>1 DEF MatchesIn
<1>3. ASSUME NEW xs
      PROVE  xs \in W <=> xs \in Fours(plot, a, b) /\ xs[1] = left[i + 1].x1 /\ xs[2] = left[i + 1].x2
  BY <1>2 DEF FoursWith
<1>4. ASSUME NEW k \in 0 .. n - 1, left[k + 1].x1 = left[i + 1].x1, left[k + 1].x2 = left[i + 1].x2 PROVE k = i
  <2>1. left[k + 1] = left[i + 1]
    BY <1>2, <1>4, SameMatch
  <2>2. k + 1 = i + 1
    BY <1>2, <2>1 DEF OnceEach
  <2> QED BY <1>1, <2>2
<1>5. FoursDone(plot, left, done \cup {i}, a, b) = D \cup W
  <2> HIDE DEF W
  <2> QED BY <1>3 DEF FoursDone
<1>6. D \cap W = {}
  <2>1. ASSUME NEW xs \in D, xs \in W PROVE FALSE
    <3>1. PICK k \in done : xs[1] = left[k + 1].x1 /\ xs[2] = left[k + 1].x2
      BY <2>1 DEF FoursDone
    <3>2. k = i
      <4> HIDE DEF W
      <4> QED BY <1>3, <1>4, <2>1, <3>1
    <3> QED BY <3>1, <3>2
  <2> QED BY <2>1
<1> QED BY <1>5, <1>6

\* A thread handles a left entry.
LEMMA HalfGrows ==
  ASSUME Plot \in Plots, NEW a, NEW b, NEW left, OnceEach(left, MatchesIn(Plot, a)),
         OnceEach(right, MatchesIn(Plot, b)), InHashOrder(right),
         NEW nx, NEW ny, NEW list, HalfTwo(Plot, left, nx, list, a, b),
         DOMAIN nx = Workers, NEW w \in Workers, nx[w].at < nx[w].end,
         ny = [nx EXCEPT ![w].at = @ + 1]
  PROVE  HalfTwo(Plot, left, ny, list \o LocalOut(left[nx[w].at + 1]), a, b)
<1> DEFINE n == Len(left)
           at == nx[w].at
           m == left[at + 1]
<1>1. n \in Nat /\ left \in Seq(MatchesIn(Plot, a))
  BY DEF OnceEach
<1>2. /\ \A v \in Workers : /\ nx[v].at \in Nat /\ nx[v].end = ShareOf(n, v).end
                             /\ ShareOf(n, v).at <= nx[v].at /\ nx[v].at <= nx[v].end
      /\ OnceEach(list, FoursDone(Plot, left, DoneOf(nx, n), a, b)) /\ InShares(nx, n)
  BY DEF HalfTwo, InShares
<1>3. ny[w].at = at + 1 /\ ny[w].end = nx[w].end /\ \A v \in Workers : v # w => ny[v] = nx[v]
  OBVIOUS
<1>4. at \in 0 .. n - 1 /\ at \notin DoneOf(nx, n) /\ DoneOf(ny, n) = DoneOf(nx, n) \cup {at}
  <2>1. OneAhead(nx, ny, w) /\ InShares(nx, n) /\ nx[w].at < nx[w].end
    BY <1>2, <1>3 DEF OneAhead
  <2> HIDE DEF n, at, m
  <2>2. /\ nx[w].at \in 0 .. n - 1 /\ nx[w].at \notin DoneOf(nx, n)
        /\ DoneOf(ny, n) = DoneOf(nx, n) \cup {nx[w].at}
    BY <1>1, <2>1, DoneGrows
  <2> QED BY <2>2 DEF at
<1>5. m \in GoodMatch(Plot)
  <2>1. at + 1 \in 1 .. n
    BY <1>1, <1>4
  <2>2. m \in MatchesIn(Plot, a)
    <3> HIDE DEF at
    <3> QED BY <1>1, <2>1
  <2> QED BY <2>2 DEF MatchesIn
<1> DEFINE D == FoursDone(Plot, left, DoneOf(nx, n), a, b)
           W == FoursWith(Plot, m, b)
<1>6. OnceEach(LocalOut(m), W)
  <2> HIDE DEF m
  <2> QED BY <1>5, LocalOutOnce
<1>7. FoursDone(Plot, left, DoneOf(nx, n) \cup {at}, a, b) = D \cup W /\ D \cap W = {}
  <2>1. DoneOf(nx, n) \subseteq 0 .. n - 1
    BY DEF DoneOf
  <2> HIDE DEF at
  <2> QED BY <1>4, <2>1, FoursGrow
<1>8. OnceEach(list \o LocalOut(m), D \cup W)
  <2>1. OnceEach(list, D) /\ D \cap W = {} /\ OnceEach(LocalOut(m), W)
    BY <1>2, <1>6, <1>7
  <2> HIDE DEF D, W, m
  <2> QED BY <2>1, OnceJoined
<1>9. ASSUME NEW v \in Workers
      PROVE  /\ ny[v].at \in Nat /\ ny[v].end = ShareOf(n, v).end
             /\ ShareOf(n, v).at <= ny[v].at /\ ny[v].at <= ny[v].end
  <2>1. CASE v # w
    BY <1>2, <1>3, <2>1
  <2>2. CASE v = w
    <3> DEFINE lo == ShareOf(n, w).at
               hi == ShareOf(n, w).end
    <3>1. lo \in Nat /\ hi \in Nat
      BY <1>1, ShareIn
    <3>2. at \in Nat /\ lo <= at /\ at < hi /\ nx[w].end = hi
      BY <1>2
    <3>3. ny[w].at = at + 1 /\ ny[w].end = hi
      BY <1>3, <3>2
    <3> HIDE DEF lo, hi, at
    <3>4. ny[w].at \in Nat /\ ny[w].end = hi /\ lo <= ny[w].at /\ ny[w].at <= ny[w].end
      BY <3>1, <3>2, <3>3
    <3> QED BY <2>2, <3>4 DEF lo, hi
  <2> QED BY <2>1, <2>2
<1> HIDE DEF at, m, D, W
<1>10. OnceEach(list \o LocalOut(m), FoursDone(Plot, left, DoneOf(ny, n), a, b))
  BY <1>4, <1>7, <1>8
<1>11. HalfTwo(Plot, left, ny, list \o LocalOut(m), a, b)
  BY <1>9, <1>10 DEF HalfTwo, InShares
<1> QED BY <1>11 DEF m, at

\* The left half of four x values that the validator accepts is a match.
LEMMA FourLeft ==
  ASSUME NEW plot \in Plots, NEW a, NEW b, NEW xs \in Fours(plot, a, b)
  PROVE  \E m \in MatchesIn(plot, a) : xs[1] = m.x1 /\ xs[2] = m.x2
<1> DEFINE b1 == xs[1]
           b2 == xs[2]
           c1 == xs[3]
           c2 == xs[4]
           hash == Info(plot, 1, <<b1, b2>>)
           m == [x1 |-> b1, x2 |-> b2, hash |-> hash]
<1>1. xs \in [1 .. 4 -> Xs] /\ ValidPairs2(plot, xs) /\ Upper(b1) = a
  BY DEF Fours
<1>2. b1 \in Xs /\ b2 \in Xs /\ c1 \in Xs /\ c2 \in Xs /\ xs = <<b1, b2, c1, c2>>
  BY <1>1
<1> HIDE DEF b1, b2, c1, c2
<1>3. LeftHalf(xs) = <<b1, b2>>
  BY <1>2, FourHalves
<1>4. ValidPair(plot, <<b1, b2>>)
  BY <1>1, <1>3 DEF ValidPairs2
<1>5. hash \in Xs
  BY <1>2, HashAssumption
<1> HIDE DEF hash
<1>6. m \in Match /\ m.x1 = b1 /\ m.x2 = b2 /\ m.hash = hash
  BY <1>2, <1>5 DEF Match
<1> HIDE DEF m
<1>7. m \in MatchesIn(plot, a)
  BY <1>1, <1>4, <1>6 DEF MatchesIn, GoodMatch, hash
<1> QED BY <1>6, <1>7 DEF b1, b2

\* When all threads are through, all four x values of the two ranges are found.
LEMMA HalfEnds ==
  ASSUME NEW plot \in Plots, NEW a, NEW b, NEW left, OnceEach(left, MatchesIn(plot, a)),
         NEW nx, NEW list, HalfTwo(plot, left, nx, list, a, b),
         \A w \in Workers : nx[w].at = nx[w].end
  PROVE  OnceEach(list, Fours(plot, a, b))
<1> DEFINE n == Len(left)
<1>1. n \in Nat /\ left \in Seq(MatchesIn(plot, a)) /\ \A m \in MatchesIn(plot, a) : \E i \in 1 .. n : left[i] = m
  BY DEF OnceEach
<1>2. /\ \A w \in Workers : nx[w].at = ShareOf(n, w).end
      /\ OnceEach(list, FoursDone(plot, left, DoneOf(nx, n), a, b))
  BY DEF HalfTwo, InShares
<1>3. ASSUME NEW i \in 0 .. n - 1 PROVE i \in DoneOf(nx, n)
  <2>1. PICK w \in Workers : ShareOf(n, w).at <= i /\ i < ShareOf(n, w).end
    BY <1>1, SharesPartition
  <2>2. i < nx[w].at
    BY <1>2, <2>1
  <2> QED BY <2>1, <2>2 DEF DoneOf
<1>4. ASSUME NEW xs \in Fours(plot, a, b) PROVE xs \in FoursDone(plot, left, DoneOf(nx, n), a, b)
  <2>1. PICK m \in MatchesIn(plot, a) : xs[1] = m.x1 /\ xs[2] = m.x2
    BY FourLeft
  <2>2. PICK k \in 1 .. n : left[k] = m
    BY <1>1
  <2>3. k - 1 \in 0 .. n - 1 /\ (k - 1) + 1 = k
    BY <1>1
  <2>4. k - 1 \in DoneOf(nx, n)
    BY <1>3, <2>3
  <2>5. xs[1] = left[(k - 1) + 1].x1 /\ xs[2] = left[(k - 1) + 1].x2
    BY <2>1, <2>2, <2>3
  <2> QED BY <2>4, <2>5 DEF FoursDone
<1> HIDE DEF n
<1>5. Fours(plot, a, b) = FoursDone(plot, left, DoneOf(nx, n), a, b)
  BY <1>4 DEF FoursDone
<1> QED BY <1>2, <1>5

-----------------------------------------------------------------------------
(* No group of table 2 misses a match                                      *)

\* A group of table 2 that is through, and the one in work.
GroupDone(g) == OnceEach(t2[g], Fours(Plot, XBits[2 * g - 1], XBits[2 * g]))
GroupHalf(g) ==
  /\ OnceEach(right, MatchesIn(Plot, XBits[2 * g])) /\ InHashOrder(right)
  /\ HalfTwo(Plot, LeftOf(g), next, t2[g], XBits[2 * g - 1], XBits[2 * g])

\* All groups but the one in work are through.
TwoExact ==
  /\ \A g \in 1 .. Len(t2) : (phase = "match2" /\ g = Len(t2)) \/ GroupDone(g)
  /\ phase = "match2" => GroupHalf(Len(t2))

\* A group begins.
LEMMA Begin2Exact ==
  ASSUME IInv, GroupsExact, TwoExact, Begin2
  PROVE  TwoExact'
<1> USE CallIs
<1> DEFINE g == Len(t2) + 1
<1>1. /\ phase = "begin2" /\ Len(t2) < 2 * Fragments /\ phase' = "match2"
      /\ right' \in SortedOrders(RightOf(g)) /\ t2' = Append(t2, <<>>)
      /\ next' = [w \in Workers |-> ShareOf(Len(LeftOf(g)), w)]
      /\ UNCHANGED <<asked, mapping, groups>>
  BY DEF Begin2, listVars
<1>2. Plot' = Plot /\ XBits' = XBits
  BY <1>1, CallStays DEF SameCall
<1>3. t2 \in Seq(Seq([1 .. 4 -> Xs])) /\ Len(t2) \in Nat
  BY DEF TwoOK
<1>4. g \in 1 .. 2 * Fragments /\ phase \in Late
  <2> DEFINE m == Len(t2)
             k == 2 * Fragments
  <2>1. m \in Nat /\ k \in Nat /\ m < k
    BY <1>1, <1>3
  <2> HIDE DEF m, k
  <2>2. m + 1 \in 1 .. k
    BY <2>1
  <2> QED BY <1>1, <2>2 DEF m, k, Late
<1>5. 2 * g - 1 \in 1 .. 4 * Fragments /\ 2 * g \in 1 .. 4 * Fragments
  BY <1>4, TwoRanges
<1>6. t2' \in Seq(Seq([1 .. 4 -> Xs])) /\ Len(t2') = g /\ (\A i \in 1 .. Len(t2) : t2'[i] = t2[i]) /\ t2'[g] = <<>>
  <2>1. <<>> \in Seq([1 .. 4 -> Xs])
    OBVIOUS
  <2> QED BY <1>1, <1>3, <2>1
<1>7. Len(LeftOf(g)) \in Nat
  BY <1>4, <1>5, GroupIs DEF LeftOf
<1>8. OnceEach(right', MatchesIn(Plot, XBits[2 * g])) /\ InHashOrder(right')
  <2> DEFINE E == MatchesIn(Plot, XBits[2 * g])
             list == RightOf(g)
  <2>1. OnceEach(list, E)
    BY <1>4, <1>5, GroupAll DEF RightOf
  <2>2. \A e \in E : e.hash \in Nat
    BY DEF MatchesIn, GoodMatch, Match, Xs
  <2>3. right' \in SortedOrders(list)
    BY <1>1
  <2> HIDE DEF E, list
  <2>4. OnceEach(right', E) /\ InHashOrder(right')
    BY <2>1, <2>2, <2>3, OrdersOnce
  <2> QED BY <2>4 DEF E
<1>9. HalfTwo(Plot, LeftOf(g), next', <<>>, XBits[2 * g - 1], XBits[2 * g])
  <2> DEFINE left == LeftOf(g)
             a == XBits[2 * g - 1]
             b == XBits[2 * g]
  <2>1. Len(left) \in Nat /\ next' = [w \in Workers |-> ShareOf(Len(left), w)]
    BY <1>1, <1>7
  <2> HIDE DEF left, a, b
  <2>2. HalfTwo(Plot, left, next', <<>>, a, b)
    BY <2>1, HalfBegins
  <2> QED BY <2>2 DEF left, a, b
<1>10. \A i \in 1 .. Len(t2) : GroupDone(i)
  BY <1>1 DEF TwoExact
<1> HIDE DEF g
<1>11. GroupHalf(Len(t2))'
  <2>1. PICK n : n = g
    OBVIOUS
  <2>2. LeftOf(n)' = LeftOf(n) /\ Len(t2)' = n /\ t2'[n] = <<>>
    BY <1>1, <1>6, <2>1 DEF LeftOf
  <2>3. LeftOf(Len(t2))' = LeftOf(n)
    BY <1>1, <2>2 DEF LeftOf
  <2>4. /\ OnceEach(right', MatchesIn(Plot', XBits'[2 * Len(t2)'])) /\ InHashOrder(right')
        /\ HalfTwo(Plot', LeftOf(Len(t2))', next', t2'[Len(t2)'], XBits'[2 * Len(t2)' - 1], XBits'[2 * Len(t2)'])
    BY <1>2, <1>8, <1>9, <2>1, <2>2, <2>3
  <2> QED BY <2>4 DEF GroupHalf
<1>12. ASSUME NEW i \in 1 .. Len(t2'), i # Len(t2') PROVE GroupDone(i)'
  <2>1. i \in 1 .. Len(t2)
    BY <1>3, <1>6, <1>12 DEF g
  <2> QED BY <1>2, <1>6, <1>10, <2>1 DEF GroupDone
<1> QED BY <1>1, <1>11, <1>12 DEF TwoExact

\* A thread handles a left entry.
LEMMA MatchLeftExact ==
  ASSUME IInv, GroupsExact, TwoExact, NEW w \in Workers, MatchLeft(w)
  PROVE  TwoExact'
<1> USE CallIs
<1> DEFINE g == Len(t2)
           out == LocalOut(LeftOf(g)[next[w].at + 1])
           new == t2[g] \o out
<1>1. /\ phase = "match2" /\ phase' = "match2" /\ next[w].at < next[w].end
      /\ t2' = [t2 EXCEPT ![g] = new] /\ next' = [next EXCEPT ![w].at = @ + 1]
      /\ UNCHANGED <<asked, mapping, groups, right>>
  BY DEF MatchLeft, listVars
<1>2. Plot' = Plot /\ XBits' = XBits
  BY <1>1, CallStays DEF SameCall
<1>3. t2 \in Seq(Seq([1 .. 4 -> Xs])) /\ g \in Nat /\ g <= 2 * Fragments /\ g >= 1 /\ DOMAIN next = Workers
  BY <1>1 DEF TwoOK
<1>4. g \in 1 .. 2 * Fragments /\ phase \in Late
  BY <1>1, <1>3 DEF Late
<1>5. 2 * g - 1 \in 1 .. 4 * Fragments
  BY <1>4, TwoRanges
<1>6. OnceEach(LeftOf(g), MatchesIn(Plot, XBits[2 * g - 1]))
  BY <1>4, <1>5, GroupAll DEF LeftOf
<1>7. GroupHalf(g)
  BY <1>1 DEF TwoExact
<1>8. HalfTwo(Plot, LeftOf(g), next', new, XBits[2 * g - 1], XBits[2 * g])
  <2> DEFINE left == LeftOf(g)
             a == XBits[2 * g - 1]
             b == XBits[2 * g]
             list == t2[g]
             nx == next
             ny == next'
  <2>1. /\ OnceEach(left, MatchesIn(Plot, a)) /\ OnceEach(right, MatchesIn(Plot, b)) /\ InHashOrder(right)
        /\ HalfTwo(Plot, left, nx, list, a, b) /\ DOMAIN nx = Workers /\ nx[w].at < nx[w].end
        /\ ny = [nx EXCEPT ![w].at = @ + 1]
    BY <1>1, <1>3, <1>6, <1>7 DEF GroupHalf
  <2>2. new = list \o LocalOut(left[nx[w].at + 1])
    OBVIOUS
  <2> HIDE DEF left, a, b, list, nx, ny, new, out
  <2>3. HalfTwo(Plot, left, ny, list \o LocalOut(left[nx[w].at + 1]), a, b)
    BY <2>1, HalfGrows
  <2> QED BY <2>2, <2>3 DEF left, a, b, ny
<1> HIDE DEF new, out
<1>n. PICK n : n = g
  OBVIOUS
<1>9. Len(t2') = n /\ t2'[n] = new /\ \A i \in 1 .. n : i # n => t2'[i] = t2[i]
  <2> DEFINE Z == Seq([1 .. 4 -> Xs])
  <2>1. t2 \in Seq(Z) /\ n = Len(t2) /\ n \in Nat /\ t2' = [t2 EXCEPT ![n] = new] /\ n >= 1
    BY <1>1, <1>3, <1>n
  <2> HIDE DEF Z
  <2>2. DOMAIN t2 = 1 .. n
    BY <2>1
  <2> DEFINE f == [i \in 1 .. n |-> IF i = n THEN new ELSE t2[i]]
  <2>3. t2' = f
    BY <2>1, <2>2
  <2>4. f \in [1 .. n -> {f[i] : i \in 1 .. n}]
    OBVIOUS
  <2>5. Len(f) = n
    BY <2>1, <2>4, ListOf
  <2> QED BY <2>1, <2>3, <2>5
<1>10. \A i \in 1 .. n : i # n => GroupDone(i)
  BY <1>1, <1>n DEF TwoExact
<1> HIDE DEF g
<1>11. GroupHalf(Len(t2))'
  <2>1. LeftOf(Len(t2))' = LeftOf(n)
    BY <1>1, <1>9 DEF LeftOf
  <2>2. GroupHalf(n) /\ HalfTwo(Plot, LeftOf(n), next', new, XBits[2 * n - 1], XBits[2 * n])
    BY <1>7, <1>8, <1>n
  <2>3. OnceEach(right', MatchesIn(Plot, XBits[2 * n])) /\ InHashOrder(right')
    BY <1>1, <2>2 DEF GroupHalf
  <2>4. /\ OnceEach(right', MatchesIn(Plot', XBits'[2 * Len(t2)'])) /\ InHashOrder(right')
        /\ HalfTwo(Plot', LeftOf(Len(t2))', next', t2'[Len(t2)'], XBits'[2 * Len(t2)' - 1], XBits'[2 * Len(t2)'])
    BY <1>2, <1>9, <2>1, <2>2, <2>3
  <2> QED BY <2>4 DEF GroupHalf
<1>12. ASSUME NEW i \in 1 .. Len(t2'), i # Len(t2') PROVE GroupDone(i)'
  BY <1>2, <1>9, <1>10, <1>12 DEF GroupDone
<1> QED BY <1>1, <1>11, <1>12 DEF TwoExact

\* All threads of a group are through.
LEMMA JoinMatch2Exact ==
  ASSUME IInv, GroupsExact, TwoExact, JoinMatch2
  PROVE  TwoExact'
<1> USE CallIs
<1> DEFINE g == Len(t2)
<1>1. /\ phase = "match2" /\ phase' = "begin2" /\ (\A w \in Workers : next[w].at = next[w].end)
      /\ UNCHANGED <<asked, t2>>
  BY DEF JoinMatch2, pairVars
<1>2. Plot' = Plot /\ XBits' = XBits
  BY <1>1, CallStays DEF SameCall
<1>3. g \in Nat /\ g <= 2 * Fragments /\ g >= 1
  BY <1>1 DEF TwoOK
<1>4. g \in 1 .. 2 * Fragments /\ phase \in Late
  BY <1>1, <1>3 DEF Late
<1>5. 2 * g - 1 \in 1 .. 4 * Fragments
  BY <1>4, TwoRanges
<1>6. OnceEach(LeftOf(g), MatchesIn(Plot, XBits[2 * g - 1]))
  BY <1>4, <1>5, GroupAll DEF LeftOf
<1>7. GroupDone(g)
  <2> DEFINE left == LeftOf(g)
             a == XBits[2 * g - 1]
             b == XBits[2 * g]
             list == t2[g]
             nx == next
  <2>1. /\ OnceEach(left, MatchesIn(Plot, a)) /\ HalfTwo(Plot, left, nx, list, a, b)
        /\ \A w \in Workers : nx[w].at = nx[w].end
    BY <1>1, <1>6 DEF TwoExact, GroupHalf
  <2> HIDE DEF left, a, b, list, nx
  <2>2. OnceEach(list, Fours(Plot, a, b))
    BY <2>1, HalfEnds
  <2> QED BY <2>2 DEF GroupDone, a, b, list
<1>8. \A i \in 1 .. Len(t2) : GroupDone(i)
  BY <1>7 DEF TwoExact
<1> QED BY <1>1, <1>2, <1>8 DEF TwoExact, GroupDone

\* The other steps leave table 2 alone.
LEMMA TwoExactKept ==
  ASSUME TwoExact, phase # "match2", phase' # "match2", UNCHANGED <<asked, t2>>
  PROVE  TwoExact'
<1>1. Plot' = Plot /\ XBits' = XBits
  BY CallStays DEF SameCall
<1> QED BY <1>1 DEF TwoExact, GroupDone

-----------------------------------------------------------------------------
(* No proof of a fragment is missed                                        *)

\* A list is one of a length and one of another joined.
Cut(E, k, m, p) == \E a, b \in Seq(E) : Len(a) = k /\ Len(b) = m /\ p = a \o b

\* It can be cut anywhere.
LEMMA CutAt ==
  ASSUME NEW E, NEW k \in Nat, NEW m \in Nat, NEW p \in Seq(E), Len(p) = k + m
  PROVE  Cut(E, k, m, p)
<1> DEFINE a == [i \in 1 .. k |-> p[i]]
           b == [i \in 1 .. m |-> p[i + k]]
<1>1. \A i \in 1 .. k + m : p[i] \in E
  OBVIOUS
<1>2. a \in Seq(E) /\ Len(a) = k
  <2>1. a \in [1 .. k -> E]
    BY <1>1
  <2> HIDE DEF a
  <2> QED BY <2>1, ListOf
<1>3. b \in Seq(E) /\ Len(b) = m
  <2>1. b \in [1 .. m -> E]
    <3>1. \A i \in 1 .. m : i + k \in 1 .. k + m
      OBVIOUS
    <3> QED BY <1>1, <3>1
  <2> HIDE DEF b
  <2> QED BY <2>1, ListOf
<1>4. (\A i \in 1 .. k : a[i] = p[i]) /\ (\A i \in 1 .. m : b[i] = p[i + k])
  OBVIOUS
<1> HIDE DEF a, b
<1> DEFINE l == a \o b
<1>5. Joins(E, a, b, l)
  BY <1>2, <1>3, ListsJoined
<1> HIDE DEF l
<1>6. /\ l \in Seq(E) /\ Len(l) = k + m
      /\ (\A i \in 1 .. k : l[i] = a[i]) /\ (\A i \in 1 .. m : l[i + k] = b[i])
  BY <1>2, <1>3, <1>5 DEF Joins
<1>7. ASSUME NEW i \in 1 .. k + m PROVE l[i] = p[i]
  <2>1. CASE i <= k
    <3>1. i \in 1 .. k
      BY <2>1
    <3> QED BY <1>4, <1>6, <3>1
  <2>2. CASE ~ (i <= k)
    <3>1. i - k \in 1 .. m /\ (i - k) + k = i
      BY <2>2
    <3> QED BY <1>4, <1>6, <3>1
  <2> QED BY <2>1, <2>2
<1>8. l = p
  BY <1>6, <1>7, SameList
<1> QED BY <1>2, <1>3, <1>8 DEF l, Cut

\* A proof of a fragment is two matches of table 2 of the fragment's x ranges.
LEMMA EightParts ==
  ASSUME BitsAre, NEW f \in 1 .. Fragments, NEW xs \in Eights(Plot, asked[2][f])
  PROVE  \E l \in Fours(Plot, XBits[(4 * f) - 3], XBits[(4 * f) - 2]),
            r \in Fours(Plot, XBits[(4 * f) - 1], XBits[4 * f]) : xs = l \o r
<1>1. xs \in [1 .. 8 -> Xs] /\ ValidPairs3(Plot, xs) /\ EncodeFragment(Plot, xs) = asked[2][f] /\ Plot \in Plots
  BY DEF Eights, BitsAre
<1>2. xs \in Seq(Xs) /\ Len(xs) = 4 + 4
  <2>1. 8 \in Nat /\ 4 + 4 = 8
    OBVIOUS
  <2> QED BY <1>1, <2>1, ListOf
<1>3. PICK l \in Seq(Xs), r \in Seq(Xs) : Len(l) = 4 /\ Len(r) = 4 /\ xs = l \o r
  <2> DEFINE k == 4
  <2>1. k \in Nat /\ Len(xs) = k + k
    BY <1>2
  <2> HIDE DEF k
  <2>2. Cut(Xs, k, k, xs)
    BY <1>2, <2>1, CutAt
  <2> QED BY <2>2 DEF k, Cut
<1>4. l \in [1 .. 4 -> Xs] /\ r \in [1 .. 4 -> Xs]
  <2>1. \A n \in Nat, e \in Seq(Xs) : Len(e) = n => e \in [1 .. n -> Xs]
    OBVIOUS
  <2>2. 4 \in Nat
    OBVIOUS
  <2> QED BY <1>3, <2>1, <2>2, Zenon
<1>5. Halved(Xs, 4, l, r, xs)
  BY <1>3, <1>4, JoinedHalves
<1>6. LeftHalf(xs) = l /\ RightHalf(xs) = r /\ xs[1] = l[1] /\ xs[3] = l[3] /\ xs[5] = r[1] /\ xs[7] = r[3]
  <2>1. LeftHalf(xs) = l /\ RightHalf(xs) = r /\ \A i \in 1 .. 4 : xs[i] = l[i] /\ xs[i + 4] = r[i]
    BY <1>5 DEF Halved
  <2>2. 1 \in 1 .. 4 /\ 3 \in 1 .. 4 /\ 1 + 4 = 5 /\ 3 + 4 = 7
    OBVIOUS
  <2> QED BY <2>1, <2>2
<1>7. <<XBits[(4 * f) - 3], XBits[(4 * f) - 2], XBits[(4 * f) - 1], XBits[4 * f]>>
        = <<Upper(l[1]), Upper(l[3]), Upper(r[1]), Upper(r[3])>>
  <2>1. FragmentBits(Plot, asked[2][f]) = <<Upper(xs[1]), Upper(xs[3]), Upper(xs[5]), Upper(xs[7])>>
    BY <1>1, FragmentKeepsBits
  <2> QED BY <1>6, <2>1, BitsAt
<1>8. /\ Upper(l[1]) = XBits[(4 * f) - 3] /\ Upper(l[3]) = XBits[(4 * f) - 2]
      /\ Upper(r[1]) = XBits[(4 * f) - 1] /\ Upper(r[3]) = XBits[4 * f]
  BY <1>7
<1>9. ValidPairs2(Plot, l) /\ ValidPairs2(Plot, r)
  BY <1>1, <1>6 DEF ValidPairs3
<1>10. /\ l \in Fours(Plot, XBits[(4 * f) - 3], XBits[(4 * f) - 2])
       /\ r \in Fours(Plot, XBits[(4 * f) - 1], XBits[4 * f])
  BY <1>4, <1>8, <1>9 DEF Fours
<1> QED BY <1>3, <1>10

\* What passes of two complete groups of table 2 are all proofs of the fragment.
LEMMA T3Once ==
  ASSUME BitsAre, NEW f \in 1 .. Fragments,
         OnceEach(t2[2 * f - 1], Fours(Plot, XBits[(4 * f) - 3], XBits[(4 * f) - 2])),
         OnceEach(t2[2 * f], Fours(Plot, XBits[(4 * f) - 1], XBits[4 * f]))
  PROVE  OnceEach(T3Of(f), Eights(Plot, asked[2][f]))
<1> DEFINE fragment == asked[2][f]
           A == Fours(Plot, XBits[(4 * f) - 3], XBits[(4 * f) - 2])
           B == Fours(Plot, XBits[(4 * f) - 1], XBits[4 * f])
           V == Eights(Plot, fragment)
           eights == Product(t2[2 * f - 1], t2[2 * f])
           at == {i \in DOMAIN eights : ValidPairs3(Plot, eights[i])}
<1>1. OnceEach(eights, JoinsOf(A, B))
  <2>1. OfLength(Xs, A, 4) /\ B \subseteq Seq(Xs)
    <3>1. ASSUME NEW xs \in [1 .. 4 -> Xs] PROVE xs \in Seq(Xs) /\ Len(xs) = 4
      <4>1. 4 \in Nat
        OBVIOUS
      <4> QED BY <4>1, ListOf
    <3> QED BY <3>1 DEF Fours, OfLength
  <2> HIDE DEF A, B
  <2>2. OnceEach(t2[2 * f - 1], A) /\ OnceEach(t2[2 * f], B)
    BY DEF A, B
  <2> QED BY <2>1, <2>2, ProductOnce
<1>2. T3Of(f) = Those(eights, at)
  BY DEF T3Of
<1>3. ASSUME NEW e \in JoinsOf(A, B) PROVE ValidPairs3(Plot, e) <=> e \in V
  <2>1. PICK l \in A, r \in B : e = l \o r
    BY DEF JoinsOf
  <2>2. e \in [1 .. 8 -> Xs] /\ EncodeFragment(Plot, e) = fragment
    BY <2>1, EightMade
  <2> QED BY <2>2 DEF Eights
<1>4. V \subseteq JoinsOf(A, B)
  <2>1. ASSUME NEW xs \in V PROVE xs \in JoinsOf(A, B)
    <3>1. PICK l \in A, r \in B : xs = l \o r
      BY EightParts
    <3>2. <<l, r>> \in A \X B /\ <<l, r>>[1] = l /\ <<l, r>>[2] = r
      OBVIOUS
    <3> HIDE DEF A, B
    <3> QED BY <3>1, <3>2, Zenon DEF JoinsOf
  <2> QED BY <2>1
<1> HIDE DEF A, B, V, eights
<1>5. \A i \in DOMAIN eights : eights[i] \in JoinsOf(A, B)
  <2>1. eights \in Seq(JoinsOf(A, B))
    BY <1>1 DEF OnceEach
  <2> QED BY <2>1, ListShape
<1>6. at = {i \in DOMAIN eights : eights[i] \in V}
  BY <1>3, <1>5
<1> HIDE DEF at
<1>7. OnceEach(Those(eights, at), JoinsOf(A, B) \cap V)
  BY <1>1, <1>6, OnceThose
<1>8. JoinsOf(A, B) \cap V = V
  BY <1>4
<1> QED BY <1>2, <1>7, <1>8 DEF V

-----------------------------------------------------------------------------
(* No full proof is missed                                                 *)

\* Joining two sets of lists, in the words of the model.
LEMMA JoinsAre ==
  ASSUME NEW E, NEW F
  PROVE  JoinsOf(E, F) = {p \o q : p \in E, q \in F}
<1>1. ASSUME NEW p \in E, NEW q \in F PROVE p \o q \in JoinsOf(E, F)
  <2>1. <<p, q>> \in E \X F /\ <<p, q>>[1] = p /\ <<p, q>>[2] = q
    OBVIOUS
  <2> QED BY <2>1, Zenon DEF JoinsOf
<1>2. ASSUME NEW g \in JoinsOf(E, F) PROVE \E p \in E, q \in F : g = p \o q
  BY DEF JoinsOf
<1> DEFINE G == {p \o q : p \in E, q \in F}
<1>3. \A g : g \in G <=> \E p \in E, q \in F : g = p \o q
  OBVIOUS
<1> HIDE DEF G
<1>4. \A g : g \in JoinsOf(E, F) <=> g \in G
  <2>1. ASSUME NEW g, g \in G PROVE g \in JoinsOf(E, F)
    <3>1. PICK p \in E, q \in F : g = p \o q
      BY <1>3, <2>1
    <3> QED BY <1>1, <3>1
  <2> QED BY <1>2, <1>3, <2>1
<1>5. JoinsOf(E, F) = G
  BY <1>4
<1> QED BY <1>5 DEF G

\* A proof of a fragment is eight x values.
LEMMA EightIs ==
  ASSUME NEW plot, NEW fragment, NEW e \in Eights(plot, fragment)
  PROVE  e \in Seq(Xs) /\ Len(e) = 8
<1>1. e \in [1 .. 8 -> Xs]
  BY DEF Eights
<1>2. 8 \in Nat
  OBVIOUS
<1> QED BY <1>1, <1>2, ListOf

\* For no fragment there is one, the empty list.
LEMMA FullNone ==
  ASSUME NEW plot, NEW quality
  PROVE  Full(plot, quality, 0) = {<<>>}
<1>1. 8 * 0 = 0
  OBVIOUS
<1>2. \A p \in Seq(Xs) : Len(p) = 0 <=> p = <<>>
  OBVIOUS
<1>3. <<>> \in Seq(Xs)
  OBVIOUS
<1>4. \A f \in 1 .. 0 : FALSE
  OBVIOUS
<1> QED BY <1>1, <1>2, <1>3, <1>4 DEF Full

\* The full proofs of one fragment more are those of the fragments before, each
\* with each proof of the fragment.
LEMMA FullJoins ==
  ASSUME NEW plot, NEW quality, NEW n \in Nat
  PROVE  JoinsOf(Full(plot, quality, n), Eights(plot, quality[n + 1])) = Full(plot, quality, n + 1)
<1> DEFINE E == Full(plot, quality, n)
           F == Eights(plot, quality[n + 1])
           G == Full(plot, quality, n + 1)
<1>1. \A p \in E, e \in F : p \o e \in G
  BY FullGrows
<1>2. ASSUME NEW g \in G PROVE \E p \in E, e \in F : g = p \o e
  <2> DEFINE k == 8 * n
             m == 8
  <2>1. g \in Seq(Xs) /\ k \in Nat /\ m \in Nat /\ Len(g) = k + m
    <3>1. g \in Seq(Xs) /\ Len(g) = 8 * (n + 1)
      BY DEF Full
    <3> QED BY <3>1
  <2>2. \A f \in 1 .. n + 1 : EightOf(g, f) \in Eights(plot, quality[f])
    BY DEF Full
  <2> HIDE DEF k, m
  <2>3. Cut(Xs, k, m, g)
    BY <2>1, CutAt
  <2>4. PICK p \in Seq(Xs), e \in Seq(Xs) : Len(p) = k /\ Len(e) = m /\ g = p \o e
    BY <2>3 DEF Cut
  <2>5. Len(p) = 8 * n /\ Len(e) = 8
    BY <2>4 DEF k, m
  <2>6. /\ \A f \in 1 .. n : EightOf(p \o e, f) = EightOf(p, f)
        /\ EightOf(p \o e, n + 1) = e
    BY <2>5, EightsOfJoined
  <2>7. \A f \in 1 .. n : f \in 1 .. n + 1
    OBVIOUS
  <2>8. n + 1 \in 1 .. n + 1
    OBVIOUS
  <2>9. e \in F
    BY <2>2, <2>4, <2>6, <2>8
  <2>10. \A f \in 1 .. n : EightOf(p, f) \in Eights(plot, quality[f])
    BY <2>2, <2>4, <2>6, <2>7
  <2>11. p \in E
    BY <2>5, <2>10 DEF Full
  <2> QED BY <2>4, <2>9, <2>11
<1> HIDE DEF E, F, G
<1>3. \A g : g \in JoinsOf(E, F) <=> \E p \in E, e \in F : g = p \o e
  BY JoinsAre
<1>4. JoinsOf(E, F) = G
  <2>1. ASSUME NEW g, g \in JoinsOf(E, F) PROVE g \in G
    <3>1. PICK p \in E, e \in F : g = p \o e
      BY <1>3, <2>1
    <3> QED BY <1>1, <3>1
  <2>2. ASSUME NEW g, g \in G PROVE g \in JoinsOf(E, F)
    BY <1>2, <1>3, <2>2
  <2> QED BY <2>1, <2>2
<1> QED BY <1>4 DEF E, F, G

\* Complete groups of table 3 multiplied out are all full proofs.
LEMMA ChosenOnce ==
  ASSUME Fragments \in Nat, NEW plot, NEW quality,
         \A f \in 1 .. Fragments : OnceEach(t3[f], Eights(plot, quality[f]))
  PROVE  OnceEach(Chosen[Fragments], Full(plot, quality, Fragments))
<1> DEFINE F == Fragments
           first == << <<>> >>
           All(n) == Full(plot, quality, n)
<1>1. Chosen = [n \in 0 .. F |-> IF n = 0 THEN first ELSE Product(Chosen[n - 1], t3[n])]
  <2>1. \A f \in 1 .. Fragments : t3[f] \in Seq(Eights(plot, quality[f]))
    BY DEF OnceEach
  <2> QED BY <2>1, ChosenIs
<1>f. F \in Nat
  OBVIOUS
<1>t. \A n \in 1 .. F : OnceEach(t3[n], Eights(plot, quality[n]))
  OBVIOUS
<1> DEFINE S == {n \in Nat : n <= F => OnceEach(Chosen[n], All(n))}
<1> HIDE DEF F, first
<1>2. 0 \in S
  <2>1. Chosen[0] = first
    BY <1>1, <1>f
  <2>2. All(0) = {<<>>}
    BY FullNone
  <2>3. OnceEach(first, {<<>>})
    BY DEF OnceEach, first
  <2> QED BY <2>1, <2>2, <2>3
<1>3. ASSUME NEW n \in Nat, n \in S PROVE n + 1 \in S
  <2>1. SUFFICES ASSUME n + 1 <= F PROVE OnceEach(Chosen[n + 1], All(n + 1))
    OBVIOUS
  <2> DEFINE a == Chosen[n]
             b == t3[n + 1]
             A == All(n)
             B == Eights(plot, quality[n + 1])
  <2>2. OnceEach(a, A) /\ n + 1 \in 0 .. F /\ n + 1 # 0 /\ (n + 1) - 1 = n /\ n + 1 \in 1 .. F
    BY <1>3, <1>f, <2>1
  <2>3. Chosen[n + 1] = Product(a, b)
    BY <1>1, <2>2
  <2>4. OnceEach(b, B)
    BY <1>t, <2>2
  <2>5. OfLength(Xs, A, 8 * n) /\ B \subseteq Seq(Xs)
    <3>1. OfLength(Xs, A, 8 * n)
      BY DEF OfLength, Full
    <3>2. B \subseteq Seq(Xs)
      BY EightIs
    <3> QED BY <3>1, <3>2
  <2>6. JoinsOf(A, B) = All(n + 1)
    BY FullJoins
  <2> DEFINE k == 8 * n
  <2>7. OfLength(Xs, A, k) /\ B \subseteq Seq(Xs)
    BY <2>5
  <2> HIDE DEF a, b, A, B, k, All
  <2>8. OnceEach(Product(a, b), JoinsOf(A, B))
    BY <2>2, <2>4, <2>7, ProductOnce
  <2> QED BY <2>3, <2>6, <2>8
<1>4. \A n \in Nat : n \in S
  <2> HIDE DEF S
  <2> QED BY <1>2, <1>3, Inductive
<1> QED BY <1>4, <1>f DEF F

-----------------------------------------------------------------------------
(* The search is complete                                                  *)

\* What is put together are all proofs of every fragment, and all full proofs.
EndExact ==
  /\ phase \in {"construct", "done"} =>
       \A f \in 1 .. Fragments : OnceEach(t3[f], Eights(Plot, asked[2][f]))
  /\ phase = "done" => OnceEach(proofs, Full(Plot, asked[2], Fragments))

\* From the groups of table 1 to the proofs.
DInv == GroupsExact /\ TwoExact /\ EndExact

\* The other steps leave the proofs alone.
LEMMA EndExactKept ==
  ASSUME EndExact, phase' \in {"construct", "done"} => phase' = phase, UNCHANGED <<asked, t3, proofs>>
  PROVE  EndExact'
<1>1. Plot' = Plot /\ Fragments' = Fragments
  BY CallStays DEF SameCall
<1> QED BY <1>1 DEF EndExact

\* matchT3Candidates
LEMMA MatchT3Exact ==
  ASSUME IInv, DInv, MatchT3
  PROVE  DInv'
<1> USE CallIs
<1>1. /\ phase = "begin2" /\ Len(t2) = 2 * Fragments /\ phase' = "construct"
      /\ t3' = [f \in 1 .. Fragments |-> T3Of(f)]
      /\ UNCHANGED <<asked, unique, groups, t2>>
  BY DEF MatchT3, listVars
<1>2. Plot' = Plot /\ Fragments' = Fragments
  BY <1>1, CallStays DEF SameCall
<1>3. GroupsExact' /\ TwoExact'
  BY <1>1, GroupsExactKept, TwoExactKept DEF DInv, Late
<1>4. \A g \in 1 .. Len(t2) : OnceEach(t2[g], Fours(Plot, XBits[2 * g - 1], XBits[2 * g]))
  BY <1>1 DEF DInv, TwoExact, GroupDone
<1>5. ASSUME NEW f \in 1 .. Fragments PROVE OnceEach(t3'[f], Eights(Plot, asked[2][f]))
  <2> DEFINE k == Fragments
             l == (2 * f) - 1
             r == 2 * f
  <2>1. k \in Nat /\ f \in 1 .. k
    BY <1>5
  <2> HIDE DEF k
  <2>2. /\ l \in 1 .. 2 * k /\ r \in 1 .. 2 * k
        /\ (2 * l) - 1 = (4 * f) - 3 /\ 2 * l = (4 * f) - 2
        /\ (2 * r) - 1 = (4 * f) - 1 /\ 2 * r = 4 * f
    BY <2>1
  <2> HIDE DEF l, r
  <2>3. /\ OnceEach(t2[l], Fours(Plot, XBits[2 * l - 1], XBits[2 * l]))
        /\ OnceEach(t2[r], Fours(Plot, XBits[2 * r - 1], XBits[2 * r]))
    <3>1. l \in 1 .. Len(t2) /\ r \in 1 .. Len(t2)
      BY <1>1, <2>2 DEF k
    <3> QED BY <1>4, <3>1
  <2>4. /\ OnceEach(t2[l], Fours(Plot, XBits[(4 * f) - 3], XBits[(4 * f) - 2]))
        /\ OnceEach(t2[r], Fours(Plot, XBits[(4 * f) - 1], XBits[4 * f]))
    BY <2>2, <2>3
  <2>5. OnceEach(T3Of(f), Eights(Plot, asked[2][f]))
    BY <2>4, T3Once DEF l, r
  <2> QED BY <1>1, <2>5
<1> QED BY <1>1, <1>2, <1>3, <1>5 DEF DInv, EndExact

\* constructProofs
LEMMA ConstructExact ==
  ASSUME IInv, DInv, Construct
  PROVE  DInv'
<1> USE CallIs
<1>1. /\ phase = "construct" /\ phase' = "done" /\ proofs' = Chosen[Fragments]
      /\ UNCHANGED <<asked, unique, groups, t2, t3>>
  BY DEF Construct, listVars
<1>2. Plot' = Plot /\ Fragments' = Fragments
  BY <1>1, CallStays DEF SameCall
<1>3. GroupsExact' /\ TwoExact'
  BY <1>1, GroupsExactKept, TwoExactKept DEF DInv, Late
<1>4. \A f \in 1 .. Fragments : OnceEach(t3[f], Eights(Plot, asked[2][f]))
  BY <1>1 DEF DInv, EndExact
<1>5. OnceEach(proofs', Full(Plot, asked[2], Fragments))
  BY <1>1, <1>4, ChosenOnce
<1> QED BY <1>1, <1>2, <1>3, <1>4, <1>5 DEF DInv, EndExact

\* Before table 2 there is nothing to miss.
LEMMA EarlyExact ==
  ASSUME DInv, phase' \in Early, phase \in Early, UNCHANGED <<asked, t2, t3, proofs>>
  PROVE  DInv'
<1>1. GroupsExact'
  BY DEF GroupsExact, Early, Late
<1>2. TwoExact'
  BY TwoExactKept DEF DInv, Early
<1>3. EndExact'
  BY EndExactKept DEF DInv, Early
<1> QED BY <1>1, <1>2, <1>3 DEF DInv

\* No step loses a match or a proof, or has one twice.
LEMMA NextDInv ==
  ASSUME IInv, CInv, DInv, BoundsFindSections, [Next]_vars
  PROVE  DInv'
<1> USE DEF DInv
<1>1. CASE HashX1 \/ JoinFilter \/
           \E w \in Workers : FilterChunk(w) \/ EnterSection(w) \/ Scan(w) \/ PairUp(w) \/ Store(w) \/ EndRun(w)
  <2>1. UNCHANGED <<asked, t2, t3, proofs>>
    BY <1>1 DEF HashX1, JoinFilter, FilterChunk, EnterSection, Scan, PairUp, Store, EndRun, pairVars
  <2>2. phase \in Early /\ phase' \in Early
    BY <1>1 DEF HashX1, JoinFilter, FilterChunk, EnterSection, Scan, PairUp, Store, EndRun, Early
  <2> HIDE DEF DInv
  <2> QED BY <2>1, <2>2, EarlyExact
<1>2. CASE JoinMatch1
  <2>1. phase = "match1" /\ phase' = "begin2" /\ UNCHANGED <<asked, t2, t3, proofs>>
    BY <1>2 DEF JoinMatch1
  <2> QED BY <1>2, <2>1, JoinMatch1Exact, TwoExactKept, EndExactKept
<1>3. CASE Begin2
  <2>1. phase = "begin2" /\ phase' = "match2" /\ UNCHANGED <<asked, unique, groups, t3, proofs>>
    BY <1>3 DEF Begin2, listVars
  <2> QED BY <1>3, <2>1, GroupsExactKept, Begin2Exact, EndExactKept DEF Late
<1>4. ASSUME NEW w \in Workers, MatchLeft(w) PROVE DInv'
  <2>1. phase = "match2" /\ phase' = "match2" /\ UNCHANGED <<asked, unique, groups, t3, proofs>>
    BY <1>4 DEF MatchLeft, listVars
  <2> QED BY <1>4, <2>1, GroupsExactKept, MatchLeftExact, EndExactKept DEF Late
<1>5. CASE JoinMatch2
  <2>1. phase = "match2" /\ phase' = "begin2" /\ UNCHANGED <<asked, unique, groups, t3, proofs>>
    BY <1>5 DEF JoinMatch2, listVars, pairVars
  <2> QED BY <1>5, <2>1, GroupsExactKept, JoinMatch2Exact, EndExactKept DEF Late
<1>6. CASE MatchT3
  BY <1>6, MatchT3Exact
<1>7. CASE Construct
  BY <1>7, ConstructExact
<1>8. CASE UNCHANGED vars
  <2>1. UNCHANGED <<phase, asked, unique, mapping, groups, right, next, t2, t3, proofs>>
    BY <1>8 DEF vars, listVars, pairVars
  <2>2. Plot' = Plot /\ XBits' = XBits
    BY <2>1, CallStays DEF SameCall
  <2>3. TwoExact'
    BY <2>1, <2>2 DEF TwoExact, GroupDone, GroupHalf, LeftOf
  <2> QED BY <2>1, <2>3, GroupsExactKept, EndExactKept
<1>9. CASE Next
  <2> HIDE DEF DInv
  <2> QED BY <1>1, <1>2, <1>3, <1>4, <1>5, <1>6, <1>7, <1>8, <1>9 DEF Next, Coordinate, MatchWork
<1> QED BY <1>8, <1>9

\* What a search keeps from table 1 to the proofs.
LEMMA ProofsComplete == Spec /\ []BoundsFindSections => []DInv
<1>1. Init => DInv
  <2>1. SUFFICES ASSUME Init PROVE DInv
    OBVIOUS
  <2>2. phase = "hash" /\ t2 = <<>>
    BY <2>1 DEF Init
  <2> QED BY <2>2 DEF DInv, GroupsExact, TwoExact, EndExact, Late
<1>2. IInv /\ CInv /\ DInv /\ BoundsFindSections /\ [Next]_vars => DInv'
  BY NextDInv
<1> QED BY <1>1, <1>2, SolverKeeps, SearchComplete, PTL DEF Spec

-----------------------------------------------------------------------------
(* The proofs the property counts                                          *)

\* An even list is two halves.
TwoHalves(n, xs) ==
  \E a, b \in [1 .. n -> Xs] : xs = a \o b /\ LeftHalf(xs) = a /\ RightHalf(xs) = b

\* Every list of x values of such a length is.
LEMMA HalvesCut ==
  ASSUME NEW n \in Nat, NEW xs \in [1 .. 2 * n -> Xs]
  PROVE  TwoHalves(n, xs)
<1>1. xs \in Seq(Xs) /\ Len(xs) = n + n
  <2>1. 2 * n \in Nat /\ 2 * n = n + n
    OBVIOUS
  <2> QED BY <2>1, ListOf
<1>2. Cut(Xs, n, n, xs)
  BY <1>1, CutAt
<1>3. PICK a \in Seq(Xs), b \in Seq(Xs) : Len(a) = n /\ Len(b) = n /\ xs = a \o b
  BY <1>2 DEF Cut
<1>4. a \in [1 .. n -> Xs] /\ b \in [1 .. n -> Xs]
  <2>1. \A m \in Nat, e \in Seq(Xs) : Len(e) = m => e \in [1 .. m -> Xs]
    OBVIOUS
  <2> QED BY <1>3, <2>1, Zenon
<1>5. Halved(Xs, n, a, b, xs)
  BY <1>3, <1>4, JoinedHalves
<1> QED BY <1>3, <1>4, <1>5 DEF Halved, TwoHalves

\* Two x values are a list of length 2.
LEMMA PairsAre == Xs \X Xs = [1 .. 2 -> Xs]
<1>1. ASSUME NEW p \in Xs \X Xs PROVE p \in [1 .. 2 -> Xs]
  OBVIOUS
<1>2. ASSUME NEW p \in [1 .. 2 -> Xs] PROVE p \in Xs \X Xs
  <2>1. p[1] \in Xs /\ p[2] \in Xs /\ p = <<p[1], p[2]>>
    OBVIOUS
  <2> QED BY <2>1
<1> QED BY <1>1, <1>2

\* The lists of twice the length whose halves are in a set.
Doubles(n, H) == {xs \in [1 .. 2 * n -> Xs] : LeftHalf(xs) \in H /\ RightHalf(xs) \in H}

\* A list is two elements of a set joined.
OfTwo(xs, H) == \E a, b \in H : xs = a \o b

\* That is the same.
LEMMA FromHalves ==
  ASSUME NEW n \in Nat, NEW H \in SUBSET [1 .. n -> Xs], NEW xs
  PROVE  OfTwo(xs, H) <=> xs \in Doubles(n, H)
<1>1. ASSUME NEW a \in H, NEW b \in H, xs = a \o b PROVE xs \in Doubles(n, H)
  <2>1. Halved(Xs, n, a, b, a \o b)
    BY JoinedHalves
  <2> QED BY <1>1, <2>1 DEF Halved, Doubles
<1>2. ASSUME xs \in Doubles(n, H) PROVE OfTwo(xs, H)
  <2>1. xs \in [1 .. 2 * n -> Xs] /\ LeftHalf(xs) \in H /\ RightHalf(xs) \in H
    BY <1>2 DEF Doubles
  <2>2. TwoHalves(n, xs)
    BY <2>1, HalvesCut
  <2> QED BY <2>1, <2>2 DEF TwoHalves, OfTwo
<1> QED BY <1>1, <1>2 DEF OfTwo

\* The proofs the property counts are the lists of eight x values that are valid
\* and encode to the fragment.
LEMMA ProofsAre ==
  ASSUME NEW fragment
  PROVE  ProofsOf(fragment) = Eights(Plot, fragment)
<1> DEFINE pairs == {p \in Xs \X Xs : ValidPair(Plot, p)}
           P4 == {p \o q : p \in pairs, q \in pairs}
           fours == {xs \in P4 : ValidPairs2(Plot, xs)}
           P8 == {l \o r : l \in fours, r \in fours}
           N4 == [1 .. 4 -> Xs]
           N8 == [1 .. 8 -> Xs]
<1>1. ProofsOf(fragment) = {xs \in P8 : EncodeFragment(Plot, xs) = fragment /\ ValidPairs3(Plot, xs)}
  BY DEF ProofsOf
<1>2. pairs \in SUBSET [1 .. 2 -> Xs]
  BY PairsAre
<1>3. P4 = {xs \in N4 : LeftHalf(xs) \in pairs /\ RightHalf(xs) \in pairs}
  <2> HIDE DEF pairs
  <2>1. \A xs : xs \in P4 <=> OfTwo(xs, pairs)
    BY DEF OfTwo
  <2> DEFINE n == 2
  <2>2. n \in Nat /\ 2 * n = 4 /\ pairs \in SUBSET [1 .. n -> Xs]
    BY <1>2
  <2> HIDE DEF n, P4
  <2>3. \A xs : xs \in P4 <=> xs \in Doubles(n, pairs)
    BY <2>1, <2>2, FromHalves
  <2>4. P4 = Doubles(n, pairs)
    BY <2>3
  <2> QED BY <2>2, <2>4 DEF Doubles
<1>4. \A xs : xs \in fours <=> xs \in N4 /\ ValidPairs2(Plot, xs)
  <2>1. ASSUME NEW xs \in N4, ValidPairs2(Plot, xs) PROVE xs \in P4
    <3>1. ValidPair(Plot, LeftHalf(xs)) /\ ValidPair(Plot, RightHalf(xs))
      BY <2>1 DEF ValidPairs2
    <3> DEFINE n == 2
    <3>2. n \in Nat /\ xs \in [1 .. 2 * n -> Xs]
      OBVIOUS
    <3> HIDE DEF n
    <3>3. TwoHalves(n, xs)
      BY <3>2, HalvesCut
    <3>4. LeftHalf(xs) \in [1 .. 2 -> Xs] /\ RightHalf(xs) \in [1 .. 2 -> Xs]
      BY <3>3 DEF TwoHalves, n
    <3>5. LeftHalf(xs) \in pairs /\ RightHalf(xs) \in pairs
      BY <3>1, <3>4, PairsAre
    <3> HIDE DEF pairs, P4
    <3> QED BY <1>3, <3>5
  <2> HIDE DEF P4
  <2> QED BY <1>3, <2>1
<1> HIDE DEF fours
<1>5. fours \in SUBSET N4
  BY <1>4
<1>6. P8 = {xs \in N8 : LeftHalf(xs) \in fours /\ RightHalf(xs) \in fours}
  <2>1. \A xs : xs \in P8 <=> OfTwo(xs, fours)
    BY DEF OfTwo
  <2> DEFINE n == 4
  <2>2. n \in Nat /\ 2 * n = 8 /\ fours \in SUBSET [1 .. n -> Xs]
    BY <1>5
  <2> HIDE DEF n, P8
  <2>3. \A xs : xs \in P8 <=> xs \in Doubles(n, fours)
    BY <2>1, <2>2, FromHalves
  <2>4. P8 = Doubles(n, fours)
    BY <2>3
  <2> QED BY <2>2, <2>4 DEF Doubles
<1> HIDE DEF P8
<1>7. ASSUME NEW xs \in N8, ValidPairs3(Plot, xs) PROVE xs \in P8
  <2>1. ValidPairs2(Plot, LeftHalf(xs)) /\ ValidPairs2(Plot, RightHalf(xs))
    BY <1>7 DEF ValidPairs3
  <2> DEFINE n == 4
  <2>2. n \in Nat /\ xs \in [1 .. 2 * n -> Xs]
    OBVIOUS
  <2> HIDE DEF n
  <2>3. TwoHalves(n, xs)
    BY <2>2, HalvesCut
  <2>4. LeftHalf(xs) \in N4 /\ RightHalf(xs) \in N4
    BY <2>3 DEF TwoHalves, n
  <2>5. LeftHalf(xs) \in fours /\ RightHalf(xs) \in fours
    BY <1>4, <2>1, <2>4
  <2> QED BY <1>6, <2>5
<1>8. P8 \subseteq N8
  BY <1>6
<1> QED BY <1>1, <1>7, <1>8 DEF Eights

\* Joining is associative.
LEMMA JoinsAssociate ==
  ASSUME NEW E, NEW A \in SUBSET Seq(E), NEW B \in SUBSET Seq(E), NEW C \in SUBSET Seq(E)
  PROVE  JoinsOf(JoinsOf(A, B), C) = JoinsOf(A, JoinsOf(B, C))
<1>1. \A G, H, g : g \in JoinsOf(G, H) <=> \E p \in G, q \in H : g = p \o q
  BY JoinsAre
<1>2. \A a, b, c \in Seq(E) : (a \o b) \o c = a \o (b \o c)
  OBVIOUS
<1>3. ASSUME NEW g, g \in JoinsOf(JoinsOf(A, B), C) PROVE g \in JoinsOf(A, JoinsOf(B, C))
  <2>1. PICK p \in JoinsOf(A, B), c \in C : g = p \o c
    BY <1>3 DEF JoinsOf
  <2>2. PICK a \in A, b \in B : p = a \o b
    BY <1>1
  <2>3. b \o c \in JoinsOf(B, C)
    BY <1>1
  <2>4. g = a \o (b \o c)
    BY <1>2, <2>1, <2>2
  <2> QED BY <1>1, <2>3, <2>4
<1>4. ASSUME NEW g, g \in JoinsOf(A, JoinsOf(B, C)) PROVE g \in JoinsOf(JoinsOf(A, B), C)
  <2>1. PICK a \in A, q \in JoinsOf(B, C) : g = a \o q
    BY <1>4 DEF JoinsOf
  <2>2. PICK b \in B, c \in C : q = b \o c
    BY <1>1
  <2>3. a \o b \in JoinsOf(A, B)
    BY <1>1
  <2>4. g = (a \o b) \o c
    BY <1>2, <2>1, <2>2
  <2> QED BY <1>1, <2>3, <2>4
<1> QED BY <1>3, <1>4

\* The empty list is its neutral element.
LEMMA JoinsNeutral ==
  ASSUME NEW E, NEW A \in SUBSET Seq(E)
  PROVE  JoinsOf({<<>>}, A) = A /\ JoinsOf(A, {<<>>}) = A
<1>1. \A G, H, g : g \in JoinsOf(G, H) <=> \E p \in G, q \in H : g = p \o q
  BY JoinsAre
<1>2. \A a \in Seq(E) : <<>> \o a = a /\ a \o <<>> = a
  OBVIOUS
<1>3. \A g : g \in JoinsOf({<<>>}, A) <=> g \in A
  <2>1. ASSUME NEW g, g \in JoinsOf({<<>>}, A) PROVE g \in A
    <3>1. PICK a \in A : g = <<>> \o a
      BY <2>1 DEF JoinsOf
    <3> QED BY <1>2, <3>1
  <2>2. ASSUME NEW g, g \in A PROVE g \in JoinsOf({<<>>}, A)
    <3>1. g = <<>> \o g /\ <<>> \in {<<>>}
      BY <1>2, <2>2
    <3> QED BY <1>1, <2>2, <3>1, Zenon
  <2> QED BY <2>1, <2>2
<1>4. \A g : g \in JoinsOf(A, {<<>>}) <=> g \in A
  <2>1. ASSUME NEW g, g \in JoinsOf(A, {<<>>}) PROVE g \in A
    <3>1. PICK a \in A : g = a \o <<>>
      BY <2>1 DEF JoinsOf
    <3> QED BY <1>2, <3>1
  <2>2. ASSUME NEW g, g \in A PROVE g \in JoinsOf(A, {<<>>})
    <3>1. g = g \o <<>> /\ <<>> \in {<<>>}
      BY <1>2, <2>2
    <3> QED BY <1>1, <2>2, <3>1, Zenon
  <2> QED BY <2>1, <2>2
<1> QED BY <1>3, <1>4

\* What the property multiplies out, fragment after fragment from the last.
FromIs(From) ==
  /\ From = [f \in Nat |-> From[f]]
  /\ \A f \in Nat : From[f] = IF f > Fragments THEN {<<>>}
                                ELSE JoinsOf(Eights(Plot, asked[2][f]), From[f + 1])

\* Proofs of a fragment joined with lists of x values are such lists.
LEMMA EightsJoined ==
  ASSUME NEW plot, NEW fragment, NEW v \in SUBSET Seq(Xs)
  PROVE  JoinsOf(Eights(plot, fragment), v) \in SUBSET Seq(Xs)
<1>1. \A e \in Eights(plot, fragment) : e \in Seq(Xs)
  BY EightIs
<1>2. \A p, q \in Seq(Xs) : p \o q \in Seq(Xs)
  OBVIOUS
<1>3. ASSUME NEW g \in JoinsOf(Eights(plot, fragment), v) PROVE g \in Seq(Xs)
  <2>1. PICK p \in Eights(plot, fragment), q \in v : g = p \o q
    BY DEF JoinsOf
  <2> QED BY <1>1, <1>2, <2>1
<1> QED BY <1>3

\* There is such a function.
LEMMA FromExists ==
  ASSUME Fragments \in Nat
  PROVE  \E From : FromIs(From)
<1> DEFINE F == Fragments
           Of(f) == Eights(Plot, asked[2][f])
           V == SUBSET Seq(Xs)
           empty == {<<>>}
           step == [p \in Nat \X V |-> JoinsOf(Of((F + 1) - p[1]), p[2])]
<1>2. ASSUME NEW f, NEW v \in V PROVE JoinsOf(Of(f), v) \in V
  BY EightsJoined
<1>3. empty \in V
  <2>1. <<>> \in Seq(Xs)
    OBVIOUS
  <2> QED BY <2>1
<1> HIDE DEF Of, V, empty
<1>4. \A i \in Nat : \A v \in V : step[<<i, v>>] = JoinsOf(Of((F + 1) - i), v)
  OBVIOUS
<1>5. step \in [Nat \X V -> V]
  <2>1. \A p \in Nat \X V : p[2] \in V
    OBVIOUS
  <2> QED BY <1>2, <2>1
<1> HIDE DEF step
<1>6. PICK h : Unrolls(h, V, empty, step)
  BY <1>3, <1>5, PrimitiveRecursion
<1>7. h \in [Nat -> V] /\ h[0] = empty /\ \A n \in Nat : h[n + 1] = step[<<n + 1, h[n]>>]
  BY <1>6 DEF Unrolls
<1> DEFINE From == [f \in Nat |-> IF f > F THEN empty ELSE h[(F + 1) - f]]
<1>f. F \in Nat
  OBVIOUS
<1> HIDE DEF F
<1>8. From \in [Nat -> V]
  <2>1. \A f \in Nat : ~ (f > F) => (F + 1) - f \in Nat
    BY <1>f
  <2> QED BY <1>3, <1>7, <2>1
<1>9. ASSUME NEW f \in Nat PROVE From[f] = IF f > F THEN empty ELSE JoinsOf(Of(f), From[f + 1])
  <2>1. CASE f > F
    BY <2>1
  <2>2. CASE ~ (f > F)
    <3> DEFINE n == F - f
    <3>1. n \in Nat /\ (F + 1) - f = n + 1 /\ (F + 1) - (n + 1) = f /\ n + 1 \in Nat
      BY <1>f, <2>2
    <3>2. From[f] = h[n + 1]
      BY <2>2, <3>1
    <3>3. h[n] \in V
      BY <1>7, <3>1
    <3>4. h[n + 1] = JoinsOf(Of(f), h[n])
      <4>1. h[n + 1] = step[<<n + 1, h[n]>>]
        BY <1>7, <3>1
      <4>2. step[<<n + 1, h[n]>>] = JoinsOf(Of((F + 1) - (n + 1)), h[n])
        BY <1>4, <3>1, <3>3
      <4> QED BY <3>1, <4>1, <4>2
    <3>5. From[f + 1] = h[n]
      <4>1. CASE f = F
        <5>1. n = 0 /\ f + 1 > F /\ f + 1 \in Nat
          BY <1>f, <4>1
        <5> QED BY <1>7, <5>1
      <4>2. CASE f # F
        <5>1. ~ (f + 1 > F) /\ f + 1 \in Nat /\ (F + 1) - (f + 1) = n
          BY <1>f, <2>2, <4>2
        <5> QED BY <5>1
      <4> QED BY <4>1, <4>2
    <3> QED BY <2>2, <3>2, <3>4, <3>5
  <2> QED BY <2>1, <2>2
<1> HIDE DEF From
<1>10. From = [f \in Nat |-> From[f]]
  BY <1>8
<1>11. FromIs(From)
  BY <1>9, <1>10 DEF FromIs, F, Of, empty
<1> QED BY <1>11

\* Its values are sets of lists.
LEMMA FromLists ==
  ASSUME Fragments \in Nat, NEW From, FromIs(From)
  PROVE  From \in [Nat -> SUBSET Seq(Xs)]
<1> DEFINE F == Fragments
           Of(f) == Eights(Plot, asked[2][f])
           V == SUBSET Seq(Xs)
           S == {n \in Nat : \A f \in Nat : f + n > F => From[f] \in V}
<1>1. /\ From = [f \in Nat |-> From[f]]
      /\ \A f \in Nat : From[f] = IF f > F THEN {<<>>} ELSE JoinsOf(Of(f), From[f + 1])
  BY DEF FromIs
<1>2. {<<>>} \in V
  <2>1. <<>> \in Seq(Xs)
    OBVIOUS
  <2> QED BY <2>1
<1>3. \A f : \A v \in V : JoinsOf(Of(f), v) \in V
  BY EightsJoined
<1> HIDE DEF V, Of
<1>f. F \in Nat
  OBVIOUS
<1> HIDE DEF F
<1>4. 0 \in S
  <2>1. ASSUME NEW f \in Nat, f + 0 > F PROVE From[f] \in V
    <3>1. f > F
      BY <1>f, <2>1
    <3> QED BY <1>1, <1>2, <3>1
  <2> QED BY <2>1
<1>5. ASSUME NEW n \in Nat, n \in S PROVE n + 1 \in S
  <2>1. SUFFICES ASSUME NEW f \in Nat, f + (n + 1) > F PROVE From[f] \in V
    OBVIOUS
  <2>2. f + 1 \in Nat /\ (f + 1) + n > F
    BY <1>f, <2>1
  <2>3. From[f + 1] \in V
    BY <1>5, <2>2
  <2> QED BY <1>1, <1>2, <1>3, <2>3
<1>6. \A n \in Nat : n \in S
  <2> HIDE DEF S
  <2> QED BY <1>4, <1>5, Inductive
<1>7. \A f \in Nat : From[f] \in V
  <2>1. \A f \in Nat : F + 1 \in Nat /\ f + (F + 1) > F
    BY <1>f
  <2> QED BY <1>6, <2>1
<1> QED BY <1>1, <1>7 DEF V

\* From the first fragment on it has all full proofs.
LEMMA FromIsFull ==
  ASSUME Fragments \in Nat, NEW From, FromIs(From)
  PROVE  From[1] = Full(Plot, asked[2], Fragments)
<1> DEFINE F == Fragments
           Of(f) == Eights(Plot, asked[2][f])
           All(n) == Full(Plot, asked[2], n)
           V == SUBSET Seq(Xs)
           S == {n \in Nat : n <= F => JoinsOf(All(n), From[n + 1]) = From[1]}
<1>1. From \in [Nat -> V] /\ F \in Nat
      /\ \A f \in Nat : From[f] = IF f > F THEN {<<>>} ELSE JoinsOf(Of(f), From[f + 1])
  <2>1. From \in [Nat -> V]
    BY FromLists
  <2>2. \A f \in Nat : From[f] = IF f > F THEN {<<>>} ELSE JoinsOf(Of(f), From[f + 1])
    BY DEF FromIs
  <2> HIDE DEF V, Of
  <2> QED BY <2>1, <2>2
<1>2. \A n : All(n) \in V
  BY DEF Full
<1>3. \A f : Of(f) \in V
  BY EightIs
<1>4. \A n \in Nat : JoinsOf(All(n), Of(n + 1)) = All(n + 1)
  BY FullJoins
<1>5. All(0) = {<<>>}
  BY FullNone
<1> HIDE DEF F, Of, All
<1>6. \A v \in V : JoinsOf({<<>>}, v) = v /\ JoinsOf(v, {<<>>}) = v
  BY JoinsNeutral
<1>7. \A u, v, w \in V : JoinsOf(JoinsOf(u, v), w) = JoinsOf(u, JoinsOf(v, w))
  BY JoinsAssociate
<1> HIDE DEF V
<1>8. 0 \in S
  <2>1. From[0 + 1] = From[1] /\ From[1] \in V
    BY <1>1
  <2> QED BY <1>5, <1>6, <2>1
<1>9. ASSUME NEW n \in Nat, n \in S PROVE n + 1 \in S
  <2>1. SUFFICES ASSUME n + 1 <= F PROVE JoinsOf(All(n + 1), From[(n + 1) + 1]) = From[1]
    OBVIOUS
  <2> DEFINE m == n + 1
  <2>2. m \in Nat /\ ~ (m > F) /\ n <= F /\ m + 1 \in Nat
    BY <1>1, <2>1
  <2>3. JoinsOf(All(n), From[m]) = From[1]
    BY <1>9, <2>2
  <2>4. All(m) = JoinsOf(All(n), Of(m))
    BY <1>4
  <2> HIDE DEF m
  <2>5. From[m] = JoinsOf(Of(m), From[m + 1]) /\ From[m + 1] \in V
    BY <1>1, <2>2
  <2>6. JoinsOf(All(m), From[m + 1]) = JoinsOf(All(n), JoinsOf(Of(m), From[m + 1]))
    BY <1>2, <1>3, <1>7, <2>4, <2>5
  <2> QED BY <2>3, <2>5, <2>6 DEF m
<1>10. \A n \in Nat : n \in S
  <2> HIDE DEF S
  <2> QED BY <1>8, <1>9, Inductive
<1>11. JoinsOf(All(F), From[F + 1]) = From[1]
  BY <1>1, <1>10
<1>12. From[F + 1] = {<<>>}
  BY <1>1
<1> QED BY <1>2, <1>6, <1>11, <1>12 DEF All, F

\* A complete search returns the full proofs that exist, each once.
LEMMA ProofsCounted ==
  ASSUME Fragments \in Nat, OnceEach(proofs, Full(Plot, asked[2], Fragments))
  PROVE  ProofsExact
<1> DEFINE Turn(f, v) == {p \o q : p \in ProofsOf(asked[2][f]), q \in v}
           From[f \in Nat] == IF f > Fragments THEN {<<>>} ELSE Turn(f, From[f + 1])
<1>1. ProofsExact <=> (phase = "done" =>
                         /\ {proofs[i] : i \in DOMAIN proofs} = From[1]
                         /\ Len(proofs) = Cardinality(From[1]))
  BY DEF ProofsExact
<1>2. ASSUME NEW f, NEW v PROVE Turn(f, v) = JoinsOf(Eights(Plot, asked[2][f]), v)
  <2> DEFINE A == ProofsOf(asked[2][f])
  <2>1. A = Eights(Plot, asked[2][f])
    BY ProofsAre
  <2>2. Turn(f, v) = JoinsOf(A, v)
    <3>1. Turn(f, v) = {p \o q : p \in A, q \in v}
      OBVIOUS
    <3> HIDE DEF A, Turn
    <3> QED BY <3>1, JoinsAre
  <2> HIDE DEF A, Turn
  <2> QED BY <2>1, <2>2
<1> HIDE DEF Turn
<1>3. From = [f \in Nat |-> IF f > Fragments THEN {<<>>} ELSE Turn(f, From[f + 1])]
  <2>1. PICK g : FromIs(g)
    BY FromExists
  <2>2. g = [f \in Nat |-> g[f]]
        /\ \A f \in Nat : g[f] = IF f > Fragments THEN {<<>>} ELSE Turn(f, g[f + 1])
    BY <1>2, <2>1 DEF FromIs
  <2>3. g = [f \in Nat |-> IF f > Fragments THEN {<<>>} ELSE Turn(f, g[f + 1])]
    BY <2>2
  <2> QED BY <2>3
<1> HIDE DEF From
<1>f. FromIs(From)
  <2>1. \A f \in Nat : From[f] = IF f > Fragments THEN {<<>>}
                                   ELSE JoinsOf(Eights(Plot, asked[2][f]), From[f + 1])
    BY <1>2, <1>3
  <2>2. From = [f \in Nat |-> From[f]]
    BY <1>3
  <2> QED BY <2>1, <2>2 DEF FromIs
<1>4. From[1] = Full(Plot, asked[2], Fragments)
  BY <1>f, FromIsFull
<1>5. /\ Cardinality(From[1]) = Len(proofs)
      /\ From[1] = {proofs[n] : n \in 1 .. Len(proofs)}
  BY <1>4, OnceCounts
<1>6. DOMAIN proofs = 1 .. Len(proofs)
  BY DEF OnceEach
<1> QED BY <1>1, <1>5, <1>6

\* Every search whose lists were divided exactly returns all full proofs of the
\* plot for the quality string, and no other, each once.
THEOREM ProofsFoundOnce == Spec /\ []BoundsFindSections => []ProofsExact
<1>1. ASSUME IInv, DInv PROVE ProofsExact
  <2>1. CASE phase = "done"
    <3>1. Fragments \in Nat /\ OnceEach(proofs, Full(Plot, asked[2], Fragments))
      BY <1>1, <2>1, CallIs DEF DInv, EndExact
    <3> QED BY <3>1, ProofsCounted
  <2>2. CASE phase # "done"
    BY <2>2 DEF ProofsExact
  <2> QED BY <2>1, <2>2
<1> QED BY <1>1, SolverKeeps, ProofsComplete, PTL

\* That, too, depends on the lists alone.
THEOREM ProofsFoundIfReached == Spec /\ [](phase = "match1" => SectionsReached) => []ProofsExact
<1>1. BoundsFindExactly /\ (phase = "match1" => SectionsReached) => BoundsFindSections
  BY DEF BoundsFindExactly, BoundsFindSections
<1> QED BY <1>1, SectionsFound, ProofsFoundOnce, PTL
=============================================================================
