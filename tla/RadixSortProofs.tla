--------------------------- MODULE RadixSortProofs ---------------------------
(***************************************************************************)
(* The parallel radix sort, for any number of threads, any radix, any      *)
(* number of passes and any input: no two threads write the same place     *)
(* (PlacesApart), and the result is the input in stable order of its keys  *)
(* (SortedResult).                                                         *)
(*                                                                         *)
(* The argument is about one pass over an array whose items have digits    *)
(* g[0], ..., g[n - 1].  The place of item i is the number of items that   *)
(* come before it: those of a smaller digit, and those of its digit to its *)
(* left.  The offset of a thread for digit d is the place of the next item *)
(* of that digit that the thread will meet; so every item goes to its own  *)
(* place, and places are in the order of the digits and then of the items. *)
(***************************************************************************)
EXTENDS RadixSort, ExtremaLemmas, FiniteSetTheorems, FunctionTheorems

Below(g, n, d, p) == {j \in 0 .. n - 1 : g[j] < d \/ (g[j] = d /\ j < p)}

PlaceOf(g, n, i) == Cardinality(Below(g, n, g[i], i))

\* The items before i in the order of digits and of positions
PlacedBefore(g, i, j) == g[i] < g[j] \/ (g[i] = g[j] /\ i < j)

\* The positions of digit d from lo up to hi, which a thread's row counts
Within(g, lo, hi, d) == {j \in lo .. hi - 1 : g[j] = d}

Item == [key : Nat, from : Nat]

-----------------------------------------------------------------------------
(* Places.                                                                 *)

\* A set of positions is finite and has at most as many elements as there are positions.
LEMMA PositionSets ==
  ASSUME NEW n \in Nat, NEW S \in SUBSET (0 .. n - 1)
  PROVE  IsFiniteSet(S) /\ Cardinality(S) \in Nat /\ Cardinality(S) <= n
<1>1. IsFiniteSet(0 .. n - 1) /\ Cardinality(0 .. n - 1) = n
  <2>1. 0 \in Int /\ n - 1 \in Int
    OBVIOUS
  <2>2. /\ IsFiniteSet(0 .. n - 1)
        /\ Cardinality(0 .. n - 1) = IF 0 > n - 1 THEN 0 ELSE (n - 1) - 0 + 1
    BY <2>1, FS_Interval
  <2> QED BY <2>2
<1>2. IsFiniteSet(S) /\ Cardinality(S) <= n
  BY <1>1, FS_Subset
<1>3. Cardinality(S) \in Nat
  BY <1>2, FS_CardinalityType
<1> QED BY <1>2, <1>3

\* Of two items the one that comes first has the smaller place.
LEMMA PlacesOrdered ==
  ASSUME NEW n \in Nat, NEW g \in [0 .. n - 1 -> Nat],
         NEW i \in 0 .. n - 1, NEW j \in 0 .. n - 1, PlacedBefore(g, i, j)
  PROVE  PlaceOf(g, n, i) < PlaceOf(g, n, j)
<1> DEFINE A == Below(g, n, g[i], i)
           B == Below(g, n, g[j], j)
<1>1. A \in SUBSET (0 .. n - 1) /\ B \in SUBSET (0 .. n - 1)
  BY DEF Below
<1>2. A \subseteq B /\ i \in B /\ i \notin A
  BY DEF Below, PlacedBefore
<1> HIDE DEF A, B
<1>3. IsFiniteSet(B) /\ Cardinality(A) \in Nat /\ Cardinality(B) \in Nat
  BY <1>1, PositionSets, Zenon
<1>4. Cardinality(A) <= Cardinality(B) /\ (Cardinality(A) = Cardinality(B) => B = A)
  <2>1. A \in SUBSET B
    BY <1>2
  <2> QED BY <2>1, <1>3, FS_Subset
<1>5. Cardinality(A) < Cardinality(B)
  BY <1>2, <1>3, <1>4
<1> QED BY <1>5 DEF A, B, PlaceOf

\* Every item has a place of its own, and every place an item.
LEMMA PlacesBijective ==
  ASSUME NEW n \in Nat, NEW g \in [0 .. n - 1 -> Nat]
  PROVE  /\ \A i \in 0 .. n - 1 : PlaceOf(g, n, i) \in 0 .. n - 1
         /\ \A i, j \in 0 .. n - 1 : PlaceOf(g, n, i) = PlaceOf(g, n, j) => i = j
         /\ \A p \in 0 .. n - 1 : \E i \in 0 .. n - 1 : PlaceOf(g, n, i) = p
<1> DEFINE P == 0 .. n - 1
           f == [i \in P |-> PlaceOf(g, n, i)]
<1>1. ASSUME NEW i \in P
      PROVE  PlaceOf(g, n, i) \in P
  <2> DEFINE A == Below(g, n, g[i], i)
  <2>1. A \in SUBSET P /\ i \notin A
    BY DEF Below
  <2> HIDE DEF A
  <2>0. A \cup {i} \in SUBSET P
    BY <2>1
  <2>2. IsFiniteSet(A) /\ Cardinality(A) \in Nat
    BY <2>1, PositionSets, Zenon
  <2>3. Cardinality(A \cup {i}) = Cardinality(A) + 1
    BY <2>1, <2>2, FS_AddElement
  <2>4. Cardinality(A \cup {i}) <= n
    BY <2>0, PositionSets, Zenon
  <2>5. Cardinality(A) \in P
    BY <2>2, <2>3, <2>4
  <2> QED BY <2>5 DEF A, PlaceOf
<1>2. ASSUME NEW i \in P, NEW j \in P, i # j
      PROVE  PlaceOf(g, n, i) # PlaceOf(g, n, j)
  <2>1. PlacedBefore(g, i, j) \/ PlacedBefore(g, j, i)
    BY <1>2 DEF PlacedBefore
  <2>2. PlaceOf(g, n, i) < PlaceOf(g, n, j) \/ PlaceOf(g, n, j) < PlaceOf(g, n, i)
    BY <2>1, PlacesOrdered
  <2>3. PlaceOf(g, n, i) \in Int /\ PlaceOf(g, n, j) \in Int
    BY <1>1
  <2> QED BY <2>2, <2>3
<1>3. f \in Injection(P, P)
  <2> HIDE DEF P
  <2>1. f \in [P -> P] /\ \A i, j \in P : f[i] = f[j] => i = j
    BY <1>1, <1>2
  <2> HIDE DEF f
  <2> QED BY <2>1 DEF Injection, IsInjective
<1>4. f \in Surjection(P, P)
  <2>1. P \in SUBSET (0 .. n - 1)
    OBVIOUS
  <2>2. IsFiniteSet(P)
    BY <2>1, PositionSets
  <2> HIDE DEF P, f
  <2> QED BY <1>3, <2>2, FS_Injection
<1>5. \A p \in P : \E i \in P : f[i] = p
  <2> HIDE DEF P, f
  <2> QED BY <1>4 DEF Surjection
<1> HIDE DEF P
<1>6. \A i, j \in P : PlaceOf(g, n, i) = PlaceOf(g, n, j) => i = j
  BY <1>2
<1> QED BY <1>1, <1>5, <1>6 DEF P

\* A position of another digit, or behind p, changes nothing in what is below p.
LEMMA BelowNext ==
  ASSUME NEW n \in Nat, NEW g \in [0 .. n - 1 -> Nat], NEW d \in Nat, NEW p \in 0 .. n - 1
  PROVE  Cardinality(Below(g, n, d, p + 1)) =
           Cardinality(Below(g, n, d, p)) + IF g[p] = d THEN 1 ELSE 0
<1> DEFINE A == Below(g, n, d, p)
           B == Below(g, n, d, p + 1)
<1>1. A \in SUBSET (0 .. n - 1)
  BY DEF Below
<1>2. IsFiniteSet(A) /\ Cardinality(A) \in Nat
  <2> HIDE DEF A
  <2> QED BY <1>1, PositionSets, Zenon
<1>3. CASE g[p] = d
  <2>1. B = A \cup {p} /\ p \notin A
    BY <1>3 DEF Below
  <2> HIDE DEF A, B
  <2>2. Cardinality(B) = Cardinality(A) + 1
    BY <1>2, <2>1, FS_AddElement
  <2> QED BY <1>3, <2>2 DEF A, B
<1>4. CASE g[p] # d
  <2>1. B = A
    BY <1>4 DEF Below
  <2> HIDE DEF A, B
  <2>2. Cardinality(B) = Cardinality(A) + 0
    BY <1>2, <2>1
  <2> QED BY <1>4, <2>2 DEF A, B
<1> QED BY <1>3, <1>4

\* The offset for a digit is the place of its next item.
LEMMA NextItem ==
  ASSUME NEW n \in Nat, NEW g \in [0 .. n - 1 -> Nat], NEW d \in Nat,
         NEW p \in 0 .. n, NEW e \in 0 .. n, NEW k \in p .. e - 1, g[k] = d
  PROVE  \E i \in p .. e - 1 : /\ g[i] = d
                               /\ Cardinality(Below(g, n, d, p)) = PlaceOf(g, n, i)
<1> DEFINE S == {i \in p .. e - 1 : g[i] = d}
           i == Min(S)
<1>1. i \in S /\ \A y \in S : i <= y
  <2>1. S \subseteq Nat /\ S # {}
    OBVIOUS
  <2> HIDE DEF S
  <2> QED BY <2>1, MinNat
<1> HIDE DEF i
<1>2. i \in p .. e - 1 /\ g[i] = d
  BY <1>1
<1>3. \A j \in p .. i - 1 : g[j] # d
  BY <1>1
<1>4. Below(g, n, d, p) = Below(g, n, d, i)
  BY <1>2, <1>3 DEF Below
<1> QED BY <1>2, <1>4 DEF PlaceOf

-----------------------------------------------------------------------------
(* Chunks.                                                                 *)

\* The chunk of a thread is an interval of positions.
LEMMA ChunkBounds ==
  ASSUME N \in Nat, NEW t \in Workers
  PROVE  First(t) \in 0 .. N /\ End(t) \in First(t) .. N
<1> DEFINE q == N \div Threads
<1>1. Threads \in Nat \ {0} /\ t \in Nat /\ t + 1 <= Threads
  BY RadixAssumption DEF Workers
<1>2. q \in Nat /\ q * Threads <= N
  <2>1. ASSUME NEW a \in Nat, NEW b \in Nat \ {0}
        PROVE  a \div b \in Nat /\ (a \div b) * b <= a
    BY SMT
  <2> QED BY <1>1, <2>1
<1>3. First(t) = q * t /\ End(t) = IF t = Threads - 1 THEN N ELSE q * (t + 1)
  BY DEF First, End
<1> HIDE DEF q
<1>4. q * t \in Nat /\ q * t <= q * (t + 1) /\ q * (t + 1) <= q * Threads
  BY <1>1, <1>2
<1>5. q * (t + 1) \in Nat /\ q * Threads \in Nat
  BY <1>1, <1>2
<1> QED BY <1>2, <1>3, <1>4, <1>5

\* The chunk of an earlier thread ends before that of a later one starts.
LEMMA ChunksInOrder ==
  ASSUME N \in Nat, NEW t \in Workers, NEW u \in Workers, t < u
  PROVE  End(t) <= First(u)
<1> DEFINE q == N \div Threads
<1>1. Threads \in Nat \ {0} /\ t \in Nat /\ u \in Nat /\ t + 1 <= u /\ t # Threads - 1
  BY RadixAssumption DEF Workers
<1>2. q \in Nat
  <2>1. ASSUME NEW a \in Nat, NEW b \in Nat \ {0}
        PROVE  a \div b \in Nat
    BY SMT
  <2> QED BY <1>1, <2>1
<1>3. First(u) = q * u /\ End(t) = q * (t + 1)
  BY <1>1 DEF First, End
<1> HIDE DEF q
<1> QED BY <1>1, <1>2, <1>3

\* A position belongs to one chunk only.
LEMMA ChunksDisjoint ==
  ASSUME N \in Nat, NEW t \in Workers, NEW u \in Workers,
         NEW i \in First(t) .. End(t) - 1, i \in First(u) .. End(u) - 1
  PROVE  t = u
<1>1. t \in Nat /\ u \in Nat
  BY DEF Workers
<1>2. First(t) \in Nat /\ First(u) \in Nat /\ End(t) \in Nat /\ End(u) \in Nat
  BY ChunkBounds
<1>3. t < u => End(t) <= First(u)
  BY ChunksInOrder
<1>4. u < t => End(u) <= First(t)
  BY ChunksInOrder
<1> QED BY <1>1, <1>2, <1>3, <1>4

\* Every position belongs to a chunk, that of the last thread which starts before it.
LEMMA ChunksCover ==
  ASSUME N \in Nat, NEW i \in 0 .. N - 1
  PROVE  \E t \in Workers : i \in First(t) .. End(t) - 1
<1> DEFINE S == {t \in Workers : First(t) <= i}
           m == Max(S)
<1>1. Threads \in Nat \ {0} /\ Threads - 1 \in Nat
  BY RadixAssumption
<1>2. 0 \in S
  <2>1. 0 \in Workers
    BY <1>1 DEF Workers
  <2>2. N \div Threads \in Int
    BY <1>1
  <2>3. First(0) = 0
    BY <2>2 DEF First
  <2> QED BY <2>1, <2>3
<1>3. S \subseteq Nat /\ \A t \in S : t <= Threads - 1
  BY <1>1 DEF Workers
<1>4. m \in S /\ \A t \in S : t <= m
  <2> HIDE DEF S
  <2> QED BY <1>1, <1>2, <1>3, MaxNat
<1> HIDE DEF m
<1>5. m \in Workers /\ First(m) \in Nat /\ First(m) <= i
  BY <1>4, ChunkBounds
<1>6. i < End(m)
  <2>1. CASE m = Threads - 1
    BY <2>1 DEF End
  <2>2. CASE m # Threads - 1
    <3>1. m + 1 \in Workers /\ m + 1 \notin S
      BY <1>1, <1>4, <1>5, <2>2 DEF Workers
    <3>2. ~ (First(m + 1) <= i) /\ First(m + 1) \in Nat
      BY <3>1, ChunkBounds
    <3>3. End(m) = First(m + 1)
      BY <2>2 DEF End, First
    <3> QED BY <3>2, <3>3
  <2> QED BY <2>1, <2>2
<1>7. End(m) \in Nat
  BY <1>5, ChunkBounds
<1> QED BY <1>5, <1>6, <1>7

-----------------------------------------------------------------------------
(* Merging the counts.                                                     *)

Pairs(C, n, k)   == {x \in C \X (0 .. n - 1) : x[2] < k[x[1]]}
Members(S, C, I) == {s \in S : \E c \in C : s \in I[c]}

\* The pairs <<c, m>> with m below the size of set c are as many as the elements of all
\* these sets, which are apart.
LEMMA SumOfSizes ==
  ASSUME NEW S, IsFiniteSet(S), NEW C, NEW n \in Nat, NEW I \in [C -> SUBSET S],
         NEW k \in [C -> 0 .. n],
         \A c \in C : IsFiniteSet(I[c]) /\ Cardinality(I[c]) = k[c],
         \A c, e \in C : \A s \in S : s \in I[c] /\ s \in I[e] => c = e
  PROVE  Cardinality(Pairs(C, n, k)) = Cardinality(Members(S, C, I))
<1> DEFINE X == {x \in C \X (0 .. n - 1) : x[2] < k[x[1]]}
           U == {s \in S : \E c \in C : s \in I[c]}
           h == [c \in C |-> CHOOSE f : f \in Bijection(1 .. k[c], I[c])]
           b == [x \in X |-> h[x[1]][x[2] + 1]]
<1>1. ASSUME NEW c \in C
      PROVE  h[c] \in Bijection(1 .. k[c], I[c])
  <2>1. ExistsBijection(1 .. Cardinality(I[c]), I[c])
    BY FS_CardinalityType
  <2>2. \E f : f \in Bijection(1 .. k[c], I[c])
    BY <2>1 DEF ExistsBijection
  <2>3. h[c] = CHOOSE f : f \in Bijection(1 .. k[c], I[c])
    OBVIOUS
  <2> QED BY <2>2, <2>3
<1> HIDE DEF h
<1>2. ASSUME NEW c \in C
      PROVE  /\ \A m \in 1 .. k[c] : h[c][m] \in I[c]
             /\ \A m, l \in 1 .. k[c] : h[c][m] = h[c][l] => m = l
             /\ \A s \in I[c] : \E m \in 1 .. k[c] : h[c][m] = s
  <2> DEFINE D == 1 .. k[c]
  <2>1. h[c] \in Bijection(D, I[c])
    BY <1>1
  <2> HIDE DEF D
  <2>2. /\ h[c] \in [D -> I[c]]
        /\ \A m, l \in D : h[c][m] = h[c][l] => m = l
        /\ \A s \in I[c] : \E m \in D : h[c][m] = s
    BY <2>1 DEF Bijection, Injection, Surjection, IsInjective
  <2>3. \A m \in D : h[c][m] \in I[c]
    BY <2>2
  <2> QED BY <2>2, <2>3 DEF D
<1>3. ASSUME NEW x \in X
      PROVE  /\ x[1] \in C /\ x[2] \in Nat /\ x[2] + 1 \in 1 .. k[x[1]]
             /\ x = <<x[1], x[2]>>
             /\ b[x] = h[x[1]][x[2] + 1]
             /\ b[x] \in I[x[1]] /\ b[x] \in U
  <2>1. x[1] \in C /\ x[2] \in Nat /\ x[2] < k[x[1]] /\ x = <<x[1], x[2]>>
    OBVIOUS
  <2>2. k[x[1]] \in Nat
    BY <2>1
  <2>3. x[2] + 1 \in 1 .. k[x[1]]
    BY <2>1, <2>2
  <2>4. b[x] = h[x[1]][x[2] + 1]
    OBVIOUS
  <2> HIDE DEF X, b
  <2>5. b[x] \in I[x[1]]
    BY <1>2, <2>1, <2>3, <2>4
  <2>6. b[x] \in U
    BY <2>1, <2>5
  <2> QED BY <2>1, <2>3, <2>4, <2>5, <2>6
<1>4. ASSUME NEW s \in U
      PROVE  \E x \in X : b[x] = s
  <2>1. PICK c \in C : s \in I[c]
    OBVIOUS
  <2>2. PICK m \in 1 .. k[c] : h[c][m] = s
    BY <1>2, <2>1
  <2> DEFINE x == <<c, m - 1>>
  <2>3. k[c] \in 0 .. n
    OBVIOUS
  <2>4. m - 1 \in 0 .. n - 1 /\ m - 1 < k[c] /\ (m - 1) + 1 = m
    BY <2>3
  <2>5. x \in X /\ x[1] = c /\ x[2] = m - 1
    BY <2>4
  <2> HIDE DEF X, x
  <2>6. b[x] = h[c][m]
    BY <2>4, <2>5
  <2> QED BY <2>2, <2>5, <2>6
<1> DEFINE same(x, y) == b[x] = b[y] => x = y
<1>5. ASSUME NEW x \in X, NEW y \in X
      PROVE  same(x, y)
  <2>1. SUFFICES ASSUME b[x] = b[y] PROVE x = y
    OBVIOUS
  <2> HIDE DEF X, b
  <2>2. x[1] = y[1]
    BY <1>3, <2>1
  <2>3. x[2] + 1 = y[2] + 1
    BY <1>2, <1>3, <2>1, <2>2
  <2>4. x[2] = y[2]
    BY <1>3, <2>3
  <2> QED BY <1>3, <2>2, <2>4
<1>6. b \in [X -> U]
  <2>1. \A x \in X : b[x] \in U
    BY <1>3
  <2> HIDE DEF X, U
  <2> QED BY <2>1
<1>7. b \in Bijection(X, U)
  <2>1. \A x, y \in X : b[x] = b[y] => x = y
    BY <1>5
  <2>2. \A s \in U : \E x \in X : b[x] = s
    BY <1>4
  <2> HIDE DEF X, U, b, same
  <2> QED BY <1>6, <2>1, <2>2 DEF Bijection, Injection, Surjection, IsInjective
<1>8. IsFiniteSet(U)
  <2>1. U \in SUBSET S
    OBVIOUS
  <2> HIDE DEF U
  <2> QED BY <2>1, FS_Subset
<1>9. Cardinality(X) = Cardinality(U)
  <2> HIDE DEF X, U, b
  <2>1. ExistsBijection(U, X)
    <3>1. ExistsBijection(X, U)
      BY <1>7 DEF ExistsBijection
    <3> QED BY <3>1, Fun_ExistsBijSymmetric
  <2> QED BY <1>8, <2>1, FS_Bijection
<1> QED BY <1>9, Zenon DEF X, U, Pairs, Members

\* Once every thread has counted its chunk, the offset of a thread for a digit is the
\* number of items below the first one of that digit in its chunk.
LEMMA MergedCounts ==
  ASSUME N \in Nat, NEW g \in [Positions -> Digits],
         counts \in [Workers -> [Digits -> 0 .. N]],
         \A t \in Workers : \A d \in Digits :
           counts[t][d] = Cardinality(Within(g, First(t), End(t), d)),
         NEW t \in Workers, NEW d \in Digits
  PROVE  PrefixOffset(t, d) = Cardinality(Below(g, N, d, First(t)))
<1> DEFINE cs == {x \in Workers \X Digits : x[2] < d \/ (x[2] = d /\ x[1] < t)}
           I == [c \in cs |-> Within(g, First(c[1]), End(c[1]), c[2])]
           k == [c \in cs |-> counts[c[1]][c[2]]]
           X == {x \in cs \X (0 .. N - 1) : x[2] < k[x[1]]}
           U == {s \in Positions : \E c \in cs : s \in I[c]}
<1>1. PrefixOffset(t, d) = Cardinality(X)
  <2>1. {x \in cs \X Positions : x[2] < counts[x[1][1]][x[1][2]]} = X
    <3>1. \A x \in cs \X Positions : k[x[1]] = counts[x[1][1]][x[1][2]]
      OBVIOUS
    <3> HIDE DEF cs, k
    <3> QED BY <3>1 DEF Positions
  <2> QED BY <2>1, Zenon DEF PrefixOffset, SumOfCounts
<1>2. ASSUME NEW c \in cs
      PROVE  /\ c[1] \in Workers /\ c[2] \in Digits
             /\ I[c] = Within(g, First(c[1]), End(c[1]), c[2])
             /\ k[c] = counts[c[1]][c[2]]
             /\ c = <<c[1], c[2]>>
  OBVIOUS
<1>3. ASSUME NEW c \in cs
      PROVE  /\ I[c] \in SUBSET Positions
             /\ k[c] \in 0 .. N
             /\ Cardinality(I[c]) = k[c]
  <2>1. First(c[1]) \in Nat /\ End(c[1]) \in Nat /\ End(c[1]) <= N
    BY <1>2, ChunkBounds
  <2>2. I[c] \in SUBSET Positions
    BY <1>2, <2>1 DEF Within, Positions
  <2> HIDE DEF cs, I, k
  <2>3. k[c] \in 0 .. N /\ Cardinality(I[c]) = k[c]
    BY <1>2
  <2> QED BY <2>2, <2>3
<1>4. ASSUME NEW c \in cs
      PROVE  IsFiniteSet(I[c])
  <2>1. I[c] \in SUBSET (0 .. N - 1)
    BY <1>3 DEF Positions
  <2> QED BY <2>1, PositionSets, Zenon
<1>5. ASSUME NEW c \in cs, NEW e \in cs, NEW s \in Positions, s \in I[c], s \in I[e]
      PROVE  c = e
  <2> HIDE DEF cs, I, k
  <2>1. /\ s \in First(c[1]) .. End(c[1]) - 1 /\ g[s] = c[2]
        /\ s \in First(e[1]) .. End(e[1]) - 1 /\ g[s] = e[2]
    BY <1>2, <1>5 DEF Within
  <2>2. c[1] = e[1]
    BY <1>2, <2>1, ChunksDisjoint
  <2> QED BY <1>2, <2>1, <2>2
<1>6. Cardinality(X) = Cardinality(U)
  <2>1. IsFiniteSet(Positions)
    <3>1. 0 .. N - 1 \in SUBSET (0 .. N - 1)
      OBVIOUS
    <3> QED BY <3>1, PositionSets, Zenon DEF Positions
  <2>2. I \in [cs -> SUBSET Positions] /\ k \in [cs -> 0 .. N]
    <3>1. \A c \in cs : I[c] \in SUBSET Positions
      BY <1>3
    <3>2. \A c \in cs : k[c] \in 0 .. N
      BY <1>3
    <3> HIDE DEF cs
    <3> QED BY <3>1, <3>2
  <2>3. \A c \in cs : IsFiniteSet(I[c]) /\ Cardinality(I[c]) = k[c]
    BY <1>3, <1>4
  <2>4. \A c, e \in cs : \A s \in Positions : s \in I[c] /\ s \in I[e] => c = e
    BY <1>5
  <2> HIDE DEF cs, I, k
  <2>5. Cardinality(Pairs(cs, N, k)) = Cardinality(Members(Positions, cs, I))
    BY <2>1, <2>2, <2>3, <2>4, SumOfSizes
  <2> QED BY <2>5, Zenon DEF Pairs, Members
<1>7. U = Below(g, N, d, First(t))
  <2>1. ASSUME NEW s \in U
        PROVE  s \in Below(g, N, d, First(t))
    <3>1. PICK c \in cs : s \in I[c]
      OBVIOUS
    <3>2. s \in Positions /\ s \in First(c[1]) .. End(c[1]) - 1 /\ g[s] = c[2]
      BY <1>2, <3>1 DEF Within
    <3>3. c[2] < d \/ (c[2] = d /\ c[1] < t)
      BY <3>1
    <3>4. c[1] < t => End(c[1]) <= First(t)
      BY <1>2, <3>1, ChunksInOrder
    <3>5. First(c[1]) \in Nat /\ End(c[1]) \in Nat /\ First(t) \in Nat
      BY <1>2, <3>1, ChunkBounds
    <3>6. c[1] < t => s < First(t)
      BY <3>2, <3>4, <3>5
    <3> QED BY <3>2, <3>3, <3>6 DEF Below, Positions
  <2>2. ASSUME NEW s \in Below(g, N, d, First(t))
        PROVE  s \in U
    <3>1. s \in 0 .. N - 1 /\ (g[s] < d \/ (g[s] = d /\ s < First(t)))
      BY DEF Below
    <3>2. PICK u \in Workers : s \in First(u) .. End(u) - 1
      BY <3>1, ChunksCover
    <3>3. s \in Positions /\ g[s] \in Digits
      BY <3>1 DEF Positions
    <3>4. t \in Nat /\ u \in Nat
      BY DEF Workers
    <3>5. First(u) \in Nat /\ First(t) \in Nat /\ End(t) \in Nat /\ First(t) <= End(t)
      BY ChunkBounds
    <3>6. s < First(t) => u < t
      <4>1. t < u => End(t) <= First(u)
        BY ChunksInOrder
      <4>2. t = u => First(t) = First(u)
        OBVIOUS
      <4> HIDE DEF cs, I, k, X, U
      <4> QED BY <3>2, <3>4, <3>5, <4>1, <4>2
    <3> DEFINE c == <<u, g[s]>>
    <3>7. c \in cs
      BY <3>1, <3>3, <3>6
    <3>8. s \in I[c]
      <4>1. I[c] = Within(g, First(u), End(u), g[s])
        BY <3>7
      <4> QED BY <3>2, <4>1 DEF Within
    <3> QED BY <3>3, <3>7, <3>8
  <2> HIDE DEF U
  <2> QED BY <2>1, <2>2
<1> HIDE DEF X, U
<1> QED BY <1>1, <1>6, <1>7

-----------------------------------------------------------------------------
(* What a pass does to the order.                                          *)

\* The remainder of a wider modulus is made up of the next digit and the narrower remainder.
LEMMA NextDigit ==
  ASSUME NEW m \in Nat \ {0}, NEW r \in Nat \ {0}, NEW x \in Nat
  PROVE  /\ (x \div m) % r \in 0 .. r - 1
         /\ x % m \in 0 .. m - 1
         /\ x % (m * r) = (((x \div m) % r) * m) + (x % m)
<1> DEFINE q == x \div m
           l == x % m
           h == q \div r
           e == q % r
<1>1. x = (m * q) + l /\ l \in 0 .. m - 1 /\ q \in Nat
  BY SMT
<1> HIDE DEF q, l
<1>2. q = (r * h) + e /\ e \in 0 .. r - 1 /\ h \in Nat
  BY <1>1, SMT
<1> HIDE DEF h, e
<1> DEFINE w == m * r
           b == (e * m) + l
<1>3. w \in Nat \ {0}
  BY SMT
<1>4. x = (h * w) + b
  <2>1. m * ((r * h) + e) = (h * (m * r)) + (e * m)
    BY <1>2, SMT
  <2>2. x = (m * ((r * h) + e)) + l
    BY <1>1, <1>2
  <2>3. m * ((r * h) + e) \in Int /\ h * (m * r) \in Int /\ e * m \in Int /\ l \in Int
    BY <1>1, <1>2, SMT
  <2> HIDE DEF w
  <2> QED BY <2>1, <2>2, <2>3 DEF w
<1>5. b \in 0 .. w - 1
  <2>1. e * m <= (r - 1) * m /\ e * m \in Nat
    BY <1>2, SMT
  <2>2. (r - 1) * m = (m * r) - m
    BY SMT
  <2> QED BY <1>1, <2>1, <2>2, SMT
<1>6. ASSUME NEW n \in Nat \ {0}, NEW a \in Nat, NEW c \in 0 .. n - 1
      PROVE  ((a * n) + c) % n = c
  BY SMT
<1> HIDE DEF w, b
<1>7. x % w = b
  BY <1>2, <1>3, <1>4, <1>5, <1>6
<1>8. x % (m * r) = (e * m) + l
  BY <1>7 DEF w, b
<1> QED BY <1>1, <1>2, <1>8 DEF q, l, e

\* The weights are powers of the radix.
LEMMA Weights ==
  /\ Weight[0] = 1
  /\ \A p \in 0 .. Passes - 1 : Weight[p + 1] = Radix * Weight[p]
  /\ \A p \in 0 .. Passes : Weight[p] \in Nat \ {0}
<1>1. Passes \in Nat /\ Radix \in Nat \ {0}
  BY RadixAssumption
<1> DEFINE Powers(f, n) == f = [p \in 0 .. n |-> IF p = 0 THEN 1 ELSE Radix * f[p - 1]]
           S == {n \in Nat : ~ \E f : Powers(f, n)}
<1>2. S = {}
  <2>1. SUFFICES ASSUME S # {} PROVE FALSE
    OBVIOUS
  <2> DEFINE n == Min(S)
  <2>2. n \in S /\ \A y \in S : n <= y
    <3>1. S \subseteq Nat
      OBVIOUS
    <3> HIDE DEF S
    <3> QED BY <2>1, <3>1, MinNat
  <2> HIDE DEF n
  <2>3. n \in Nat /\ ~ \E f : Powers(f, n)
    BY <2>2
  <2>4. CASE n = 0
    <3> DEFINE f == [p \in 0 .. 0 |-> 1]
    <3>1. Powers(f, 0)
      OBVIOUS
    <3> QED BY <2>3, <2>4, <3>1
  <2>5. CASE n # 0
    <3>1. n - 1 \in Nat /\ n - 1 \notin S
      <4> HIDE DEF S, Powers
      <4> QED BY <2>2, <2>3, <2>5
    <3>2. PICK f : Powers(f, n - 1)
      BY <3>1
    <3> DEFINE h == [p \in 0 .. n |-> IF p = 0 THEN 1 ELSE Radix * f[p - 1]]
    <3>3. ASSUME NEW p \in 0 .. n, p # 0
          PROVE  h[p - 1] = f[p - 1]
      <4>1. p - 1 \in 0 .. n - 1 /\ p - 1 \in 0 .. n
        BY <2>3, <3>3
      <4>2. h[p - 1] = IF p - 1 = 0 THEN 1 ELSE Radix * f[(p - 1) - 1]
        BY <4>1
      <4>3. f[p - 1] = IF p - 1 = 0 THEN 1 ELSE Radix * f[(p - 1) - 1]
        BY <3>2, <4>1
      <4> QED BY <4>2, <4>3
    <3> DEFINE k == [p \in 0 .. n |-> IF p = 0 THEN 1 ELSE Radix * h[p - 1]]
    <3>4. \A p \in 0 .. n : h[p] = k[p]
      BY <3>3
    <3>5. h = k
      BY <3>4
    <3>6. Powers(h, n)
      BY <3>5
    <3> QED BY <2>3, <3>6
  <2> QED BY <2>4, <2>5
<1>3. \E f : Powers(f, Passes)
  BY <1>1, <1>2
<1>4. Weight = CHOOSE f : Powers(f, Passes)
  BY DEF Weight
<1>5. Powers(Weight, Passes)
  <2> HIDE DEF Powers
  <2> QED BY <1>3, <1>4
<1>6. Weight[0] = 1
  BY <1>1, <1>5
<1>7. ASSUME NEW p \in 0 .. Passes - 1
      PROVE  Weight[p + 1] = Radix * Weight[p]
  <2>1. p + 1 \in 0 .. Passes /\ p + 1 # 0 /\ (p + 1) - 1 = p
    BY <1>1
  <2>2. Weight[p + 1] = Radix * Weight[(p + 1) - 1]
    BY <1>5, <2>1
  <2> QED BY <2>1, <2>2
<1> DEFINE T == {p \in 0 .. Passes : Weight[p] \notin Nat \ {0}}
<1>8. T = {}
  <2>1. SUFFICES ASSUME T # {} PROVE FALSE
    OBVIOUS
  <2> DEFINE n == Min(T)
  <2>2. n \in T /\ \A y \in T : n <= y
    <3>1. T \subseteq Nat
      BY <1>1
    <3> HIDE DEF T
    <3> QED BY <2>1, <3>1, MinNat
  <2> HIDE DEF n
  <2>3. n \in 0 .. Passes /\ Weight[n] \notin Nat \ {0} /\ n # 0
    BY <1>6, <2>2
  <2>4. n - 1 \in 0 .. Passes - 1 /\ n - 1 \notin T /\ (n - 1) + 1 = n
    BY <1>1, <2>2, <2>3
  <2>5. Weight[n - 1] \in Nat \ {0}
    BY <1>1, <2>4
  <2>6. Weight[n] = Radix * Weight[n - 1]
    BY <1>7, <2>4
  <2> QED BY <1>1, <2>3, <2>5, <2>6
<1> QED BY <1>6, <1>7, <1>8

\* Items that are sorted by the lower digits are sorted by one digit more once each is at
\* its place, and none is lost.
LEMMA PassSorts ==
  ASSUME N \in Nat, NEW m \in Nat \ {0}, NEW r \in Nat \ {0}, NEW g \in [Positions -> Nat],
         NEW a \in [Positions -> Item], NEW b,
         \A i \in Positions : g[i] = (a[i].key \div m) % r,
         \A i \in Positions : b[PlaceOf(g, N, i)] = a[i],
         SortedBy(a, m), Complete(a)
  PROVE  SortedBy(b, m * r) /\ Complete(b) /\ \A p \in Positions : b[p] \in Item
<1>1. /\ \A i \in Positions : PlaceOf(g, N, i) \in Positions
      /\ \A p \in Positions : \E i \in Positions : PlaceOf(g, N, i) = p
  BY PlacesBijective DEF Positions
<1>2. ASSUME NEW i \in Positions
      PROVE  /\ a[i].key \in Nat /\ a[i].from \in Nat /\ a[i] \in Item
             /\ a[i].key % m \in 0 .. m - 1
             /\ a[i].key % (m * r) = (g[i] * m) + (a[i].key % m)
  <2>1. a[i] \in Item
    OBVIOUS
  <2>2. a[i].key \in Nat /\ a[i].from \in Nat
    BY <2>1 DEF Item
  <2>3. g[i] = (a[i].key \div m) % r
    OBVIOUS
  <2> DEFINE x == a[i].key
  <2>4. x \in Nat
    BY <2>2
  <2> HIDE DEF x
  <2>5. x % m \in 0 .. m - 1 /\ x % (m * r) = (((x \div m) % r) * m) + (x % m)
    BY <2>4, NextDigit
  <2> QED BY <2>1, <2>2, <2>3, <2>5, Zenon DEF x
<1>3. ASSUME NEW i \in Positions, NEW j \in Positions, PlacedBefore(g, i, j)
      PROVE  Before(a[i], a[j], m * r)
  <2> DEFINE x == a[i].key
             y == a[j].key
             lx == x % m
             ly == y % m
  <2>1. /\ lx \in 0 .. m - 1 /\ ly \in 0 .. m - 1
        /\ x % (m * r) = (g[i] * m) + lx
        /\ y % (m * r) = (g[j] * m) + ly
        /\ g[i] \in Nat /\ g[j] \in Nat
        /\ a[i].from \in Nat /\ a[j].from \in Nat
    BY <1>2
  <2>2. CASE g[i] < g[j]
    <3> HIDE DEF lx, ly, x, y
    <3>1. (g[i] + 1) * m <= g[j] * m
      BY <2>1, <2>2
    <3>2. (g[i] + 1) * m = (g[i] * m) + m
      BY <2>1
    <3>3. g[i] * m \in Nat /\ g[j] * m \in Nat
      BY <2>1
    <3> DEFINE gi == g[i] * m
               gj == g[j] * m
    <3>4. gi \in Nat /\ gj \in Nat /\ gi + m <= gj
      BY <3>1, <3>2, <3>3
    <3>5. x % (m * r) = gi + lx /\ y % (m * r) = gj + ly
      BY <2>1
    <3> HIDE DEF gi, gj
    <3>6. x % (m * r) < y % (m * r)
      BY <2>1, <3>4, <3>5
    <3> QED BY <3>6 DEF Before, x, y
  <2>3. CASE g[i] = g[j] /\ i < j
    <3>1. Before(a[i], a[j], m)
      BY <2>3 DEF SortedBy
    <3>2. lx < ly \/ (lx = ly /\ a[i].from < a[j].from)
      BY <3>1 DEF Before
    <3> DEFINE gi == g[i] * m
    <3>3. gi \in Nat /\ x % (m * r) = gi + lx /\ y % (m * r) = gi + ly
      BY <2>1, <2>3
    <3> HIDE DEF lx, ly, x, y, gi
    <3>4. \/ x % (m * r) < y % (m * r)
          \/ x % (m * r) = y % (m * r) /\ a[i].from < a[j].from
      BY <2>1, <3>2, <3>3
    <3> QED BY <3>4 DEF Before, x, y
  <2> QED BY <1>3, <2>2, <2>3 DEF PlacedBefore
<1>4. SortedBy(b, m * r)
  <2>1. SUFFICES ASSUME NEW p \in Positions, NEW q \in Positions, p < q
                 PROVE  Before(b[p], b[q], m * r)
    BY DEF SortedBy
  <2>2. PICK i \in Positions : PlaceOf(g, N, i) = p
    BY <1>1
  <2>3. PICK j \in Positions : PlaceOf(g, N, j) = q
    BY <1>1
  <2>4. p \in Nat /\ q \in Nat /\ i \in Nat /\ j \in Nat /\ g[i] \in Nat /\ g[j] \in Nat
    BY DEF Positions
  <2>5. i # j
    BY <2>1, <2>2, <2>3, <2>4
  <2>6. PlacedBefore(g, i, j) \/ PlacedBefore(g, j, i)
    BY <2>4, <2>5 DEF PlacedBefore
  <2>7. ~ PlacedBefore(g, j, i)
    <3>1. PlacedBefore(g, j, i) => PlaceOf(g, N, j) < PlaceOf(g, N, i)
      BY PlacesOrdered DEF Positions
    <3> QED BY <2>1, <2>2, <2>3, <2>4, <3>1
  <2>8. Before(a[i], a[j], m * r)
    BY <1>3, <2>6, <2>7
  <2>9. b[p] = a[i] /\ b[q] = a[j]
    BY <2>2, <2>3
  <2> QED BY <2>8, <2>9
<1>5. {b[p] : p \in Positions} = {a[i] : i \in Positions}
  <2>1. ASSUME NEW p \in Positions
        PROVE  \E i \in Positions : b[p] = a[i]
    BY <1>1
  <2>2. ASSUME NEW i \in Positions
        PROVE  \E p \in Positions : b[p] = a[i]
    BY <1>1
  <2>3. \A z : (\E p \in Positions : z = b[p]) <=> (\E i \in Positions : z = a[i])
    BY <2>1, <2>2
  <2> QED BY <2>3, Zenon
<1>6. Complete(b)
  BY <1>5 DEF Complete
<1>7. ASSUME NEW p \in Positions
      PROVE  b[p] \in Item
  <2>1. PICK i \in Positions : PlaceOf(g, N, i) = p
    BY <1>1
  <2>2. b[p] = a[i]
    BY <2>1
  <2> QED BY <1>2, <2>2
<1> QED BY <1>4, <1>6, <1>7

-----------------------------------------------------------------------------
(* The inductive invariant.  SortedResult says nothing of a pass that is   *)
(* under way: the counts and the offsets have to mean something, and the   *)
(* items moved so far have to be at their places.                          *)

\* The digits of this pass
DigitsOf == [i \in Positions |-> Digit(arr[src][i].key)]

DataOK ==
  /\ arr \in [{"data", "buffer"} -> [Positions -> Item \cup {Blank}]]
  /\ arr[src] \in [Positions -> Item]

\* A thread's row counts the digits of the part of its chunk that it has read.
Counted ==
  phase = "count" => \A t \in Workers : pos[t] # NotStarted =>
    /\ pos[t] \in First(t) .. End(t)
    /\ \A d \in Digits : counts[t][d] = Cardinality(Within(DigitsOf, First(t), pos[t], d))

\* An offset is the number of items below the next one of its digit, and what a thread
\* has moved is at its place.
Moved ==
  phase = "move" => \A t \in Workers :
    /\ pos[t] \in First(t) .. End(t)
    /\ \A d \in Digits : offsets[t][d] = Cardinality(Below(DigitsOf, N, d, pos[t]))
    /\ \A i \in First(t) .. pos[t] - 1 :
         arr[Other(src)][PlaceOf(DigitsOf, N, i)] = arr[src][i]

IInv == TypeOK /\ DataOK /\ Counted /\ Moved /\ SortedResult

\* The number of positions of digit d grows with the part that has been read.
LEMMA WithinNext ==
  ASSUME NEW n \in Nat, NEW g \in [0 .. n - 1 -> Nat], NEW d \in Nat,
         NEW lo \in Nat, NEW p \in 0 .. n - 1, lo <= p
  PROVE  /\ Cardinality(Within(g, lo, p + 1, d)) =
              Cardinality(Within(g, lo, p, d)) + IF g[p] = d THEN 1 ELSE 0
         /\ Cardinality(Within(g, lo, p + 1, d)) \in 0 .. n
<1> DEFINE A == Within(g, lo, p, d)
           B == Within(g, lo, p + 1, d)
<1>1. A \in SUBSET (0 .. n - 1) /\ B \in SUBSET (0 .. n - 1)
  BY DEF Within
<1>2. IsFiniteSet(A) /\ Cardinality(A) \in Nat /\ Cardinality(B) \in Nat /\ Cardinality(B) <= n
  <2> HIDE DEF A, B
  <2> QED BY <1>1, PositionSets, Zenon
<1>3. CASE g[p] = d
  <2>1. B = A \cup {p} /\ p \notin A
    BY <1>3 DEF Within
  <2> HIDE DEF A, B
  <2>2. Cardinality(B) = Cardinality(A) + 1
    BY <1>2, <2>1, FS_AddElement
  <2>3. Cardinality(B) \in 0 .. n
    BY <1>2
  <2> QED BY <1>3, <2>2, <2>3 DEF A, B
<1>4. CASE g[p] # d
  <2>1. B = A
    BY <1>4 DEF Within
  <2> HIDE DEF A, B
  <2>2. Cardinality(B) = Cardinality(A) + 0 /\ Cardinality(B) \in 0 .. n
    BY <1>2, <2>1
  <2> QED BY <1>4, <2>2 DEF A, B
<1> QED BY <1>3, <1>4

\* What the invariant says of the digits of a pass.
LEMMA PassFacts ==
  ASSUME TypeOK, DataOK
  PROVE  /\ N \in Nat /\ Positions = 0 .. N - 1
         /\ PassRadix \in Nat \ {0} /\ PassRadix <= Radix
         /\ Weight[pass] \in Nat \ {0}
         /\ DigitsOf \in [Positions -> Digits]
         /\ DigitsOf \in [0 .. N - 1 -> Nat]
         /\ \A i \in Positions : DigitsOf[i] = (arr[src][i].key \div Weight[pass]) % PassRadix
<1>1. N \in Nat
  <2>1. input \in Seq(Nat)
    BY RadixAssumption DEF TypeOK
  <2> QED BY <2>1 DEF N
<1>2. PassRadix \in Nat \ {0} /\ PassRadix <= Radix
  BY RadixAssumption DEF TypeOK, PassRadix
<1>3. Weight[pass] \in Nat \ {0}
  <2>1. pass \in 0 .. Passes
    BY RadixAssumption DEF TypeOK
  <2> QED BY <2>1, Weights
<1>4. ASSUME NEW i \in Positions
      PROVE  /\ Digit(arr[src][i].key) = (arr[src][i].key \div Weight[pass]) % PassRadix
             /\ Digit(arr[src][i].key) \in Digits
  <2>1. arr[src][i].key \in Nat
    <3>1. arr[src][i] \in Item
      BY DEF DataOK
    <3> QED BY <3>1 DEF Item
  <2>2. (arr[src][i].key \div Weight[pass]) % PassRadix \in 0 .. PassRadix - 1
    BY <1>2, <1>3, <2>1, NextDigit
  <2>3. 0 .. PassRadix - 1 \subseteq Digits
    BY <1>2, RadixAssumption DEF Digits
  <2> QED BY <2>2, <2>3 DEF Digit
<1>5. DigitsOf \in [Positions -> Digits]
  BY <1>4 DEF DigitsOf
<1>6. Digits \subseteq Nat
  BY DEF Digits
<1>7. DigitsOf \in [0 .. N - 1 -> Nat]
  BY <1>5, <1>6 DEF Positions
<1>8. \A i \in Positions : DigitsOf[i] = (arr[src][i].key \div Weight[pass]) % PassRadix
  BY <1>4 DEF DigitsOf
<1> QED BY <1>1, <1>2, <1>3, <1>5, <1>7, <1>8 DEF Positions

\* A step within a pass changes neither the chunks nor the items that the pass reads.
LEMMA WithinPass ==
  ASSUME UNCHANGED <<input, lastRadix, src, pass>>, arr'[src] = arr[src]
  PROVE  /\ N' = N /\ Positions' = Positions
         /\ \A t \in Workers : First(t)' = First(t) /\ End(t)' = End(t)
         /\ DigitsOf' = DigitsOf
         /\ SortedBy(arr[src], Weight[pass]) => SortedBy(arr[src], Weight[pass])'
         /\ Complete(arr[src]) => Complete(arr[src])'
         /\ Other(src)' = Other(src)
<1>1. N' = N /\ Positions' = Positions
  BY DEF N, Positions
<1>2. \A t \in Workers : First(t)' = First(t) /\ End(t)' = End(t)
  BY <1>1 DEF First, End
<1>3. PassRadix' = PassRadix
  BY DEF PassRadix
<1>4. DigitsOf' = DigitsOf
  BY <1>1, <1>3 DEF DigitsOf, Digit
<1>5. SortedBy(arr[src], Weight[pass]) => SortedBy(arr[src], Weight[pass])'
  BY <1>1 DEF SortedBy, Before
<1>6. Complete(arr[src]) => Complete(arr[src])'
  BY <1>1 DEF Complete
<1> QED BY <1>1, <1>2, <1>4, <1>5, <1>6 DEF Other

LEMMA InitInvariant == Init => IInv
<1> SUFFICES ASSUME Init PROVE IInv
  OBVIOUS
<1>1. input \in Seq(Nat) /\ N \in Nat
  <2>1. input \in Seq(Nat)
    BY RadixAssumption DEF Init
  <2> QED BY <2>1 DEF N
<1>2. /\ arr = [c \in {"data", "buffer"} |->
                  [i \in Positions |->
                     IF c = "data" THEN [key |-> input[i + 1], from |-> i] ELSE Blank]]
      /\ src = "data" /\ pass = 0 /\ phase = "count"
      /\ pos = [t \in Workers |-> NotStarted]
  BY DEF Init, Positions, N
<1>3. ASSUME NEW i \in Positions
      PROVE  /\ arr[src][i] = [key |-> input[i + 1], from |-> i]
             /\ i \in Nat /\ input[i + 1] \in Nat
             /\ arr[src][i] \in Item
  <2>1. i \in Nat /\ i + 1 \in 1 .. Len(input)
    BY <1>1 DEF Positions, N
  <2>2. input[i + 1] \in Nat
    BY <1>1, <2>1
  <2>3. arr[src][i] = [key |-> input[i + 1], from |-> i]
    BY <1>2
  <2> QED BY <2>1, <2>2, <2>3 DEF Item
<1>4. TypeOK
  <2>1. ZeroRow \in [Digits -> 0 .. N]
    BY <1>1 DEF ZeroRow
  <2>2. pass \in 0 .. Passes - 1
    BY <1>2, RadixAssumption
  <2> QED BY <1>2, <2>1, <2>2 DEF Init, TypeOK
<1>5. DataOK
  <2>1. [i \in Positions |-> Blank] \in [Positions -> Item \cup {Blank}]
    OBVIOUS
  <2>2. arr[src] = [i \in Positions |-> [key |-> input[i + 1], from |-> i]]
    BY <1>2
  <2>3. arr[src] \in [Positions -> Item]
    BY <1>3, <2>2
  <2>4. /\ arr["data"] \in [Positions -> Item \cup {Blank}]
        /\ arr["buffer"] \in [Positions -> Item \cup {Blank}]
        /\ DOMAIN arr = {"data", "buffer"}
        /\ arr = [c \in DOMAIN arr |-> arr[c]]
    BY <1>2, <2>1, <2>3
  <2>5. arr \in [{"data", "buffer"} -> [Positions -> Item \cup {Blank}]]
    BY <2>4
  <2> QED BY <2>3, <2>5 DEF DataOK
<1>6. Counted
  BY <1>2 DEF Counted
<1>7. Moved
  BY <1>2 DEF Moved
<1>8. SortedResult
  <2>1. ASSUME NEW i \in Positions, NEW j \in Positions, i < j
        PROVE  Before(arr[src][i], arr[src][j], 1)
    <3>0. ASSUME NEW l \in Positions
          PROVE  arr[src][l].key \in Nat /\ arr[src][l].from = l /\ l \in Nat
      <4> DEFINE it == arr[src][l]
      <4>0. it = [key |-> input[l + 1], from |-> l]
        BY <1>3
      <4> HIDE DEF it
      <4>1. it.key = input[l + 1] /\ it.from = l
        BY <4>0
      <4> QED BY <1>3, <4>1, Zenon DEF it
    <3>1. /\ arr[src][i].key \in Nat /\ arr[src][i].from = i
          /\ arr[src][j].key \in Nat /\ arr[src][j].from = j
      BY <3>0
    <3>2. arr[src][i].key % 1 = 0 /\ arr[src][j].key % 1 = 0
      BY <3>1
    <3> QED BY <2>1, <3>1, <3>2 DEF Before
  <2>2. SortedBy(arr[src], Weight[pass])
    BY <1>2, <2>1, Weights DEF SortedBy
  <2>3. Complete(arr[src])
    BY <1>3 DEF Complete
  <2> QED BY <1>2, <2>2, <2>3 DEF SortedResult
<1> QED BY <1>4, <1>5, <1>6, <1>7, <1>8 DEF IInv

LEMMA StartCountInvariant ==
  ASSUME IInv, NEW t \in Workers, StartCount(t)
  PROVE  IInv'
<1>1. TypeOK /\ DataOK /\ Counted /\ Moved /\ SortedResult
  BY DEF IInv
<1>2. N \in Nat
  BY <1>1, PassFacts
<1>3. /\ phase = "count" /\ phase' = "count"
      /\ counts' = [counts EXCEPT ![t] = ZeroRow]
      /\ pos' = [pos EXCEPT ![t] = First(t)]
      /\ UNCHANGED <<input, lastRadix, arr, src, pass, offsets>>
  BY DEF StartCount
<1>4. /\ N' = N /\ Positions' = Positions
      /\ \A u \in Workers : First(u)' = First(u) /\ End(u)' = End(u)
      /\ DigitsOf' = DigitsOf
      /\ SortedBy(arr[src], Weight[pass]) => SortedBy(arr[src], Weight[pass])'
      /\ Complete(arr[src]) => Complete(arr[src])'
  BY <1>3, WithinPass
<1>5. First(t) \in 0 .. N /\ End(t) \in First(t) .. N
  BY <1>2, ChunkBounds
<1>6. TypeOK'
  <2>1. ZeroRow \in [Digits -> 0 .. N]
    BY <1>2 DEF ZeroRow
  <2>2. counts' \in [Workers -> [Digits -> 0 .. N]]
    BY <1>1, <1>3, <2>1 DEF TypeOK
  <2>3. pos' \in [Workers -> {NotStarted} \cup 0 .. N]
    BY <1>1, <1>3, <1>5 DEF TypeOK
  <2> QED BY <1>1, <1>3, <1>4, <2>2, <2>3 DEF TypeOK
<1>7. DataOK'
  BY <1>1, <1>3, <1>4 DEF DataOK
<1>8. Counted'
  <2>1. ASSUME NEW u \in Workers, pos'[u] # NotStarted
        PROVE  /\ pos'[u] \in First(u) .. End(u)
               /\ \A d \in Digits :
                    counts'[u][d] = Cardinality(Within(DigitsOf, First(u), pos'[u], d))
    <3>1. CASE u = t
      <4>1. pos'[u] = First(t) /\ \A d \in Digits : counts'[u][d] = 0
        BY <1>1, <1>3, <3>1 DEF TypeOK, ZeroRow
      <4>2. \A d : Within(DigitsOf, First(t), First(t), d) = {}
        BY <1>5 DEF Within
      <4> QED BY <1>5, <3>1, <4>1, <4>2, FS_EmptySet
    <3>2. CASE u # t
      <4>1. pos'[u] = pos[u] /\ counts'[u] = counts[u]
        BY <1>1, <1>3, <3>2 DEF TypeOK
      <4> QED BY <1>1, <1>3, <2>1, <4>1 DEF Counted
    <3> QED BY <3>1, <3>2
  <2> QED BY <1>4, <2>1 DEF Counted
<1>9. Moved'
  BY <1>3 DEF Moved
<1>10. SortedResult'
  BY <1>1, <1>3, <1>4 DEF SortedResult
<1> QED BY <1>6, <1>7, <1>8, <1>9, <1>10 DEF IInv

LEMMA CountInvariant ==
  ASSUME IInv, NEW t \in Workers, Count(t)
  PROVE  IInv'
<1> DEFINE p == pos[t]
           e == DigitsOf[p]
<1>1. TypeOK /\ DataOK /\ Counted /\ Moved /\ SortedResult
  BY DEF IInv
<1>2. /\ N \in Nat /\ Positions = 0 .. N - 1
      /\ DigitsOf \in [Positions -> Digits] /\ DigitsOf \in [0 .. N - 1 -> Nat]
  BY <1>1, PassFacts
<1>3. /\ phase = "count" /\ phase' = "count" /\ p # NotStarted /\ p < End(t)
      /\ pos' = [pos EXCEPT ![t] = p + 1]
      /\ UNCHANGED <<input, lastRadix, arr, src, pass, offsets>>
  BY DEF Count
<1>4. /\ N' = N /\ Positions' = Positions
      /\ \A u \in Workers : First(u)' = First(u) /\ End(u)' = End(u)
      /\ DigitsOf' = DigitsOf
      /\ SortedBy(arr[src], Weight[pass]) => SortedBy(arr[src], Weight[pass])'
      /\ Complete(arr[src]) => Complete(arr[src])'
  BY <1>3, WithinPass
<1>5. First(t) \in 0 .. N /\ End(t) \in First(t) .. N /\ p \in First(t) .. End(t)
  BY <1>1, <1>2, <1>3, ChunkBounds DEF Counted
<1>6. p \in 0 .. N - 1 /\ First(t) <= p /\ First(t) \in Nat /\ p + 1 \in First(t) .. End(t)
  BY <1>2, <1>3, <1>5
<1>7. e \in Digits
  BY <1>2, <1>6
<1>8. counts' = [counts EXCEPT ![t][e] = counts[t][e] + 1]
  <2>1. counts' = [counts EXCEPT ![t][Digit(arr[src][p].key)] = @ + 1]
    BY DEF Count
  <2>2. Digit(arr[src][p].key) = e
    BY <1>2, <1>6 DEF DigitsOf
  <2> QED BY <2>1, <2>2
<1> HIDE DEF e, p
<1>9. ASSUME NEW d \in Digits
      PROVE  /\ counts'[t][d] = Cardinality(Within(DigitsOf, First(t), p + 1, d))
             /\ counts'[t][d] \in 0 .. N
  <2>1. d \in Nat
    BY DEF Digits
  <2>2. counts[t] \in [Digits -> 0 .. N] /\ t \in DOMAIN counts
    BY <1>1 DEF TypeOK
  <2>3. counts[t][d] = Cardinality(Within(DigitsOf, First(t), p, d))
    BY <1>1, <1>3 DEF Counted, p
  <2>4. /\ Cardinality(Within(DigitsOf, First(t), p + 1, d)) =
             Cardinality(Within(DigitsOf, First(t), p, d)) + IF DigitsOf[p] = d THEN 1 ELSE 0
        /\ Cardinality(Within(DigitsOf, First(t), p + 1, d)) \in 0 .. N
    BY <1>2, <1>6, <2>1, WithinNext
  <2>5. counts[t][d] \in 0 .. N
    BY <2>2
  <2>6. CASE d = e
    <3>1. counts'[t][d] = counts[t][d] + 1
      BY <1>8, <2>2, <2>6
    <3> QED BY <2>3, <2>4, <2>6, <3>1 DEF e
  <2>7. CASE d # e
    <3>1. counts'[t][d] = counts[t][d] + 0
      BY <1>8, <2>2, <2>5, <2>7
    <3> QED BY <2>3, <2>4, <2>7, <3>1 DEF e
  <2> QED BY <2>6, <2>7
<1>10. ASSUME NEW u \in Workers, u # t
       PROVE  pos'[u] = pos[u] /\ counts'[u] = counts[u]
  BY <1>1, <1>3, <1>8, <1>10 DEF TypeOK
<1>11. TypeOK'
  <2>1. \A u \in Workers : counts'[u] \in [Digits -> 0 .. N]
    <3>1. counts'[t] \in [Digits -> 0 .. N]
      <4>1. counts'[t] = [counts[t] EXCEPT ![e] = counts[t][e] + 1]
        BY <1>1, <1>8 DEF TypeOK
      <4>2. DOMAIN counts'[t] = Digits /\ counts'[t] = [d \in Digits |-> counts'[t][d]]
        BY <1>1, <4>1 DEF TypeOK
      <4>3. \A d \in Digits : counts'[t][d] \in 0 .. N
        BY <1>9
      <4> QED BY <4>2, <4>3
    <3>2. \A u \in Workers : counts[u] \in [Digits -> 0 .. N]
      BY <1>1 DEF TypeOK
    <3> QED BY <1>10, <3>1, <3>2
  <2>2. counts' \in [Workers -> [Digits -> 0 .. N]]
    <3>1. DOMAIN counts' = Workers /\ counts' = [u \in Workers |-> counts'[u]]
      BY <1>1, <1>8 DEF TypeOK
    <3> QED BY <2>1, <3>1
  <2>3. pos' \in [Workers -> {NotStarted} \cup 0 .. N]
    BY <1>1, <1>2, <1>3, <1>6 DEF TypeOK
  <2> QED BY <1>1, <1>3, <1>4, <2>2, <2>3 DEF TypeOK
<1>12. DataOK'
  BY <1>1, <1>3, <1>4 DEF DataOK
<1>13. Counted'
  <2>1. ASSUME NEW u \in Workers, pos'[u] # NotStarted
        PROVE  /\ pos'[u] \in First(u) .. End(u)
               /\ \A d \in Digits :
                    counts'[u][d] = Cardinality(Within(DigitsOf, First(u), pos'[u], d))
    <3>1. CASE u = t
      <4>1. pos'[u] = p + 1
        BY <1>1, <1>3, <3>1 DEF TypeOK
      <4> QED BY <1>6, <1>9, <3>1, <4>1
    <3>2. CASE u # t
      BY <1>1, <1>3, <1>10, <2>1, <3>2 DEF Counted
    <3> QED BY <3>1, <3>2
  <2> QED BY <1>4, <2>1 DEF Counted
<1>14. Moved'
  BY <1>3 DEF Moved
<1>15. SortedResult'
  BY <1>1, <1>3, <1>4 DEF SortedResult
<1> QED BY <1>11, <1>12, <1>13, <1>14, <1>15 DEF IInv

LEMMA MergeInvariant ==
  ASSUME IInv, MergeCounts
  PROVE  IInv'
<1>1. TypeOK /\ DataOK /\ Counted /\ Moved /\ SortedResult
  BY DEF IInv
<1>2. /\ N \in Nat /\ Positions = 0 .. N - 1
      /\ DigitsOf \in [Positions -> Digits] /\ DigitsOf \in [0 .. N - 1 -> Nat]
  BY <1>1, PassFacts
<1>3. /\ phase = "count" /\ Joined /\ phase' = "move"
      /\ offsets' = [t \in Workers |-> [d \in Digits |-> PrefixOffset(t, d)]]
      /\ pos' = [t \in Workers |-> First(t)]
      /\ UNCHANGED <<input, lastRadix, arr, src, pass, counts>>
  BY DEF MergeCounts
<1>4. /\ N' = N /\ Positions' = Positions
      /\ \A u \in Workers : First(u)' = First(u) /\ End(u)' = End(u)
      /\ DigitsOf' = DigitsOf
      /\ SortedBy(arr[src], Weight[pass]) => SortedBy(arr[src], Weight[pass])'
      /\ Complete(arr[src]) => Complete(arr[src])'
  BY <1>3, WithinPass
<1>5. \A t \in Workers : First(t) \in 0 .. N /\ First(t) \in Nat /\ End(t) \in First(t) .. N
  BY <1>2, ChunkBounds
<1>6. \A t \in Workers : \A d \in Digits :
        counts[t][d] = Cardinality(Within(DigitsOf, First(t), End(t), d))
  <2>1. ASSUME NEW t \in Workers
        PROVE  pos[t] = End(t) /\ pos[t] # NotStarted
    <3>1. pos[t] = End(t)
      BY <1>3 DEF Joined
    <3> QED BY <1>5, <3>1 DEF NotStarted
  <2> QED BY <1>1, <1>3, <2>1 DEF Counted
<1>7. ASSUME NEW t \in Workers, NEW d \in Digits
      PROVE  /\ offsets'[t][d] = Cardinality(Below(DigitsOf, N, d, First(t)))
             /\ offsets'[t][d] \in 0 .. N
  <2>1. counts \in [Workers -> [Digits -> 0 .. N]]
    BY <1>1 DEF TypeOK
  <2>2. PrefixOffset(t, d) = Cardinality(Below(DigitsOf, N, d, First(t)))
    BY <1>2, <1>6, <2>1, MergedCounts
  <2>3. offsets'[t][d] = PrefixOffset(t, d)
    BY <1>3
  <2> DEFINE A == Below(DigitsOf, N, d, First(t))
  <2>4. A \in SUBSET (0 .. N - 1)
    BY DEF Below
  <2>5. Cardinality(A) \in Nat /\ Cardinality(A) <= N
    <3> HIDE DEF A
    <3> QED BY <1>2, <2>4, PositionSets, Zenon
  <2>6. Cardinality(A) \in 0 .. N
    <3> HIDE DEF A
    <3> QED BY <1>2, <2>5
  <2> QED BY <2>2, <2>3, <2>6
<1>8. TypeOK'
  <2>1. offsets' \in [Workers -> [Digits -> 0 .. N]]
    <3>1. \A t \in Workers : \A d \in Digits : PrefixOffset(t, d) \in 0 .. N
      BY <1>3, <1>7
    <3> QED BY <1>3, <3>1
  <2>2. pos' \in [Workers -> {NotStarted} \cup 0 .. N]
    BY <1>3, <1>5
  <2> QED BY <1>1, <1>3, <1>4, <2>1, <2>2 DEF TypeOK
<1>9. DataOK'
  BY <1>1, <1>3, <1>4 DEF DataOK
<1>10. Counted'
  BY <1>3 DEF Counted
<1>11. Moved'
  <2>1. ASSUME NEW t \in Workers
        PROVE  /\ pos'[t] = First(t) /\ pos'[t] \in First(t) .. End(t)
               /\ First(t) .. pos'[t] - 1 = {}
    BY <1>3, <1>5
  <2> QED BY <1>4, <1>7, <2>1 DEF Moved
<1>12. SortedResult'
  BY <1>1, <1>3, <1>4 DEF SortedResult
<1> QED BY <1>8, <1>9, <1>10, <1>11, <1>12 DEF IInv

LEMMA MoveInvariant ==
  ASSUME IInv, NEW t \in Workers, Move(t)
  PROVE  IInv'
<1> DEFINE p  == pos[t]
           e  == DigitsOf[p]
           to == offsets[t][e]
           o  == Other(src)
<1>1. TypeOK /\ DataOK /\ Counted /\ Moved /\ SortedResult
  BY DEF IInv
<1>2. /\ N \in Nat /\ Positions = 0 .. N - 1
      /\ DigitsOf \in [Positions -> Digits] /\ DigitsOf \in [0 .. N - 1 -> Nat]
  BY <1>1, PassFacts
<1>3. phase = "move" /\ p < End(t) /\ UNCHANGED <<input, lastRadix, src, pass, counts>>
  BY DEF Move
<1>4. First(t) \in 0 .. N /\ End(t) \in First(t) .. N /\ p \in First(t) .. End(t)
  BY <1>1, <1>2, <1>3, ChunkBounds DEF Moved
<1>5. p \in 0 .. N - 1 /\ First(t) <= p /\ First(t) \in Nat /\ p + 1 \in First(t) .. End(t)
      /\ p \in First(t) .. End(t) - 1
  BY <1>2, <1>3, <1>4
<1>6. e \in Digits /\ Digit(arr[src][p].key) = e
  BY <1>2, <1>5 DEF DigitsOf
<1>7. to = PlaceOf(DigitsOf, N, p)
  BY <1>1, <1>3, <1>6 DEF Moved, PlaceOf
<1>8. to \in Positions /\ ~ (to >= N)
  <2>1. PlaceOf(DigitsOf, N, p) \in 0 .. N - 1
    BY <1>2, <1>5, PlacesBijective
  <2> HIDE DEF to
  <2> QED BY <1>2, <1>7, <2>1
<1>9. /\ phase' = phase
      /\ offsets' = [offsets EXCEPT ![t][e] = to + 1]
      /\ arr' = [arr EXCEPT ![o][to] = arr[src][p]]
      /\ pos' = [pos EXCEPT ![t] = p + 1]
  <2>1. /\ offsets' = [offsets EXCEPT ![t][Digit(arr[src][p].key)] = @ + 1]
        /\ IF offsets[t][Digit(arr[src][p].key)] >= N
             THEN phase' = "aborted" /\ UNCHANGED <<arr, pos>>
             ELSE /\ arr' = [arr EXCEPT ![o][offsets[t][Digit(arr[src][p].key)]] = arr[src][p]]
                  /\ pos' = [pos EXCEPT ![t] = @ + 1]
                  /\ UNCHANGED phase
    BY DEF Move
  <2>2. /\ offsets' = [offsets EXCEPT ![t][e] = @ + 1]
        /\ IF to >= N
             THEN phase' = "aborted" /\ UNCHANGED <<arr, pos>>
             ELSE /\ arr' = [arr EXCEPT ![o][to] = arr[src][p]]
                  /\ pos' = [pos EXCEPT ![t] = @ + 1]
                  /\ UNCHANGED phase
    BY <1>6, <2>1
  <2>3. /\ phase' = phase
        /\ arr' = [arr EXCEPT ![o][to] = arr[src][p]]
        /\ pos' = [pos EXCEPT ![t] = @ + 1]
    BY <1>8, <2>2
  <2> QED BY <2>2, <2>3
<1>10. o \in {"data", "buffer"} /\ o # src /\ src \in {"data", "buffer"}
  BY <1>1 DEF TypeOK, Other
<1>11. /\ arr' \in [{"data", "buffer"} -> [Positions -> Item \cup {Blank}]]
       /\ arr'[src] = arr[src]
       /\ arr'[o][to] = arr[src][p]
       /\ \A q \in Positions : q # to => arr'[o][q] = arr[o][q]
  <2>1. /\ arr \in [{"data", "buffer"} -> [Positions -> Item \cup {Blank}]]
        /\ arr[src][p] \in Item
    BY <1>1, <1>2, <1>5 DEF DataOK
  <2>2. arr[o] \in [Positions -> Item \cup {Blank}]
    BY <1>10, <2>1
  <2> HIDE DEF to, p, o
  <2>3. [arr[o] EXCEPT ![to] = arr[src][p]] \in [Positions -> Item \cup {Blank}]
    BY <1>8, <2>1, <2>2
  <2>4. arr' = [arr EXCEPT ![o] = [arr[o] EXCEPT ![to] = arr[src][p]]]
    BY <1>9
  <2>5. arr'[o] = [arr[o] EXCEPT ![to] = arr[src][p]] /\ arr'[src] = arr[src]
    BY <1>10, <2>1, <2>4
  <2>6. arr' \in [{"data", "buffer"} -> [Positions -> Item \cup {Blank}]]
    BY <1>10, <2>1, <2>3, <2>4
  <2> QED BY <1>8, <2>2, <2>5, <2>6
<1>12. /\ N' = N /\ Positions' = Positions
       /\ \A u \in Workers : First(u)' = First(u) /\ End(u)' = End(u)
       /\ DigitsOf' = DigitsOf
       /\ SortedBy(arr[src], Weight[pass]) => SortedBy(arr[src], Weight[pass])'
       /\ Complete(arr[src]) => Complete(arr[src])'
       /\ Other(src)' = o
  BY <1>3, <1>11, WithinPass
<1> HIDE DEF p, e, to, o
<1>13. ASSUME NEW d \in Digits
       PROVE  /\ offsets'[t][d] = Cardinality(Below(DigitsOf, N, d, p + 1))
              /\ offsets'[t][d] \in 0 .. N
  <2>1. d \in Nat
    BY DEF Digits
  <2>2. offsets[t] \in [Digits -> 0 .. N] /\ t \in DOMAIN offsets
    BY <1>1 DEF TypeOK
  <2>3. offsets[t][d] = Cardinality(Below(DigitsOf, N, d, p))
    BY <1>1, <1>3 DEF Moved, p
  <2>4. Cardinality(Below(DigitsOf, N, d, p + 1)) =
          Cardinality(Below(DigitsOf, N, d, p)) + IF DigitsOf[p] = d THEN 1 ELSE 0
    BY <1>2, <1>5, <2>1, BelowNext
  <2>5. offsets[t][d] \in 0 .. N
    BY <2>2
  <2>6. CASE d = e
    <3>1. offsets'[t][d] = offsets[t][d] + 1
      BY <1>9, <2>2, <2>6 DEF to
    <3>2. offsets[t][d] \in Positions
      BY <1>8, <2>6 DEF to
    <3>3. offsets'[t][d] \in 0 .. N
      BY <1>2, <3>1, <3>2
    <3> QED BY <2>3, <2>4, <2>6, <3>1, <3>3 DEF e
  <2>7. CASE d # e
    <3>1. offsets'[t][d] = offsets[t][d] + 0
      BY <1>9, <2>2, <2>5, <2>7
    <3>2. offsets'[t][d] \in 0 .. N
      BY <2>5, <3>1
    <3> QED BY <2>3, <2>4, <2>7, <3>1, <3>2 DEF e
  <2> QED BY <2>6, <2>7
<1>14. ASSUME NEW u \in Workers, u # t
       PROVE  pos'[u] = pos[u] /\ offsets'[u] = offsets[u]
  BY <1>1, <1>9, <1>14 DEF TypeOK
<1>15. TypeOK'
  <2>1. \A u \in Workers : offsets'[u] \in [Digits -> 0 .. N]
    <3>1. offsets'[t] \in [Digits -> 0 .. N]
      <4>1. offsets'[t] = [offsets[t] EXCEPT ![e] = to + 1]
        BY <1>1, <1>9 DEF TypeOK
      <4>2. DOMAIN offsets'[t] = Digits /\ offsets'[t] = [d \in Digits |-> offsets'[t][d]]
        BY <1>1, <4>1 DEF TypeOK
      <4>3. \A d \in Digits : offsets'[t][d] \in 0 .. N
        BY <1>13
      <4> QED BY <4>2, <4>3
    <3>2. \A u \in Workers : offsets[u] \in [Digits -> 0 .. N]
      BY <1>1 DEF TypeOK
    <3> QED BY <1>14, <3>1, <3>2
  <2>2. offsets' \in [Workers -> [Digits -> 0 .. N]]
    <3>1. DOMAIN offsets' = Workers /\ offsets' = [u \in Workers |-> offsets'[u]]
      BY <1>1, <1>9 DEF TypeOK
    <3> QED BY <2>1, <3>1
  <2>3. pos' \in [Workers -> {NotStarted} \cup 0 .. N]
    BY <1>1, <1>2, <1>5, <1>9 DEF TypeOK
  <2>4. DOMAIN arr' = {"data", "buffer"}
    BY <1>11
  <2> QED BY <1>1, <1>3, <1>9, <1>12, <2>2, <2>3, <2>4 DEF TypeOK
<1>16. DataOK'
  BY <1>1, <1>3, <1>11, <1>12 DEF DataOK
<1>17. Counted'
  BY <1>3, <1>9 DEF Counted
<1>18. ASSUME NEW u \in Workers, NEW i \in First(u) .. pos'[u] - 1
       PROVE  arr'[o][PlaceOf(DigitsOf, N, i)] = arr[src][i]
  <2>1. CASE u = t /\ i = p
    BY <1>7, <1>11, <2>1
  <2>2. CASE ~ (u = t /\ i = p)
    <3>1. First(u) \in Nat /\ End(u) \in Nat /\ End(u) <= N /\ pos[u] \in First(u) .. End(u)
      BY <1>1, <1>2, <1>3, ChunkBounds DEF Moved
    <3>2. i \in First(u) .. pos[u] - 1
      <4>1. u = t => pos'[u] = p + 1 /\ pos[u] = p
        BY <1>1, <1>9 DEF TypeOK, p
      <4> QED BY <1>14, <2>2, <3>1, <4>1
    <3>3. i # p
      <4>1. i \in First(u) .. End(u) - 1
        BY <3>1, <3>2
      <4>2. i = p => u = t
        BY <1>2, <1>5, <4>1, ChunksDisjoint
      <4> QED BY <2>2, <4>2
    <3>4. i \in 0 .. N - 1
      <4>1. pos[u] \in Nat /\ pos[u] <= N
        BY <1>2, <3>1
      <4>2. i \in Nat /\ i <= pos[u] - 1
        BY <3>1, <3>2, <4>1
      <4> QED BY <1>2, <4>1, <4>2
    <3>5. PlaceOf(DigitsOf, N, i) # to /\ PlaceOf(DigitsOf, N, i) \in Positions
      BY <1>2, <1>5, <1>7, <3>3, <3>4, PlacesBijective
    <3>6. arr[o][PlaceOf(DigitsOf, N, i)] = arr[src][i]
      BY <1>1, <1>3, <3>2 DEF Moved, o
    <3> QED BY <1>11, <3>5, <3>6
  <2> QED BY <2>1, <2>2
<1>19. Moved'
  <2>1. ASSUME NEW u \in Workers
        PROVE  /\ pos'[u] \in First(u) .. End(u)
               /\ \A d \in Digits :
                    offsets'[u][d] = Cardinality(Below(DigitsOf, N, d, pos'[u]))
    <3>1. CASE u = t
      <4>1. pos'[u] = p + 1
        BY <1>1, <1>9, <3>1 DEF TypeOK
      <4> QED BY <1>5, <1>13, <3>1, <4>1
    <3>2. CASE u # t
      BY <1>1, <1>3, <1>14, <3>2 DEF Moved
    <3> QED BY <3>1, <3>2
  <2> QED BY <1>3, <1>11, <1>12, <1>18, <2>1 DEF Moved
<1>20. SortedResult'
  BY <1>1, <1>3, <1>9, <1>11, <1>12 DEF SortedResult
<1> QED BY <1>15, <1>16, <1>17, <1>19, <1>20 DEF IInv

LEMMA EndPassInvariant ==
  ASSUME IInv, EndPass
  PROVE  IInv'
<1> DEFINE o == Other(src)
           b == arr[o]
<1>1. TypeOK /\ DataOK /\ Counted /\ Moved /\ SortedResult
  BY DEF IInv
<1>2. /\ N \in Nat /\ Positions = 0 .. N - 1
      /\ PassRadix \in Nat \ {0} /\ Weight[pass] \in Nat \ {0}
      /\ DigitsOf \in [Positions -> Nat]
      /\ \A i \in Positions : DigitsOf[i] = (arr[src][i].key \div Weight[pass]) % PassRadix
  BY <1>1, PassFacts
<1>3. /\ phase = "move" /\ Joined
      /\ UNCHANGED <<input, lastRadix, arr, counts, offsets>>
  BY DEF EndPass
<1>4. N' = N /\ Positions' = Positions
  BY <1>3 DEF N, Positions
<1>5. ASSUME NEW i \in Positions
      PROVE  b[PlaceOf(DigitsOf, N, i)] = arr[src][i]
  <2>1. PICK t \in Workers : i \in First(t) .. End(t) - 1
    BY <1>2, ChunksCover
  <2>2. pos[t] = End(t)
    BY <1>3 DEF Joined
  <2> QED BY <1>1, <1>3, <2>1, <2>2 DEF Moved
<1>6. /\ SortedBy(b, Weight[pass] * PassRadix) /\ Complete(b)
      /\ \A q \in Positions : b[q] \in Item
  <2>1. arr[src] \in [Positions -> Item]
    BY <1>1 DEF DataOK
  <2>2. SortedBy(arr[src], Weight[pass]) /\ Complete(arr[src])
    BY <1>1, <1>3 DEF SortedResult
  <2> DEFINE a == arr[src]
             g == DigitsOf
             m == Weight[pass]
             r == PassRadix
  <2>3. /\ N \in Nat /\ m \in Nat \ {0} /\ r \in Nat \ {0}
        /\ g \in [Positions -> Nat] /\ a \in [Positions -> Item]
        /\ \A i \in Positions : g[i] = (a[i].key \div m) % r
        /\ \A i \in Positions : b[PlaceOf(g, N, i)] = a[i]
        /\ SortedBy(a, m) /\ Complete(a)
    BY <1>2, <1>5, <2>1, <2>2
  <2> HIDE DEF a, b, g, m, r
  <2>4. SortedBy(b, m * r) /\ Complete(b) /\ \A q \in Positions : b[q] \in Item
    BY <2>3, PassSorts
  <2> QED BY <2>4 DEF m, r
<1>7. o \in {"data", "buffer"} /\ src \in {"data", "buffer"}
  BY <1>1 DEF TypeOK, Other
<1>8. b \in [Positions -> Item]
  <2>1. b \in [Positions -> Item \cup {Blank}]
    BY <1>1, <1>7 DEF DataOK
  <2> HIDE DEF b
  <2> QED BY <1>6, <2>1
<1>9. pass \in 0 .. Passes - 1 /\ Passes \in Nat /\ Radix \in Nat \ {0}
  BY <1>1, RadixAssumption DEF TypeOK
<1>10. CASE pass < Passes - 1
  <2>1. /\ src' = o /\ pass' = pass + 1 /\ phase' = "count"
        /\ pos' = [t \in Workers |-> NotStarted]
    BY <1>10 DEF EndPass
  <2>2. pass' \in 0 .. Passes - 1
    BY <1>9, <1>10, <2>1
  <2>3. Weight[pass] * PassRadix = Weight[pass']
    <3>1. PassRadix = Radix
      BY <1>9, <1>10 DEF PassRadix
    <3>2. Weight[pass + 1] = Radix * Weight[pass]
      BY <1>9, Weights
    <3> DEFINE w == Weight[pass]
    <3>3. w \in Nat
      BY <1>2
    <3> HIDE DEF w
    <3>4. Radix * w = w * Radix
      BY <1>9, <3>3
    <3> QED BY <2>1, <3>1, <3>2, <3>4 DEF w
  <2>4. TypeOK'
    BY <1>1, <1>3, <1>4, <1>7, <2>1, <2>2 DEF TypeOK
  <2>5. DataOK'
    BY <1>1, <1>3, <1>4, <1>8, <2>1 DEF DataOK
  <2>6. Counted'
    BY <2>1 DEF Counted
  <2>7. Moved'
    BY <2>1 DEF Moved
  <2>8. arr'[src'] = b
    BY <1>3, <2>1
  <2>9. SortedBy(arr[src], Weight[pass])'
    <3>1. SortedBy(b, Weight[pass'])
      BY <1>6, <2>3
    <3> QED BY <1>4, <2>8, <3>1 DEF SortedBy, Before
  <2>10. Complete(arr[src])'
    BY <1>3, <1>4, <1>6, <2>8 DEF Complete
  <2>11. SortedResult'
    BY <2>1, <2>9, <2>10 DEF SortedResult
  <2> QED BY <2>4, <2>5, <2>6, <2>7, <2>11 DEF IInv
<1>11. CASE ~ (pass < Passes - 1)
  <2>1. phase' = "done" /\ UNCHANGED <<src, pass, pos>>
    BY <1>11 DEF EndPass
  <2>2. Weight[pass] * PassRadix = Modulus(Passes)
    <3>1. pass = Passes - 1
      BY <1>9, <1>11
    <3> QED BY <3>1 DEF PassRadix, Modulus
  <2>3. TypeOK'
    BY <1>1, <1>3, <1>4, <2>1 DEF TypeOK
  <2>4. DataOK'
    BY <1>1, <1>3, <1>4, <2>1 DEF DataOK
  <2>5. Counted'
    BY <2>1 DEF Counted
  <2>6. Moved'
    BY <2>1 DEF Moved
  <2>7. arr'[Other(src)'] = b /\ Modulus(Passes)' = Modulus(Passes)
    BY <1>3, <2>1 DEF Other, Modulus
  <2>8. SortedBy(arr[Other(src)], Modulus(Passes))'
    <3>1. SortedBy(b, Modulus(Passes))
      BY <1>6, <2>2
    <3> QED BY <1>4, <2>7, <3>1 DEF SortedBy, Before
  <2>9. Complete(arr[Other(src)])'
    BY <1>3, <1>4, <1>6, <2>7 DEF Complete
  <2>10. SortedResult'
    BY <2>1, <2>8, <2>9 DEF SortedResult
  <2> QED BY <2>3, <2>4, <2>5, <2>6, <2>10 DEF IInv
<1> QED BY <1>10, <1>11

LEMMA StutterInvariant ==
  ASSUME IInv, UNCHANGED vars
  PROVE  IInv'
<1>1. /\ input' = input /\ lastRadix' = lastRadix /\ arr' = arr /\ src' = src
      /\ pass' = pass /\ phase' = phase /\ pos' = pos /\ counts' = counts
      /\ offsets' = offsets
  BY DEF vars
<1>2. /\ N' = N /\ Positions' = Positions
      /\ \A t \in Workers : First(t)' = First(t) /\ End(t)' = End(t)
      /\ DigitsOf' = DigitsOf
      /\ SortedBy(arr[src], Weight[pass]) => SortedBy(arr[src], Weight[pass])'
      /\ Complete(arr[src]) => Complete(arr[src])'
      /\ Other(src)' = Other(src)
  BY <1>1, WithinPass
<1>3. TypeOK /\ DataOK /\ Counted /\ Moved /\ SortedResult
  BY DEF IInv
<1>4. TypeOK'
  BY <1>1, <1>2, <1>3 DEF TypeOK
<1>5. DataOK'
  BY <1>1, <1>2, <1>3 DEF DataOK
<1>6. Counted'
  BY <1>1, <1>2, <1>3 DEF Counted
<1>7. Moved'
  BY <1>1, <1>2, <1>3 DEF Moved
<1>8. SortedResult'
  <2>1. Modulus(Passes)' = Modulus(Passes)
    BY <1>1 DEF Modulus
  <2>2. SortedBy(arr[Other(src)], Modulus(Passes))
          => SortedBy(arr[Other(src)], Modulus(Passes))'
    BY <1>1, <1>2, <2>1 DEF SortedBy, Before
  <2>3. Complete(arr[Other(src)]) => Complete(arr[Other(src)])'
    BY <1>1, <1>2 DEF Complete
  <2> QED BY <1>1, <1>2, <1>3, <2>2, <2>3 DEF SortedResult
<1> QED BY <1>4, <1>5, <1>6, <1>7, <1>8 DEF IInv

(***************************************************************************)
(* The counts, the offsets and the items moved are what they should be in  *)
(* every state of every sort, however the threads interleave.              *)
(***************************************************************************)
THEOREM Invariance == Spec => []IInv
<1>1. Init => IInv
  BY InitInvariant
<1>2. IInv /\ [Next]_vars => IInv'
  <2> SUFFICES ASSUME IInv, [Next]_vars PROVE IInv'
    OBVIOUS
  <2>1. ASSUME NEW t \in Workers, StartCount(t) PROVE IInv'
    BY <2>1, StartCountInvariant
  <2>2. ASSUME NEW t \in Workers, Count(t) PROVE IInv'
    BY <2>2, CountInvariant
  <2>3. ASSUME NEW t \in Workers, Move(t) PROVE IInv'
    BY <2>3, MoveInvariant
  <2>4. CASE MergeCounts
    BY <2>4, MergeInvariant
  <2>5. CASE EndPass
    BY <2>5, EndPassInvariant
  <2>6. CASE Returned
    BY <2>6, StutterInvariant DEF Returned
  <2>7. CASE UNCHANGED vars
    BY <2>7, StutterInvariant
  <2> QED BY <2>1, <2>2, <2>3, <2>4, <2>5, <2>6, <2>7 DEF Next
<1> QED BY <1>1, <1>2, PTL DEF Spec

\* The variables keep their types; no count and no offset exceeds the number of items.
THEOREM TypeCorrect == Spec => []TypeOK
<1>1. IInv => TypeOK
  BY DEF IInv
<1> QED BY <1>1, Invariance, PTL

(***************************************************************************)
(* Every pass starts with the input in the stable order of the digits      *)
(* sorted so far, the result is in the stable order of the masked keys,    *)
(* and no item is moved outside the buffer.                                *)
(***************************************************************************)
THEOREM Sorts == Spec => []SortedResult
<1>1. IInv => SortedResult
  BY DEF IInv
<1> QED BY <1>1, Invariance, PTL

(***************************************************************************)
(* Threads that move items without a lock never write the same place: what *)
(* a thread will write next is the place of an item of its own chunk.      *)
(***************************************************************************)
THEOREM WritesApart == Spec => []PlacesApart
<1>1. IInv => PlacesApart
  <2> SUFFICES ASSUME IInv, phase = "move",
                      NEW t \in Workers, NEW u \in Workers,
                      NEW d \in ToMove(t), NEW e \in ToMove(u),
                      offsets[t][d] = offsets[u][e]
               PROVE  t = u /\ d = e
    BY DEF PlacesApart
  <2>1. TypeOK /\ DataOK /\ Moved
    BY DEF IInv
  <2>2. /\ N \in Nat /\ Positions = 0 .. N - 1
        /\ DigitsOf \in [Positions -> Digits] /\ DigitsOf \in [0 .. N - 1 -> Nat]
    BY <2>1, PassFacts
  <2>3. ASSUME NEW v \in Workers, NEW f \in ToMove(v)
        PROVE  \E i \in 0 .. N - 1 : /\ i \in First(v) .. End(v) - 1
                                     /\ DigitsOf[i] = f
                                     /\ offsets[v][f] = PlaceOf(DigitsOf, N, i)
    <3>1. First(v) \in Nat /\ End(v) \in 0 .. N /\ pos[v] \in First(v) .. End(v)
      <4>1. First(v) \in 0 .. N /\ End(v) \in First(v) .. N
        BY <2>2, ChunkBounds
      <4>2. pos[v] \in First(v) .. End(v)
        BY <2>1 DEF Moved
      <4> QED BY <2>2, <4>1, <4>2
    <3>2. PICK k \in pos[v] .. End(v) - 1 : f = Digit(arr[src][k].key)
      BY DEF ToMove
    <3>3. k \in Positions /\ pos[v] \in 0 .. N
      BY <2>2, <3>1
    <3>4. DigitsOf[k] = f /\ f \in Digits /\ f \in Nat
      BY <2>2, <3>2, <3>3 DEF DigitsOf, Digits
    <3>5. PICK i \in pos[v] .. End(v) - 1 :
            /\ DigitsOf[i] = f
            /\ Cardinality(Below(DigitsOf, N, f, pos[v])) = PlaceOf(DigitsOf, N, i)
      BY <2>2, <3>1, <3>2, <3>3, <3>4, NextItem
    <3>6. offsets[v][f] = Cardinality(Below(DigitsOf, N, f, pos[v]))
      BY <2>1, <3>4 DEF Moved
    <3>7. i \in 0 .. N - 1 /\ i \in First(v) .. End(v) - 1
      BY <2>2, <3>1
    <3> QED BY <3>5, <3>6, <3>7
  <2>4. PICK i \in 0 .. N - 1 : /\ i \in First(t) .. End(t) - 1
                                /\ DigitsOf[i] = d
                                /\ offsets[t][d] = PlaceOf(DigitsOf, N, i)
    BY <2>3
  <2>5. PICK j \in 0 .. N - 1 : /\ j \in First(u) .. End(u) - 1
                                /\ DigitsOf[j] = e
                                /\ offsets[u][e] = PlaceOf(DigitsOf, N, j)
    BY <2>3
  <2>6. i = j
    <3>1. PlaceOf(DigitsOf, N, i) = PlaceOf(DigitsOf, N, j)
      BY <2>4, <2>5
    <3> QED BY <2>2, <3>1, PlacesBijective, Zenon
  <2>7. t = u
    BY <2>2, <2>4, <2>5, <2>6, ChunksDisjoint
  <2> QED BY <2>4, <2>5, <2>6, <2>7
<1> QED BY <1>1, Invariance, PTL
=============================================================================
