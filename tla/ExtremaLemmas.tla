---------------------------- MODULE ExtremaLemmas ----------------------------
(***************************************************************************)
(* Facts about Min and Max of sets of natural numbers, which the models    *)
(* use for every scan to the first or last index with some property.       *)
(***************************************************************************)
EXTENDS FiniteSetsExt, WellFoundedInduction, TLAPS

(***************************************************************************)
(* The least-number principle: Min of a non-empty set of naturals is its   *)
(* least element (a scan for the first index ends at that index).          *)
(***************************************************************************)
LEMMA MinNat ==
  ASSUME NEW S, S \subseteq Nat, S # {}
  PROVE  Min(S) \in S /\ \A y \in S : Min(S) <= y
<1> DEFINE R == {ss \in Nat \X Nat : ss[1] < ss[2]}
<1>1. IsWellFoundedOn(R, Nat)
  BY NatLessThanWellFounded, Zenon DEF OpToRel
<1>2. \E x \in S : \A y \in S : ~ (<<y, x>> \in R)
  <2> HIDE DEF R
  <2> QED BY <1>1, WFMin
<1>3. \E x \in S : \A y \in S : x <= y
  <2>1. PICK x \in S : \A y \in S : ~ (<<y, x>> \in R)
    BY <1>2
  <2>2. ASSUME NEW y \in S PROVE x <= y
    <3>1. x \in Nat /\ y \in Nat
      OBVIOUS
    <3>2. y < x => <<y, x>> \in R
      BY <3>1
    <3> HIDE DEF R
    <3> QED BY <2>1, <3>1, <3>2
  <2> QED BY <2>2
<1> QED BY <1>3 DEF Min

(***************************************************************************)
(* Max of a non-empty set of naturals with an upper bound is its greatest  *)
(* element (a scan down from the bound ends at that index).                *)
(***************************************************************************)
LEMMA MaxNat ==
  ASSUME NEW S, S \subseteq Nat, S # {},
         NEW b \in Nat, \A x \in S : x <= b
  PROVE  Max(S) \in S /\ \A y \in S : y <= Max(S)
<1> DEFINE U == {u \in Nat : \A x \in S : x <= u}
<1>1. U \subseteq Nat /\ U # {}
  OBVIOUS
<1> DEFINE m == Min(U)
<1>2. m \in U /\ \A u \in U : m <= u
  <2> HIDE DEF U
  <2> QED BY <1>1, MinNat
<1> HIDE DEF m
<1>3. m \in S
  <2>1. SUFFICES ASSUME m \notin S PROVE FALSE
    OBVIOUS
  <2>2. PICK x \in S : TRUE
    OBVIOUS
  <2>3. \A y \in S : y < m
    BY <1>2, <2>1
  <2>4. m - 1 \in U
    BY <1>2, <2>2, <2>3
  <2> QED BY <1>2, <2>4
<1>4. \E x \in S : \A y \in S : x >= y
  BY <1>2, <1>3
<1> QED BY <1>4 DEF Max

\* std::min of two numbers.
LEMMA MinPair ==
  ASSUME NEW a \in Nat, NEW b \in Nat
  PROVE  Min({a, b}) = IF a <= b THEN a ELSE b
<1> DEFINE S == {a, b}
<1>1. S \subseteq Nat /\ S # {} /\ a \in S /\ b \in S
  OBVIOUS
<1>2. Min(S) \in S /\ \A y \in S : Min(S) <= y
  <2> HIDE DEF S
  <2> QED BY <1>1, MinNat
<1>3. Min(S) \in {a, b} /\ Min(S) <= a /\ Min(S) <= b
  BY <1>1, <1>2
<1> QED BY <1>3
=============================================================================
