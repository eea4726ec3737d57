------------------------------ MODULE Feistel ------------------------------
(***************************************************************************)
(* The cipher that turns the x bits of a proof into a fragment and back    *)
(* (pos/FeistelCipher.hpp): a block of two halves of K bits goes through   *)
(* four rounds, each keyed by three words that are hashed from the plot    *)
(* id.  The exclusive or and the round keys are constants: the first so    *)
(* that the proofs about the cipher need only what is assumed of it here.  *)
(***************************************************************************)
EXTENDS Integers, Sequences

CONSTANTS
  Plots,          \* plot ids
  K,              \* k_, bits of a half
  Turns,          \* the four rotations of a round, each less than K: 16, 12, 8, 7
  XorOf(_, _),    \* exclusive or of two values of K bits
  RoundKey(_, _)  \* round_key_ of a plot and a round: words b, c and d of K bits

Rounds  == 4
NumXs   == 2 ^ K
Xs      == 0 .. NumXs - 1
Blocks  == 0 .. NumXs * NumXs - 1

\* The words of the round keys are masked to K bits.
ASSUME KeyAssumption ==
  \A plot \in Plots, round \in 0 .. Rounds - 1 :
    /\ RoundKey(plot, round).b \in Xs
    /\ RoundKey(plot, round).c \in Xs
    /\ RoundKey(plot, round).d \in Xs

\* A rotation moves fewer bits than a value has: K is at least 18.
ASSUME TurnAssumption ==
  /\ K \in Nat /\ NumXs \in Nat \ {0}
  /\ \A i \in 1 .. 4 : /\ 2 ^ Turns[i] \in Nat \ {0} /\ 2 ^ (K - Turns[i]) \in Nat \ {0}
                       /\ NumXs = 2 ^ Turns[i] * 2 ^ (K - Turns[i])

\* Exclusive or stays within K bits, and undoes itself.
ASSUME XorAssumption ==
  \A a, b \in Xs : XorOf(a, b) \in Xs /\ XorOf(XorOf(a, b), b) = a

\* rotate_left within K bits
RotateLeft(v, by) == ((v * 2 ^ by) % NumXs) + (v \div 2 ^ (K - by))

\* The two quarter rounds of feistel_round: the word the left half is mixed with.
Mixed(half, key) ==
  LET a1 == (half + key.b) % NumXs
      d1 == RotateLeft(XorOf(key.d, a1), Turns[1])
      c1 == (key.c + d1) % NumXs
      b1 == RotateLeft(XorOf(key.b, c1), Turns[2])
      a2 == (a1 + b1) % NumXs
      d2 == RotateLeft(XorOf(d1, a2), Turns[3])
      c2 == (c1 + d2) % NumXs
  IN  RotateLeft(XorOf(b1, c2), Turns[4])

\* feistel_round
FeistelRound(left, right, key) ==
  [left |-> right, right |-> XorOf(left, Mixed(right, key) % NumXs)]

\* The halves of a block
LeftOfBlock(block)  == (block \div NumXs) % NumXs
RightOfBlock(block) == block % NumXs
BlockOf(halves)     == halves.left * NumXs + halves.right

\* One round forward, and one back: the halves change places around the same round.
Forward(plot, round, h) == FeistelRound(h.left, h.right, RoundKey(plot, round))

Back(plot, round, h) ==
  LET res == FeistelRound(h.right, h.left, RoundKey(plot, round))
  IN  [left |-> res.right, right |-> res.left]

Encrypt(plot, block) ==
  LET h0 == [left |-> LeftOfBlock(block), right |-> RightOfBlock(block)]
      h1 == Forward(plot, 0, h0)
      h2 == Forward(plot, 1, h1)
      h3 == Forward(plot, 2, h2)
  IN  BlockOf(Forward(plot, 3, h3))

Decrypt(plot, block) ==
  LET h4 == [left |-> LeftOfBlock(block), right |-> RightOfBlock(block)]
      h3 == Back(plot, 3, h4)
      h2 == Back(plot, 2, h3)
      h1 == Back(plot, 1, h2)
  IN  BlockOf(Back(plot, 0, h1))
=============================================================================
