---------------------------- MODULE SolverProofs ----------------------------
(***************************************************************************)
(* What is proved about the solver and the codec of its fragments: a       *)
(* fragment gives back the x values' bits, and whatever the solver returns *)
(* the validator accepts.  What it finds is in SolverCompleteProofs.       *)
(***************************************************************************)
EXTENDS Solver, ExtremaLemmas, FiniteSetTheorems, FunctionTheorems

-----------------------------------------------------------------------------
(* The fragments of a proof                                                *)

\* Decrypting gives back what was encrypted, for every K, every plot and every
\* block. The argument needs the shape of a round only: the word that is mixed in
\* depends on the half a round leaves as it is, and the exclusive or takes it out
\* again.

Halves == [left : Xs, right : Xs]

\* A value in two digits of base n gives the digits back.
LEMMA TwoDigits ==
  ASSUME NEW n \in Nat \ {0}, NEW l \in 0 .. n - 1, NEW r \in 0 .. n - 1
  PROVE  /\ ((l * n) + r) \div n = l
         /\ ((l * n) + r) % n = r
         /\ l % n = l
         /\ (l * n) + r \in 0 .. (n * n) - 1
<1>1. l * n \in Nat /\ (l * n) % n = 0 /\ (l * n) \div n = l
  BY SMT
<1>2. ((l * n) + r) \div n = l /\ ((l * n) + r) % n = r
  BY SMT
<1>3. l % n = l
  BY SMT
<1>4. l * n <= (n - 1) * n
  BY SMT
<1>5. (l * n) + r \in 0 .. (n * n) - 1
  BY <1>1, <1>4, SMT
<1> QED
  BY <1>2, <1>3, <1>5, Zenon

\* A number below n * n is made up of its two digits of base n.
LEMMA DigitsOf ==
  ASSUME NEW n \in Nat \ {0}, NEW b \in 0 .. (n * n) - 1
  PROVE  /\ (b \div n) % n \in 0 .. n - 1 /\ b % n \in 0 .. n - 1
         /\ (((b \div n) % n) * n) + (b % n) = b
<1> DEFINE q == b \div n
           r == b % n
<1>1. b = (n * q) + r /\ r \in 0 .. n - 1 /\ q \in Nat
  BY SMT
<1> HIDE DEF q, r
<1>2. q < n
  <2>1. SUFFICES ASSUME q >= n PROVE FALSE
    BY <1>1, SMT
  <2>2. n * q >= n * n
    BY <1>1, <2>1, SMT
  <2> QED
    BY <1>1, <2>2, SMT
<1>3. q % n = q
  BY <1>1, <1>2, SMT
<1>4. q * n = n * q
  BY <1>1, SMT
<1>5. q % n \in 0 .. n - 1 /\ ((q % n) * n) + r = b
  BY <1>1, <1>2, <1>3, <1>4, SMT
<1> QED
  BY <1>1, <1>5, Zenon DEF q, r

\* Turning a value of K bits leaves a value of K bits.
LEMMA TurnStays ==
  ASSUME NEW v \in Xs, NEW i \in 1 .. 4
  PROVE  RotateLeft(v, Turns[i]) \in Xs
<1> DEFINE low  == 2 ^ Turns[i]
           high == 2 ^ (K - Turns[i])
<1>1. low \in Nat \ {0} /\ high \in Nat \ {0} /\ NumXs = low * high
  BY TurnAssumption, Zenon
<1>2. RotateLeft(v, Turns[i]) = ((v * low) % NumXs) + (v \div high)
  BY DEF RotateLeft
<1>3. v \in 0 .. (low * high) - 1
  BY <1>1 DEF Xs
<1> HIDE DEF low, high
<1>4. ASSUME NEW p \in Nat \ {0}, NEW q \in Nat \ {0}, NEW w \in 0 .. (p * q) - 1
      PROVE  ((w * p) % (p * q)) + (w \div q) \in 0 .. (p * q) - 1
  <2> DEFINE d == w \div q
             m == w % q
  <2>1. w = (q * d) + m /\ m \in 0 .. q - 1 /\ d \in Nat
    BY SMT
  <2> HIDE DEF d, m
  <2>2. d < p
    <3>1. SUFFICES ASSUME d >= p PROVE FALSE
      BY <2>1, SMT
    <3>2. q * d >= q * p /\ q * p = p * q
      BY <2>1, <3>1, SMT
    <3> QED
      BY <2>1, <3>2, SMT
  <2>3. w * p = (d * (p * q)) + (m * p)
    BY <2>1, SMT
  <2>4. m * p \in 0 .. (p * q) - p
    <3>1. m * p <= (q - 1) * p /\ m * p >= 0 /\ m * p \in Int
      BY <2>1, SMT
    <3>2. (q - 1) * p = (p * q) - p
      BY SMT
    <3> QED
      BY <3>1, <3>2, SMT
  <2>5. (w * p) % (p * q) = m * p
    <3>1. p * q \in Nat \ {0}
      BY SMT
    <3>2. ASSUME NEW n \in Nat \ {0}, NEW a \in Nat, NEW b \in 0 .. n - 1
          PROVE  ((a * n) + b) % n = b
      BY SMT
    <3> DEFINE n == p * q
               b == m * p
    <3>3. b \in 0 .. n - 1
      BY <2>4, SMT
    <3>4. n \in Nat \ {0} /\ w * p = (d * n) + b
      BY <2>3, <3>1
    <3> HIDE DEF n, b
    <3>5. ((d * n) + b) % n = b
      BY <2>1, <3>2, <3>3, <3>4
    <3> QED
      BY <3>4, <3>5, Zenon DEF n, b
  <2>6. (m * p) + d \in 0 .. (p * q) - 1
    BY <2>1, <2>2, <2>4, SMT
  <2> QED
    BY <2>5, <2>6, Zenon DEF d
<1>5. ((v * low) % (low * high)) + (v \div high) \in 0 .. (low * high) - 1
  BY <1>1, <1>3, <1>4, Zenon
<1> QED
  BY <1>1, <1>2, <1>5, Zenon DEF Xs

\* The word a round mixes in is made of K bit values.
LEMMA MixedStays ==
  ASSUME NEW half \in Xs, NEW key, key.b \in Xs, key.c \in Xs, key.d \in Xs
  PROVE  Mixed(half, key) % NumXs \in Xs
<1> DEFINE a1 == (half + key.b) % NumXs
           d1 == RotateLeft(XorOf(key.d, a1), Turns[1])
           c1 == (key.c + d1) % NumXs
           b1 == RotateLeft(XorOf(key.b, c1), Turns[2])
           a2 == (a1 + b1) % NumXs
           d2 == RotateLeft(XorOf(d1, a2), Turns[3])
           c2 == (c1 + d2) % NumXs
           word == RotateLeft(XorOf(b1, c2), Turns[4])
<1>0. ASSUME NEW x \in Xs, NEW y \in Xs
      PROVE  (x + y) % NumXs \in Xs
  <2>1. NumXs \in Nat \ {0}
    BY TurnAssumption, Zenon
  <2> QED
    BY <2>1, SMT DEF Xs
<1>t. ASSUME NEW x \in Xs, NEW y \in Xs, NEW i \in 1 .. 4
      PROVE  RotateLeft(XorOf(x, y), Turns[i]) \in Xs
  BY TurnStays, XorAssumption, Zenon
<1>i. 1 \in 1 .. 4 /\ 2 \in 1 .. 4 /\ 3 \in 1 .. 4 /\ 4 \in 1 .. 4
  OBVIOUS
<1>1. a1 \in Xs
  BY <1>0
<1>2. d1 \in Xs
  BY <1>1, <1>t, <1>i, Zenon
<1> HIDE DEF a1, d1
<1>3. c1 \in Xs
  BY <1>0, <1>2
<1>4. b1 \in Xs
  BY <1>3, <1>t, <1>i, Zenon
<1> HIDE DEF c1, b1
<1>5. a2 \in Xs
  BY <1>0, <1>1, <1>4
<1>6. d2 \in Xs
  BY <1>2, <1>5, <1>t, <1>i, Zenon
<1> HIDE DEF a2, d2
<1>7. c2 \in Xs
  BY <1>0, <1>3, <1>6
<1>8. word \in Xs
  BY <1>4, <1>7, <1>t, <1>i, Zenon
<1>9. word % NumXs \in Xs
  <2>1. NumXs \in Nat \ {0}
    BY TurnAssumption, Zenon
  <2> HIDE DEF word
  <2> QED
    BY <1>8, <2>1, SMT DEF Xs
<1>10. Mixed(half, key) = word
  BY Zenon DEF Mixed, a1, d1, c1, b1, a2, d2, c2
<1> QED
  BY <1>9, <1>10, Zenon

\* A round leaves halves, and going back undoes it.
LEMMA BackUndoesForward ==
  ASSUME NEW plot \in Plots, NEW round \in 0 .. Rounds - 1, NEW h \in Halves
  PROVE  /\ Forward(plot, round, h) \in Halves
         /\ Back(plot, round, Forward(plot, round, h)) = h
<1> DEFINE word == Mixed(h.right, RoundKey(plot, round)) % NumXs
<1>1. h.left \in Xs /\ h.right \in Xs /\ h = [left |-> h.left, right |-> h.right]
  BY DEF Halves
<1>2. word \in Xs
  BY <1>1, KeyAssumption, MixedStays, Zenon
<1> HIDE DEF word
<1>3. XorOf(h.left, word) \in Xs /\ XorOf(XorOf(h.left, word), word) = h.left
  BY <1>1, <1>2, XorAssumption, Zenon
<1>4. Forward(plot, round, h) = [left |-> h.right, right |-> XorOf(h.left, word)]
  BY DEF Forward, FeistelRound, word
<1>5. Back(plot, round, [left |-> h.right, right |-> XorOf(h.left, word)])
        = [left |-> XorOf(XorOf(h.left, word), word), right |-> h.right]
  BY DEF Back, FeistelRound, word
<1>6. [left |-> h.right, right |-> XorOf(h.left, word)] \in Halves
  BY <1>1, <1>3 DEF Halves
<1> QED
  BY <1>1, <1>3, <1>4, <1>5, <1>6

\* A block that is split into halves, and halves that are put together.
LEMMA HalvesOfBlock ==
  ASSUME NEW block \in Blocks
  PROVE  /\ [left |-> LeftOfBlock(block), right |-> RightOfBlock(block)] \in Halves
         /\ BlockOf([left |-> LeftOfBlock(block), right |-> RightOfBlock(block)]) = block
<1>1. NumXs \in Nat \ {0}
  BY TurnAssumption, Zenon
<1>2. /\ LeftOfBlock(block) \in Xs /\ RightOfBlock(block) \in Xs
      /\ (LeftOfBlock(block) * NumXs) + RightOfBlock(block) = block
  BY <1>1, DigitsOf, Zenon DEF Blocks, Xs, LeftOfBlock, RightOfBlock
<1> QED
  BY <1>2 DEF Halves, BlockOf

LEMMA BlockOfHalves ==
  ASSUME NEW h \in Halves
  PROVE  /\ BlockOf(h) \in Blocks
         /\ [left |-> LeftOfBlock(BlockOf(h)), right |-> RightOfBlock(BlockOf(h))] = h
<1>1. NumXs \in Nat \ {0} /\ h.left \in 0 .. NumXs - 1 /\ h.right \in 0 .. NumXs - 1
  BY TurnAssumption, Zenon DEF Halves, Xs
<1>2. /\ ((h.left * NumXs) + h.right) \div NumXs = h.left
      /\ ((h.left * NumXs) + h.right) % NumXs = h.right
      /\ h.left % NumXs = h.left
      /\ (h.left * NumXs) + h.right \in 0 .. (NumXs * NumXs) - 1
  BY <1>1, TwoDigits, Zenon
<1>3. LeftOfBlock(BlockOf(h)) = h.left /\ RightOfBlock(BlockOf(h)) = h.right
  BY <1>2, Zenon DEF LeftOfBlock, RightOfBlock, BlockOf
<1> QED
  BY <1>2, <1>3 DEF Halves, BlockOf, Blocks

\* Decrypting a fragment gives the block of x bits it was made from, and two blocks of
\* a plot never make the same fragment (FeistelCipher::encrypt and decrypt).
THEOREM DecryptInvertsEncrypt ==
  ASSUME NEW plot \in Plots, NEW block \in Blocks
  PROVE  /\ Encrypt(plot, block) \in Blocks
         /\ Decrypt(plot, Encrypt(plot, block)) = block
<1> DEFINE h0 == [left |-> LeftOfBlock(block), right |-> RightOfBlock(block)]
           h1 == Forward(plot, 0, h0)
           h2 == Forward(plot, 1, h1)
           h3 == Forward(plot, 2, h2)
           h4 == Forward(plot, 3, h3)
<1>0. 0 \in 0 .. Rounds - 1 /\ 1 \in 0 .. Rounds - 1 /\ 2 \in 0 .. Rounds - 1 /\ 3 \in 0 .. Rounds - 1
  BY DEF Rounds
<1>1. h0 \in Halves /\ BlockOf(h0) = block
  BY HalvesOfBlock
<1> HIDE DEF h0
<1>2. h1 \in Halves /\ Back(plot, 0, h1) = h0
  BY <1>0, <1>1, BackUndoesForward, Zenon
<1> HIDE DEF h1
<1>3. h2 \in Halves /\ Back(plot, 1, h2) = h1
  BY <1>0, <1>2, BackUndoesForward, Zenon
<1> HIDE DEF h2
<1>4. h3 \in Halves /\ Back(plot, 2, h3) = h2
  BY <1>0, <1>3, BackUndoesForward, Zenon
<1> HIDE DEF h3
<1>5. h4 \in Halves /\ Back(plot, 3, h4) = h3
  BY <1>0, <1>4, BackUndoesForward, Zenon
<1>6. Encrypt(plot, block) = BlockOf(h4)
  BY Zenon DEF Encrypt, h0, h1, h2, h3
<1> HIDE DEF h4
<1>7. /\ BlockOf(h4) \in Blocks
      /\ [left |-> LeftOfBlock(BlockOf(h4)), right |-> RightOfBlock(BlockOf(h4))] = h4
  BY <1>5, BlockOfHalves
<1>8. Decrypt(plot, BlockOf(h4))
        = BlockOf(Back(plot, 0, Back(plot, 1, Back(plot, 2, Back(plot, 3, h4)))))
  BY <1>7, Zenon DEF Decrypt
<1> QED
  BY <1>1, <1>2, <1>3, <1>4, <1>5, <1>6, <1>7, <1>8, Zenon

\* What is above and what is below the last digit of base n
LEMMA LastDigit ==
  ASSUME NEW n \in Nat \ {0}, NEW a \in Nat, NEW r \in 0 .. n - 1
  PROVE  ((a * n) + r) \div n = a /\ ((a * n) + r) % n = r
<1>1. a * n \in Nat /\ (a * n) % n = 0 /\ (a * n) \div n = a
  BY SMT
<1> QED
  BY <1>1, SMT

FourOf(n, a, b, c, d) == (((((a * n) + b) * n) + c) * n) + d

\* The digits of base n of v, as the code takes them from a block, are a, b, c and d.
DigitsAre(v, n, a, b, c, d) ==
  /\ v \in 0 .. ((n * n) * (n * n)) - 1
  /\ v \div (n * n * n) = a
  /\ (v \div (n * n)) % n = b
  /\ (v \div n) % n = c
  /\ v % n = d

\* Four digits of base n that are put together, and each of them taken out again
LEMMA FourDigits ==
  ASSUME NEW n \in Nat \ {0},
         NEW a \in 0 .. n - 1, NEW b \in 0 .. n - 1, NEW c \in 0 .. n - 1, NEW d \in 0 .. n - 1
  PROVE  DigitsAre(FourOf(n, a, b, c, d), n, a, b, c, d)
<1> DEFINE v == FourOf(n, a, b, c, d)
           ab == (a * n) + b
           cd == (c * n) + d
           sq == n * n
<1>1. ab \in 0 .. sq - 1 /\ cd \in 0 .. sq - 1 /\ sq \in Nat \ {0}
  BY TwoDigits, SMT
<1>2. ab % n = b /\ ab \div n = a /\ cd \div n = c /\ cd % n = d
  BY TwoDigits
<1>3. v = (ab * sq) + cd
  BY SMT DEF FourOf
<1>4. v = (((ab * n) + c) * n) + d /\ (ab * n) + c \in Nat
  BY <1>1, SMT DEF FourOf
<1>5. (v \div n) % n = c /\ v % n = d
  <2> HIDE DEF ab, cd, sq, v
  <2>1. v \div n = (ab * n) + c /\ v % n = d
    BY <1>4, LastDigit
  <2>2. ((ab * n) + c) % n = c
    BY <1>1, LastDigit
  <2> QED
    BY <2>1, <2>2
<1>6. v \in 0 .. (sq * sq) - 1 /\ v \div sq = ab
  <2> HIDE DEF ab, cd, sq, v
  <2> QED
    BY <1>1, <1>3, TwoDigits
<1>7. v \div (n * n * n) = a
  <2> DEFINE cube == n * n * n
             rest == (b * sq) + cd
  <2>1. cube \in Nat \ {0} /\ cube = n * sq
    BY SMT
  <2>2. rest \in 0 .. cube - 1
    <3> HIDE DEF cd, sq, cube, v
    <3>1. b * sq <= (n - 1) * sq /\ b * sq >= 0 /\ b * sq \in Int
      BY <1>1, SMT
    <3>2. (n - 1) * sq = cube - sq
      BY <1>1, <2>1, SMT
    <3> QED
      BY <1>1, <2>1, <3>1, <3>2, SMT
  <2>3. v = (a * cube) + rest
    BY SMT DEF FourOf
  <2> HIDE DEF cube, rest, v
  <2>4. v \div cube = a
    BY <2>1, <2>2, <2>3, LastDigit
  <2> QED
    BY <2>4 DEF cube
<1> HIDE DEF ab, cd, v
<1> QED
  BY <1>2, <1>5, <1>6, <1>7, Zenon DEF v, sq, DigitsAre

\* The upper half of an x value has half the bits.
LEMMA UpperHalf ==
  ASSUME NEW x \in Xs
  PROVE  Upper(x) \in 0 .. HalfXs - 1
<1>1. HalfXs \in Nat \ {0} /\ x \in 0 .. (HalfXs * HalfXs) - 1
  BY ValidatorAssumption DEF Xs
<1>2. ASSUME NEW n \in Nat \ {0}, NEW y \in 0 .. (n * n) - 1
      PROVE  y \div n \in 0 .. n - 1
  <2>1. (y \div n) % n \in 0 .. n - 1 /\ y % n \in 0 .. n - 1
        /\ (((y \div n) % n) * n) + (y % n) = y
    BY DigitsOf
  <2> DEFINE q == (y \div n) % n
             r == y % n
  <2>2. ((q * n) + r) \div n = q
    <3> HIDE DEF q, r
    <3>1. q \in 0 .. n - 1 /\ r \in 0 .. n - 1
      BY <2>1 DEF q, r
    <3> QED
      BY <3>1, TwoDigits
  <2> QED
    BY <2>1, <2>2
<1> QED
  BY <1>1, <1>2, Zenon DEF Upper

\* A fragment gives back the upper halves of the first, third, fifth and seventh x value
\* of the proof it was made from (get_x_bits_from_proof_fragment after encode): the
\* solver always searches the ranges the proof came from.
THEOREM FragmentKeepsBits ==
  ASSUME NEW plot \in Plots, NEW xs \in [1 .. 8 -> Xs]
  PROVE  FragmentBits(plot, EncodeFragment(plot, xs))
           = <<Upper(xs[1]), Upper(xs[3]), Upper(xs[5]), Upper(xs[7])>>
<1> DEFINE bits  == [i \in 1 .. 4 |-> Upper(xs[2 * i - 1])]
           block == PackBits(bits)
           cipher == Encrypt(plot, block)
<1>1. /\ bits[1] = Upper(xs[1]) /\ bits[2] = Upper(xs[3])
      /\ bits[3] = Upper(xs[5]) /\ bits[4] = Upper(xs[7])
  OBVIOUS
<1>2. xs[1] \in Xs /\ xs[3] \in Xs /\ xs[5] \in Xs /\ xs[7] \in Xs
  OBVIOUS
<1>3. \A i \in 1 .. 4 : bits[i] \in 0 .. HalfXs - 1
  <2>1. /\ bits[1] \in 0 .. HalfXs - 1 /\ bits[2] \in 0 .. HalfXs - 1
        /\ bits[3] \in 0 .. HalfXs - 1 /\ bits[4] \in 0 .. HalfXs - 1
    BY <1>1, <1>2, UpperHalf, Zenon
  <2> HIDE DEF bits
  <2> QED
    BY <2>1
<1> HIDE DEF bits
<1>4. /\ bits[1] \in 0 .. HalfXs - 1 /\ bits[2] \in 0 .. HalfXs - 1
      /\ bits[3] \in 0 .. HalfXs - 1 /\ bits[4] \in 0 .. HalfXs - 1
  BY <1>3
<1>5. HalfXs \in Nat \ {0} /\ HalfXs * HalfXs = NumXs
  BY ValidatorAssumption, Zenon
<1>6. block = FourOf(HalfXs, bits[1], bits[2], bits[3], bits[4])
  BY Zenon DEF PackBits, FourOf
<1> HIDE DEF block
<1>7. /\ block \in 0 .. ((HalfXs * HalfXs) * (HalfXs * HalfXs)) - 1
      /\ block \div (HalfXs * HalfXs * HalfXs) = bits[1]
      /\ (block \div (HalfXs * HalfXs)) % HalfXs = bits[2]
      /\ (block \div HalfXs) % HalfXs = bits[3]
      /\ block % HalfXs = bits[4]
  <2>1. HalfXs \in Nat \ {0}
    BY <1>5
  <2>2. DigitsAre(FourOf(HalfXs, bits[1], bits[2], bits[3], bits[4]),
                  HalfXs, bits[1], bits[2], bits[3], bits[4])
    BY <1>4, <2>1, FourDigits, Zenon
  <2> QED
    BY <1>6, <2>2, Zenon DEF DigitsAre
<1>8. block \in Blocks
  BY <1>5, <1>7 DEF Blocks
<1>9. Decrypt(plot, cipher) = block
  BY <1>8, DecryptInvertsEncrypt, Zenon
<1>10. FragmentBits(plot, cipher) = <<bits[1], bits[2], bits[3], bits[4]>>
  <2> HIDE DEF cipher
  <2> QED
    BY <1>7, <1>9, Zenon DEF FragmentBits
<1>11. EncodeFragment(plot, xs) = cipher
  BY Zenon DEF EncodeFragment, block, bits
<1> QED
  BY <1>1, <1>10, <1>11, Zenon

\* Going forward undoes a round back.
LEMMA ForwardUndoesBack ==
  ASSUME NEW plot \in Plots, NEW round \in 0 .. Rounds - 1, NEW h \in Halves
  PROVE  /\ Back(plot, round, h) \in Halves
         /\ Forward(plot, round, Back(plot, round, h)) = h
<1> DEFINE word == Mixed(h.left, RoundKey(plot, round)) % NumXs
<1>1. h.left \in Xs /\ h.right \in Xs /\ h = [left |-> h.left, right |-> h.right]
  BY DEF Halves
<1>2. word \in Xs
  BY <1>1, KeyAssumption, MixedStays, Zenon
<1> HIDE DEF word
<1>3. XorOf(h.right, word) \in Xs /\ XorOf(XorOf(h.right, word), word) = h.right
  BY <1>1, <1>2, XorAssumption, Zenon
<1>4. Back(plot, round, h) = [left |-> XorOf(h.right, word), right |-> h.left]
  BY DEF Back, FeistelRound, word
<1>5. Forward(plot, round, [left |-> XorOf(h.right, word), right |-> h.left])
        = [left |-> h.left, right |-> XorOf(XorOf(h.right, word), word)]
  BY DEF Forward, FeistelRound, word
<1>6. [left |-> XorOf(h.right, word), right |-> h.left] \in Halves
  BY <1>1, <1>3 DEF Halves
<1> QED
  BY <1>1, <1>3, <1>4, <1>5, <1>6

\* Encrypting gives back what was decrypted: every block is a fragment of some x bits
\* (FeistelCipher::decrypt and encrypt).
THEOREM EncryptInvertsDecrypt ==
  ASSUME NEW plot \in Plots, NEW block \in Blocks
  PROVE  /\ Decrypt(plot, block) \in Blocks
         /\ Encrypt(plot, Decrypt(plot, block)) = block
<1> DEFINE h4 == [left |-> LeftOfBlock(block), right |-> RightOfBlock(block)]
           h3 == Back(plot, 3, h4)
           h2 == Back(plot, 2, h3)
           h1 == Back(plot, 1, h2)
           h0 == Back(plot, 0, h1)
<1>0. 0 \in 0 .. Rounds - 1 /\ 1 \in 0 .. Rounds - 1 /\ 2 \in 0 .. Rounds - 1 /\ 3 \in 0 .. Rounds - 1
  BY DEF Rounds
<1>1. h4 \in Halves /\ BlockOf(h4) = block
  BY HalvesOfBlock
<1> HIDE DEF h4
<1>2. h3 \in Halves /\ Forward(plot, 3, h3) = h4
  BY <1>0, <1>1, ForwardUndoesBack, Zenon
<1> HIDE DEF h3
<1>3. h2 \in Halves /\ Forward(plot, 2, h2) = h3
  BY <1>0, <1>2, ForwardUndoesBack, Zenon
<1> HIDE DEF h2
<1>4. h1 \in Halves /\ Forward(plot, 1, h1) = h2
  BY <1>0, <1>3, ForwardUndoesBack, Zenon
<1> HIDE DEF h1
<1>5. h0 \in Halves /\ Forward(plot, 0, h0) = h1
  BY <1>0, <1>4, ForwardUndoesBack, Zenon
<1>6. Decrypt(plot, block) = BlockOf(h0)
  BY Zenon DEF Decrypt, h0, h1, h2, h3, h4
<1> HIDE DEF h0
<1>7. /\ BlockOf(h0) \in Blocks
      /\ [left |-> LeftOfBlock(BlockOf(h0)), right |-> RightOfBlock(BlockOf(h0))] = h0
  BY <1>5, BlockOfHalves
<1>8. Encrypt(plot, BlockOf(h0))
        = BlockOf(Forward(plot, 3, Forward(plot, 2, Forward(plot, 1, Forward(plot, 0, h0)))))
  BY <1>7, Zenon DEF Encrypt
<1> QED
  BY <1>1, <1>2, <1>3, <1>4, <1>5, <1>6, <1>7, <1>8, Zenon

\* The four digits of base n of a number make it up.
LEMMA DigitsMake ==
  ASSUME NEW n \in Nat \ {0}, NEW v \in Nat
  PROVE  FourOf(n, v \div (n * n * n), (v \div (n * n)) % n, (v \div n) % n, v % n) = v
<1> DEFINE q1 == v \div n
           r1 == v % n
           q2 == q1 \div n
           r2 == q1 % n
           q3 == q2 \div n
           r3 == q2 % n
<1>0. ASSUME NEW a \in Nat PROVE a = ((a \div n) * n) + (a % n) /\ a \div n \in Nat /\ a % n \in 0 .. n - 1
  <2>1. a = (n * (a \div n)) + (a % n) /\ a \div n \in Nat /\ a % n \in 0 .. n - 1
    BY SMT
  <2> QED
    BY <2>1, SMT
<1>1. v = (q1 * n) + r1 /\ q1 \in Nat /\ r1 \in 0 .. n - 1
  BY <1>0
<1> HIDE DEF q1, r1
<1>2. q1 = (q2 * n) + r2 /\ q2 \in Nat /\ r2 \in 0 .. n - 1
  BY <1>0, <1>1
<1> HIDE DEF q2, r2
<1>3. q2 = (q3 * n) + r3 /\ q3 \in Nat /\ r3 \in 0 .. n - 1
  BY <1>0, <1>2
<1> HIDE DEF q3, r3
<1> DEFINE sq == n * n
           cube == n * n * n
<1>4. sq \in Nat \ {0} /\ cube \in Nat \ {0} /\ cube = sq * n
  BY SMT
<1>5. v \div sq = q2
  <2> DEFINE rest == (r2 * n) + r1
  <2>1. v = (q2 * sq) + rest
    BY <1>1, <1>2, SMT
  <2>2. rest \in 0 .. sq - 1
    BY <1>1, <1>2, TwoDigits
  <2> HIDE DEF sq, rest
  <2> QED
    BY <1>2, <1>4, <2>1, <2>2, LastDigit
<1>6. v \div cube = q3
  <2> DEFINE low == (r2 * n) + r1
             rest == (r3 * sq) + low
  <2>1. low \in 0 .. sq - 1
    BY <1>1, <1>2, TwoDigits
  <2>2. v = (q3 * cube) + rest
    BY <1>1, <1>2, <1>3, SMT
  <2>3. rest \in 0 .. cube - 1
    <3> HIDE DEF low, sq, cube
    <3>1. r3 * sq <= (n - 1) * sq /\ r3 * sq >= 0 /\ r3 * sq \in Int
      BY <1>3, <1>4, SMT
    <3>2. (n - 1) * sq = cube - sq
      BY <1>4, SMT
    <3> QED
      BY <1>4, <2>1, <3>1, <3>2, SMT
  <2> HIDE DEF cube, rest
  <2> QED
    BY <1>3, <1>4, <2>2, <2>3, LastDigit
<1>7. FourOf(n, q3, r3, r2, r1) = v
  BY <1>1, <1>2, <1>3, Zenon DEF FourOf
<1> QED
  BY <1>5, <1>6, <1>7 DEF q1, r1, r2, r3, sq, cube

\* x values with the upper halves a fragment names encode to that fragment: what the
\* solver puts together from the ranges of a fragment has the quality string it came from.
THEOREM FragmentOfBits ==
  ASSUME NEW plot \in Plots, NEW fragment \in Blocks, NEW xs,
         <<Upper(xs[1]), Upper(xs[3]), Upper(xs[5]), Upper(xs[7])>> = FragmentBits(plot, fragment)
  PROVE  EncodeFragment(plot, xs) = fragment
<1> DEFINE bits  == [i \in 1 .. 4 |-> Upper(xs[2 * i - 1])]
           block == Decrypt(plot, fragment)
           n == HalfXs
<1>1. /\ bits[1] = Upper(xs[1]) /\ bits[2] = Upper(xs[3])
      /\ bits[3] = Upper(xs[5]) /\ bits[4] = Upper(xs[7])
  OBVIOUS
<1>2. block \in Blocks /\ Encrypt(plot, block) = fragment
  BY EncryptInvertsDecrypt
<1>3. block \in Nat /\ n \in Nat \ {0}
  BY <1>2, ValidatorAssumption DEF Blocks
<1>4. EncodeFragment(plot, xs) = Encrypt(plot, PackBits(bits))
  BY Zenon DEF EncodeFragment
<1> HIDE DEF bits, block
<1>5. FragmentBits(plot, fragment)
        = <<block \div (n * n * n), (block \div (n * n)) % n, (block \div n) % n, block % n>>
  BY Zenon DEF FragmentBits, block
<1> HIDE DEF n
<1>6. /\ bits[1] = block \div (n * n * n) /\ bits[2] = (block \div (n * n)) % n
      /\ bits[3] = (block \div n) % n /\ bits[4] = block % n
  BY <1>1, <1>5
<1>7. PackBits(bits) = FourOf(n, bits[1], bits[2], bits[3], bits[4])
  BY Zenon DEF PackBits, FourOf, n
<1>8. PackBits(bits) = block
  BY <1>3, <1>6, <1>7, DigitsMake
<1> QED
  BY <1>2, <1>4, <1>8

-----------------------------------------------------------------------------
(* Numbers: induction, and functions defined by it                         *)

\* A set with 0 that has with every number the next one has all of them.
LEMMA Inductive ==
  ASSUME NEW S, 0 \in S, \A n \in Nat : n \in S => n + 1 \in S
  PROVE  \A n \in Nat : n \in S
<1> DEFINE U == {n \in Nat : n \notin S}
<1>1. SUFFICES ASSUME U # {} PROVE FALSE
  OBVIOUS
<1>2. U \subseteq Nat
  OBVIOUS
<1> DEFINE m == Min(U)
<1>3. m \in U /\ \A y \in U : m <= y
  <2> HIDE DEF U
  <2> QED BY <1>1, <1>2, MinNat
<1> HIDE DEF m
<1>4. m \in Nat /\ m # 0 /\ m \notin S
  BY <1>3
<1>5. m - 1 \in Nat /\ m - 1 \notin U /\ (m - 1) + 1 = m
  BY <1>3, <1>4
<1>6. m - 1 \in S
  BY <1>5
<1> QED BY <1>4, <1>5, <1>6

\* What a function is that is defined by a first value and a step from each
\* value to the next.
Follows(f, top, V, v0, step) ==
  /\ f \in [0 .. top -> V]
  /\ f[0] = v0
  /\ \A m \in 0 .. top - 1 : f[m + 1] = step[<<m + 1, f[m]>>]

\* Two such functions agree where both are defined.
LEMMA FollowsAgree ==
  ASSUME NEW V, NEW v0, NEW step, NEW a \in Nat, NEW b \in Nat, NEW f, NEW g,
         Follows(f, a, V, v0, step), Follows(g, b, V, v0, step)
  PROVE  \A i \in Nat : i <= a /\ i <= b => f[i] = g[i]
<1> DEFINE S == {i \in Nat : i <= a /\ i <= b => f[i] = g[i]}
<1>1. 0 \in S
  BY DEF Follows
<1>2. ASSUME NEW n \in Nat, n \in S PROVE n + 1 \in S
  <2>1. SUFFICES ASSUME n + 1 <= a, n + 1 <= b PROVE f[n + 1] = g[n + 1]
    OBVIOUS
  <2>2. n \in 0 .. a - 1 /\ n \in 0 .. b - 1 /\ f[n] = g[n]
    BY <1>2, <2>1
  <2>3. f[n + 1] = step[<<n + 1, f[n]>>] /\ g[n + 1] = step[<<n + 1, g[n]>>]
    BY <2>2 DEF Follows
  <2> QED BY <2>2, <2>3
<1>3. \A n \in Nat : n \in S
  <2> HIDE DEF S
  <2> QED BY <1>1, <1>2, Inductive
<1> QED BY <1>3

\* There is one up to every number.
LEMMA FollowsUpTo ==
  ASSUME NEW V, NEW v0 \in V, NEW step \in [Nat \X V -> V]
  PROVE  \A n \in Nat : \E f : Follows(f, n, V, v0, step)
<1> DEFINE S == {n \in Nat : \E f : Follows(f, n, V, v0, step)}
<1>1. 0 \in S
  <2>1. Follows([i \in 0 .. 0 |-> v0], 0, V, v0, step)
    BY DEF Follows
  <2> QED BY <2>1
<1>2. ASSUME NEW n \in Nat, n \in S PROVE n + 1 \in S
  <2>1. PICK f : Follows(f, n, V, v0, step)
    BY <1>2
  <2> DEFINE w == step[<<n + 1, f[n]>>]
             g == [i \in 0 .. n + 1 |-> IF i = n + 1 THEN w ELSE f[i]]
  <2>2. f[n] \in V
    BY <2>1 DEF Follows
  <2>3. w \in V
    BY <2>2
  <2> HIDE DEF w
  <2>4. g \in [0 .. n + 1 -> V]
    BY <2>1, <2>3 DEF Follows
  <2>5. g[0] = v0
    BY <2>1 DEF Follows
  <2>6. ASSUME NEW m \in 0 .. (n + 1) - 1 PROVE g[m + 1] = step[<<m + 1, g[m]>>]
    <3>1. m \in 0 .. n /\ g[m] = f[m]
      OBVIOUS
    <3>2. CASE m = n
      <4>1. g[n + 1] = w /\ g[n] = f[n]
        OBVIOUS
      <4> QED BY <3>2, <4>1 DEF w
    <3>3. CASE m # n
      <4>1. m \in 0 .. n - 1 /\ m + 1 \in 0 .. n /\ m + 1 # n + 1
        BY <3>1, <3>3
      <4>2. g[m + 1] = f[m + 1]
        BY <4>1
      <4>3. f[m + 1] = step[<<m + 1, f[m]>>]
        BY <2>1, <4>1 DEF Follows
      <4> QED BY <3>1, <4>2, <4>3
    <3> QED BY <3>2, <3>3
  <2>7. Follows(g, n + 1, V, v0, step)
    <3> HIDE DEF g
    <3> QED BY <2>4, <2>5, <2>6 DEF Follows
  <2> QED BY <2>7
<1>3. \A n \in Nat : n \in S
  <2> HIDE DEF S
  <2> QED BY <1>1, <1>2, Inductive
<1> QED BY <1>3

\* A first value and a step define a function on the naturals.
Unrolls(f, V, v0, step) ==
  /\ f \in [Nat -> V]
  /\ f[0] = v0
  /\ \A n \in Nat : f[n + 1] = step[<<n + 1, f[n]>>]

\* There is such a function.
LEMMA PrimitiveRecursion ==
  ASSUME NEW V, NEW v0 \in V, NEW step \in [Nat \X V -> V]
  PROVE  \E f : Unrolls(f, V, v0, step)
<1> DEFINE Upto(n) == CHOOSE f : Follows(f, n, V, v0, step)
           f == [n \in Nat |-> Upto(n)[n]]
<1>1. \A n \in Nat : Follows(Upto(n), n, V, v0, step)
  BY FollowsUpTo
<1> HIDE DEF Upto
<1>2. f \in [Nat -> V]
  <2>1. ASSUME NEW n \in Nat PROVE Upto(n)[n] \in V
    BY <1>1 DEF Follows
  <2> QED BY <2>1
<1>3. f[0] = v0
  BY <1>1 DEF Follows
<1>4. ASSUME NEW n \in Nat PROVE f[n + 1] = step[<<n + 1, f[n]>>]
  <2>1. Follows(Upto(n), n, V, v0, step) /\ Follows(Upto(n + 1), n + 1, V, v0, step)
    BY <1>1
  <2>2. Upto(n)[n] = Upto(n + 1)[n]
    <3>1. \A i \in Nat : i <= n /\ i <= n + 1 => Upto(n)[i] = Upto(n + 1)[i]
      BY <2>1, FollowsAgree, n + 1 \in Nat
    <3> QED BY <3>1
  <2>3. Upto(n + 1)[n + 1] = step[<<n + 1, Upto(n + 1)[n]>>]
    BY <2>1 DEF Follows
  <2>4. f[n + 1] = Upto(n + 1)[n + 1] /\ f[n] = Upto(n)[n]
    OBVIOUS
  <2> QED BY <2>2, <2>3, <2>4
<1>5. Unrolls(f, V, v0, step)
  <2> HIDE DEF f
  <2> QED BY <1>2, <1>3, <1>4 DEF Unrolls
<1> QED BY <1>5

-----------------------------------------------------------------------------
(* Lists: every entry by the number of those before it                     *)

\* A strict total order, as a set of pairs.
Orders(R, S) ==
  /\ \A i \in S : <<i, i>> \notin R
  /\ \A i, j \in S : i # j => <<i, j>> \in R \/ <<j, i>> \in R
  /\ \A i, j, k \in S : <<i, j>> \in R /\ <<j, k>> \in R => <<i, k>> \in R

\* How many come before one.
Rank(R, S, i) == Cardinality({j \in S : <<j, i>> \in R})

\* A later one has more before it.
LEMMA RankGrows ==
  ASSUME NEW S, IsFiniteSet(S), NEW R, Orders(R, S)
  PROVE  /\ \A i \in S : Rank(R, S, i) \in Nat /\ Rank(R, S, i) < Cardinality(S)
         /\ \A i, j \in S : <<i, j>> \in R => Rank(R, S, i) < Rank(R, S, j)
<1> DEFINE Below(i) == {j \in S : <<j, i>> \in R}
<1>1. Cardinality(S) \in Nat
  BY FS_CardinalityType
<1>2. \A i \in S : IsFiniteSet(Below(i)) /\ Cardinality(Below(i)) \in Nat
  <2>1. ASSUME NEW i \in S PROVE IsFiniteSet(Below(i)) /\ Cardinality(Below(i)) \in Nat
    <3>1. Below(i) \in SUBSET S
      OBVIOUS
    <3> HIDE DEF Below
    <3> QED BY <3>1, FS_Subset, FS_CardinalityType
  <2> QED BY <2>1
<1>3. ASSUME NEW i \in S PROVE Cardinality(Below(i)) < Cardinality(S)
  <2>1. Below(i) \in SUBSET S /\ i \notin Below(i)
    BY DEF Orders
  <2> HIDE DEF Below
  <2>2. Cardinality(Below(i)) <= Cardinality(S) /\ (Cardinality(S) = Cardinality(Below(i)) => S = Below(i))
    BY <2>1, FS_Subset
  <2> QED BY <1>1, <1>2, <2>1, <2>2
<1>4. ASSUME NEW i \in S, NEW j \in S, <<i, j>> \in R
      PROVE  Cardinality(Below(i)) < Cardinality(Below(j))
  <2>1. i \in Below(j) /\ i \notin Below(i)
    BY <1>4 DEF Orders
  <2>2. Below(i) \in SUBSET Below(j)
    BY <1>4 DEF Orders
  <2> HIDE DEF Below
  <2>3. /\ Cardinality(Below(i)) <= Cardinality(Below(j))
        /\ Cardinality(Below(j)) = Cardinality(Below(i)) => Below(j) = Below(i)
    BY <1>2, <2>2, FS_Subset
  <2> QED BY <1>2, <2>1, <2>3
<1> QED
  <2>1. \A i \in S : Rank(R, S, i) = Cardinality(Below(i))
    BY DEF Rank
  <2> HIDE DEF Below
  <2> QED BY <1>2, <1>3, <1>4, <2>1

\* Every place is that of exactly one, and the order of the places is theirs.
Ranked(R, S, n) ==
  /\ n \in Nat
  /\ \A i \in S : Rank(R, S, i) \in 0 .. n - 1
  /\ \A i, j \in S : <<i, j>> \in R <=> Rank(R, S, i) < Rank(R, S, j)
  /\ \A i, j \in S : Rank(R, S, i) = Rank(R, S, j) => i = j
  /\ \A a \in 1 .. n : \E i \in S : Rank(R, S, i) = a - 1

\* By a total order, the number of elements before each is its place.
LEMMA Ranks ==
  ASSUME NEW S, IsFiniteSet(S), NEW R, Orders(R, S)
  PROVE  Ranked(R, S, Cardinality(S))
<1>1. Cardinality(S) \in Nat
  BY FS_CardinalityType
<1> DEFINE N == Cardinality(S)
           r == [i \in S |-> Rank(R, S, i)]
<1>2. \A i \in S : Rank(R, S, i) \in Nat /\ Rank(R, S, i) < N
  BY RankGrows
<1>3. \A i, j \in S : <<i, j>> \in R => Rank(R, S, i) < Rank(R, S, j)
  BY RankGrows
<1>4. ASSUME NEW i \in S, NEW j \in S, i # j PROVE Rank(R, S, i) # Rank(R, S, j)
  <2>1. <<i, j>> \in R \/ <<j, i>> \in R
    BY <1>4 DEF Orders
  <2> QED BY <1>2, <1>3, <2>1
<1>5. ASSUME NEW i \in S, NEW j \in S, Rank(R, S, i) < Rank(R, S, j) PROVE <<i, j>> \in R
  <2>1. i # j /\ <<j, i>> \notin R
    BY <1>2, <1>3, <1>5
  <2> QED BY <2>1 DEF Orders
<1>n. N \in Nat
  BY <1>1
<1> HIDE DEF N
<1>6. r \in Injection(S, 0 .. N - 1)
  BY <1>2, <1>4, <1>n DEF Injection, IsInjective
<1>7. IsFiniteSet(0 .. N - 1) /\ Cardinality(0 .. N - 1) = N
  <2>1. N \in Nat
    BY <1>1 DEF N
  <2>2. IsFiniteSet(0 .. N - 1) /\ Cardinality(0 .. N - 1) = IF 0 > N - 1 THEN 0 ELSE (N - 1) - 0 + 1
    BY <2>1, FS_Interval
  <2> QED BY <2>1, <2>2
<1>8. r \in Surjection(S, 0 .. N - 1)
  <2> HIDE DEF r
  <2> QED BY <1>6, <1>7, FS_Injection DEF N
<1>9. ASSUME NEW n \in 1 .. N PROVE \E i \in S : Rank(R, S, i) = n - 1
  <2>1. n - 1 \in 0 .. N - 1
    BY <1>1 DEF N
  <2>2. \E i \in S : r[i] = n - 1
    BY <1>8, <2>1 DEF Surjection
  <2> QED BY <2>2
<1> QED BY <1>1, <1>2, <1>3, <1>4, <1>5, <1>9 DEF N, Ranked

\* A list that gives the numbers of a set, the lowest first.
Lists(o, S) ==
  /\ Cardinality(S) \in Nat
  /\ o \in [1 .. Cardinality(S) -> S]
  /\ \A a, b \in 1 .. Cardinality(S) : a < b => o[a] < o[b]
  /\ \A i \in S : \E a \in 1 .. Cardinality(S) : o[a] = i

\* InOrder lists a finite set of numbers, each once and in order.
LEMMA InOrderLists ==
  ASSUME NEW S, S \subseteq Nat, IsFiniteSet(S)
  PROVE  Lists(InOrder(S), S)
<1> DEFINE R == {p \in S \X S : p[1] < p[2]}
           N == Cardinality(S)
<1>1. Orders(R, S)
  <2>1. \A i, j \in S : <<i, j>> \in R <=> i < j
    OBVIOUS
  <2> HIDE DEF R
  <2> QED BY <2>1 DEF Orders
<1>2. \A i \in S : Rank(R, S, i) = Cardinality({j \in S : j < i})
  <2>1. ASSUME NEW i \in S PROVE {j \in S : <<j, i>> \in R} = {j \in S : j < i}
    OBVIOUS
  <2> HIDE DEF R
  <2> QED BY <2>1 DEF Rank
<1>3. \A i, j \in S : <<i, j>> \in R <=> i < j
  OBVIOUS
<1> HIDE DEF R
<1>4. /\ N \in Nat
      /\ \A i \in S : Rank(R, S, i) \in 0 .. N - 1
      /\ \A i, j \in S : <<i, j>> \in R <=> Rank(R, S, i) < Rank(R, S, j)
      /\ \A i, j \in S : Rank(R, S, i) = Rank(R, S, j) => i = j
      /\ \A n \in 1 .. N : \E i \in S : Rank(R, S, i) = n - 1
  <2>1. Ranked(R, S, N)
    BY <1>1, Ranks DEF N
  <2> QED BY <2>1 DEF Ranked
<1> DEFINE Nth(n) == CHOOSE i \in S : Cardinality({j \in S : j < i}) = n - 1
           o == [n \in 1 .. N |-> Nth(n)]
<1>5. InOrder(S) = o
  BY DEF InOrder, N
<1> HIDE DEF N
<1>6. ASSUME NEW n \in 1 .. N PROVE Nth(n) \in S /\ Rank(R, S, Nth(n)) = n - 1
  <2>1. \E i \in S : Cardinality({j \in S : j < i}) = n - 1
    BY <1>2, <1>4
  <2>2. Nth(n) \in S /\ Cardinality({j \in S : j < Nth(n)}) = n - 1
    BY <2>1
  <2> HIDE DEF Nth
  <2> QED BY <1>2, <2>2
<1> HIDE DEF Nth
<1>7. o \in [1 .. N -> S] /\ \A n \in 1 .. N : o[n] \in S /\ Rank(R, S, o[n]) = n - 1
  BY <1>6
<1> HIDE DEF o
<1>8. ASSUME NEW a \in 1 .. N, NEW b \in 1 .. N, a < b PROVE o[a] < o[b]
  <2>1. o[a] \in S /\ Rank(R, S, o[a]) = a - 1 /\ o[b] \in S /\ Rank(R, S, o[b]) = b - 1
    BY <1>7
  <2>2. Rank(R, S, o[a]) < Rank(R, S, o[b])
    BY <1>4, <1>8, <2>1
  <2>3. <<o[a], o[b]>> \in R
    BY <1>4, <2>1, <2>2
  <2> QED BY <1>3, <2>1, <2>3
<1>9. ASSUME NEW i \in S PROVE \E a \in 1 .. N : o[a] = i
  <2> DEFINE n == Rank(R, S, i) + 1
  <2>1. n \in 1 .. N /\ n - 1 = Rank(R, S, i)
    BY <1>4
  <2> HIDE DEF n
  <2>2. Rank(R, S, o[n]) = n - 1 /\ o[n] \in S
    BY <1>7, <2>1
  <2> QED BY <1>4, <2>1, <2>2
<1> QED BY <1>4, <1>5, <1>7, <1>8, <1>9 DEF Lists, N

\* What sorting by hash does to a list: it puts every entry in one place, and
\* no hash before a smaller one.
Sorts(list, n, p) ==
  /\ p \in [1 .. n -> 1 .. n]
  /\ \A i \in 1 .. n : \E a \in 1 .. n : p[a] = i
  /\ \A a, b \in 1 .. n : p[a] = p[b] => a = b
  /\ \A a, b \in 1 .. n : a <= b => list[p[a]].hash <= list[p[b]].hash

\* SortedByHash rearranges a list and leaves it sorted by hash.
LEMMA SortedByHashSorts ==
  ASSUME NEW list, NEW n \in Nat, DOMAIN list = 1 .. n,
         \A i \in 1 .. n : list[i].hash \in Nat
  PROVE  \E p : Sorts(list, n, p) /\ SortedByHash(list) = [a \in 1 .. n |-> list[p[a]]]
<1> DEFINE h(i) == list[i].hash
           N == 1 .. n
           Before(i, j) == h(i) < h(j) \/ (h(i) = h(j) /\ i < j)
           R == {q \in N \X N : Before(q[1], q[2])}
<1>1. \A i \in N : h(i) \in Nat
  OBVIOUS
<1> HIDE DEF h
<1>2. \A i, j \in N : <<i, j>> \in R <=> Before(i, j)
  OBVIOUS
<1> HIDE DEF R
<1>3. Orders(R, N)
  <2>1. \A i \in N : ~ Before(i, i)
    BY <1>1
  <2>2. \A i, j \in N : i # j => Before(i, j) \/ Before(j, i)
    BY <1>1
  <2>3. \A i, j, k \in N : Before(i, j) /\ Before(j, k) => Before(i, k)
    BY <1>1
  <2> HIDE DEF Before, N
  <2>4. \A i \in N : <<i, i>> \notin R
    BY <1>2, <2>1
  <2>5. \A i, j \in N : i # j => <<i, j>> \in R \/ <<j, i>> \in R
    BY <1>2, <2>2
  <2>6. \A i, j, k \in N : <<i, j>> \in R /\ <<j, k>> \in R => <<i, k>> \in R
    BY <1>2, <2>3
  <2> QED BY <2>4, <2>5, <2>6 DEF Orders
<1>4. IsFiniteSet(N) /\ Cardinality(N) = n
  <2>1. IsFiniteSet(1 .. n) /\ Cardinality(1 .. n) = IF 1 > n THEN 0 ELSE n - 1 + 1
    BY FS_Interval, 1 \in Int, n \in Int
  <2>2. (IF 1 > n THEN 0 ELSE n - 1 + 1) = n
    OBVIOUS
  <2> QED BY <2>1, <2>2
<1>5. /\ \A i \in N : Rank(R, N, i) \in 0 .. n - 1
      /\ \A i, j \in N : <<i, j>> \in R <=> Rank(R, N, i) < Rank(R, N, j)
      /\ \A i, j \in N : Rank(R, N, i) = Rank(R, N, j) => i = j
      /\ \A a \in 1 .. n : \E i \in N : Rank(R, N, i) = a - 1
  <2> HIDE DEF N
  <2>1. Ranked(R, N, Cardinality(N))
    BY <1>3, <1>4, Ranks
  <2>2. Ranked(R, N, n)
    BY <1>4, <2>1
  <2> QED BY <2>2 DEF Ranked
<1>6. \A i \in N : Rank(R, N, i) = Cardinality({j \in N : Before(j, i)})
  <2>1. ASSUME NEW i \in N PROVE {j \in N : <<j, i>> \in R} = {j \in N : Before(j, i)}
    BY <1>2
  <2> HIDE DEF Before
  <2> QED BY <2>1 DEF Rank
<1> DEFINE Nth(a) == CHOOSE i \in N : Cardinality({j \in N : Before(j, i)}) = a - 1
           p == [a \in 1 .. n |-> Nth(a)]
<1>7. SortedByHash(list) = [a \in N |-> list[Nth(a)]]
  BY DEF SortedByHash, h
<1>8. ASSUME NEW a \in 1 .. n PROVE Nth(a) \in N /\ Rank(R, N, Nth(a)) = a - 1
  <2>1. \E i \in N : Cardinality({j \in N : Before(j, i)}) = a - 1
    BY <1>5, <1>6
  <2> HIDE DEF Before, N
  <2>2. Nth(a) \in N /\ Cardinality({j \in N : Before(j, Nth(a))}) = a - 1
    BY <2>1
  <2> HIDE DEF Nth
  <2> QED BY <1>6, <2>2
<1> HIDE DEF Nth
<1>9. p \in [1 .. n -> 1 .. n] /\ \A a \in 1 .. n : p[a] = Nth(a)
  BY <1>8
<1>10. \A i \in 1 .. n : \E a \in 1 .. n : p[a] = i
  <2>1. ASSUME NEW i \in 1 .. n PROVE \E a \in 1 .. n : p[a] = i
    <3> DEFINE a == Rank(R, N, i) + 1
    <3>1. a \in 1 .. n /\ a - 1 = Rank(R, N, i)
      BY <1>5
    <3> HIDE DEF a
    <3>2. Nth(a) \in N /\ Rank(R, N, Nth(a)) = Rank(R, N, i)
      BY <1>8, <3>1
    <3>3. Nth(a) = i
      BY <1>5, <3>2
    <3> QED BY <1>9, <3>1, <3>3
  <2> QED BY <2>1
<1>11. \A a, b \in 1 .. n : p[a] = p[b] => a = b
  <2>1. ASSUME NEW a \in 1 .. n, NEW b \in 1 .. n, p[a] = p[b] PROVE a = b
    <3>1. Rank(R, N, Nth(a)) = a - 1 /\ Rank(R, N, Nth(b)) = b - 1
      BY <1>8
    <3>2. Nth(a) = Nth(b)
      BY <1>9, <2>1
    <3> QED BY <3>1, <3>2
  <2> QED BY <2>1
<1>12. \A a, b \in 1 .. n : a <= b => list[p[a]].hash <= list[p[b]].hash
  <2>1. ASSUME NEW a \in 1 .. n, NEW b \in 1 .. n, a <= b PROVE h(Nth(a)) <= h(Nth(b))
    <3>1. Rank(R, N, Nth(a)) = a - 1 /\ Rank(R, N, Nth(b)) = b - 1 /\ Nth(a) \in N /\ Nth(b) \in N
      BY <1>8
    <3>2. CASE a = b
      BY <1>1, <3>1, <3>2
    <3>3. CASE a < b
      <4>1. Rank(R, N, Nth(a)) < Rank(R, N, Nth(b))
        BY <3>1, <3>3
      <4>2. <<Nth(a), Nth(b)>> \in R
        BY <1>5, <3>1, <4>1
      <4>3. Before(Nth(a), Nth(b))
        BY <1>2, <3>1, <4>2
      <4> QED BY <1>1, <3>1, <4>3
    <3> QED BY <2>1, <3>2, <3>3
  <2> QED BY <1>9, <2>1 DEF h
<1>13. SortedByHash(list) = [a \in 1 .. n |-> list[p[a]]]
  BY <1>7, <1>9
<1> HIDE DEF p
<1>14. Sorts(list, n, p)
  BY <1>9, <1>10, <1>11, <1>12 DEF Sorts
<1> QED BY <1>13, <1>14

-----------------------------------------------------------------------------
(* Sizes                                                                   *)

\* A number is its quotient and its remainder.
LEMMA Quotient ==
  ASSUME NEW a \in Nat, NEW d \in Nat \ {0}
  PROVE  /\ a \div d \in Nat /\ a % d \in 0 .. d - 1
         /\ a = (d * (a \div d)) + (a % d)
  OBVIOUS

\* There is only one way to write it so.
LEMMA OneQuotient ==
  ASSUME NEW d \in Nat \ {0}, NEW q \in Nat, NEW r \in 0 .. d - 1, NEW a \in Nat, a = (d * q) + r
  PROVE  a \div d = q /\ a % d = r
<1>1. ((q * d) + r) \div d = q /\ ((q * d) + r) % d = r
  BY LastDigit
<1>2. d * q = q * d
  OBVIOUS
<1> QED BY <1>1, <1>2

\* The bits of a match info: four sections, in each the match keys, of each the targets.
LEMMA Sizes ==
  ASSUME NEW t \in 1 .. 3
  PROVE  /\ NumXs \in Nat \ {0} /\ SectionSize \in Nat \ {0} /\ Targets(t) \in Nat \ {0}
         /\ MatchKeys[t] \in Nat \ {0}
         /\ SectionSize = Targets(t) * MatchKeys[t]
         /\ NumXs = SectionSize * 4
<1> DEFINE m == MatchKeys[t]
<1>1. NumXs \in Nat \ {0} /\ m \in Nat \ {0} /\ NumXs % (4 * m) = 0
  BY TurnAssumption, ValidatorAssumption
<1> DEFINE q == NumXs \div (4 * m)
<1> HIDE DEF m
<1>2. q \in Nat /\ NumXs = ((4 * m) * q) + 0
  <2>1. 4 * m \in Nat \ {0}
    BY <1>1
  <2> QED BY <1>1, <2>1, Quotient
<1> HIDE DEF q
<1>3. NumXs = 4 * (m * q) /\ m * q \in Nat
  BY <1>1, <1>2
<1>4. NumXs \div 4 = m * q
  BY <1>3
<1>5. (m * q) \div m = q
  <2>1. m * q = (m * q) + 0 /\ 0 \in 0 .. m - 1 /\ m * q \in Nat
    BY <1>1, <1>2
  <2> QED BY <1>1, <1>2, <2>1, OneQuotient
<1>6. SectionSize = m * q /\ Targets(t) = q
  BY <1>4, <1>5 DEF SectionSize, Targets, m
<1>7. q # 0
  BY <1>1, <1>2
<1> QED BY <1>1, <1>2, <1>3, <1>6, <1>7 DEF m

\* The length of a thread's part of the x values.
ChunkLen(t) == (IF t + 1 = Threads THEN NumXs ELSE (t * ChunkSize) + ChunkSize) - (t * ChunkSize)

\* The chunks of filterX2Candidates: none is shorter than what is hashed
\* ahead, and none reaches past the last x value.
LEMMA Chunks ==
  /\ ChunkSize \in Nat \ {0}
  /\ \A t \in Workers :
       /\ t * ChunkSize \in Nat
       /\ ChunkLen(t) \in Nat /\ PrefetchDist <= ChunkLen(t) /\ ChunkSize <= ChunkLen(t)
       /\ (t * ChunkSize) + ChunkLen(t) <= NumXs
       /\ t + 1 # Threads => ChunkLen(t) = ChunkSize
       /\ ChunkOf(t) = [i \in 1 .. ChunkLen(t) |-> (t * ChunkSize) + i - 1]
<1> DEFINE C == ChunkSize
           D == NumXs \div Threads
<1>1. Threads \in Nat \ {0} /\ Granule \in Nat \ {0} /\ PrefetchDist \in Nat \ {0} /\ PrefetchDist <= C
  BY SolverAssumption, PrefetchAssumption
<1>2. NumXs \in Nat \ {0}
  BY TurnAssumption
<1>3. D \in Nat /\ NumXs = (Threads * D) + (NumXs % Threads) /\ NumXs % Threads \in Nat
  BY <1>1, <1>2, Quotient
<1>4. C \in Nat /\ C <= D
  <2> HIDE DEF D
  <2>1. D % Granule \in 0 .. Granule - 1 /\ D = (Granule * (D \div Granule)) + (D % Granule) /\ D \div Granule \in Nat
    BY <1>1, <1>3, Quotient
  <2>2. Granule * (D \div Granule) \in Nat
    BY <1>1, <2>1
  <2>3. C = D - (D % Granule)
    BY DEF ChunkSize, D
  <2> QED BY <1>3, <2>1, <2>2, <2>3
<1> HIDE DEF C, D
<1>5. C # 0
  BY <1>1, <1>4
<1>6. ASSUME NEW t \in Workers
      PROVE  /\ t * C \in Nat
             /\ ChunkLen(t) \in Nat /\ PrefetchDist <= ChunkLen(t) /\ C <= ChunkLen(t)
             /\ (t * C) + ChunkLen(t) <= NumXs
             /\ t + 1 # Threads => ChunkLen(t) = C
             /\ ChunkOf(t) = [i \in 1 .. ChunkLen(t) |-> (t * C) + i - 1]
  <2>1. t \in Nat /\ t + 1 <= Threads
    BY <1>1 DEF Workers
  <2>2. t * C \in Nat /\ (t * C) + C = (t + 1) * C
    BY <1>4, <2>1
  <2>3. (t + 1) * C <= Threads * D
    <3>1. (t + 1) * C <= Threads * C
      BY <1>1, <1>4, <2>1
    <3>2. Threads * C <= Threads * D
      BY <1>1, <1>3, <1>4
    <3> QED BY <1>1, <1>3, <1>4, <2>1, <3>1, <3>2
  <2>4. (t * C) + C <= NumXs
    BY <1>1, <1>2, <1>3, <1>4, <2>2, <2>3
  <2>5. ChunkLen(t) = IF t + 1 = Threads THEN NumXs - (t * C) ELSE C
    BY <1>2, <1>4, <2>2 DEF ChunkLen, C
  <2>6. ChunkOf(t) = [i \in 1 .. ChunkLen(t) |-> (t * C) + i - 1]
    BY DEF ChunkOf, ChunkLen, C
  <2> QED BY <1>1, <1>2, <1>4, <2>2, <2>4, <2>5, <2>6
<1> QED BY <1>4, <1>5, <1>6 DEF C

\* Places of a ring that is shorter than the distance to the next turn differ.
LEMMA RingApart ==
  ASSUME NEW n \in Nat \ {0}, NEW a \in Nat, NEW b \in Nat, a < b, b < a + n
  PROVE  a % n # b % n
<1>1. SUFFICES ASSUME a % n = b % n PROVE FALSE
  OBVIOUS
<1> DEFINE p == a \div n
           q == b \div n
           r == a % n
<1>2. p \in Nat /\ q \in Nat /\ r \in Nat /\ a = (n * p) + r /\ b = (n * q) + r
  <2>1. p \in Nat /\ r \in 0 .. n - 1 /\ a = (n * p) + r
    BY Quotient
  <2>2. q \in Nat /\ b = (n * q) + (b % n)
    BY Quotient
  <2> QED BY <1>1, <2>1, <2>2
<1> HIDE DEF p, q, r
<1>3. n * p \in Nat /\ n * q \in Nat
  BY <1>2
<1>4. n * p < n * q /\ n * q < (n * p) + n
  <2> DEFINE u == n * p
             v == n * q
  <2>1. u \in Nat /\ v \in Nat /\ a = u + r /\ b = v + r
    BY <1>2, <1>3
  <2> HIDE DEF u, v
  <2>2. u < v /\ v < u + n
    BY <1>2, <2>1
  <2> QED BY <2>2 DEF u, v
<1>5. (n * p) + n = n * (p + 1)
  BY <1>2
<1>6. p < q
  <2>1. SUFFICES ASSUME q <= p PROVE FALSE
    BY <1>2
  <2>2. n * q <= n * p
    BY <1>2, <2>1
  <2> QED BY <1>3, <1>4, <2>2
<1>7. q < p + 1
  <2>1. SUFFICES ASSUME p + 1 <= q PROVE FALSE
    BY <1>2
  <2>2. n * (p + 1) <= n * q
    BY <1>2, <2>1
  <2>3. n * (p + 1) \in Nat
    BY <1>2
  <2> QED BY <1>3, <1>4, <1>5, <2>2, <2>3
<1> QED BY <1>2, <1>6, <1>7

\* One turn on, the ring is where it was.
LEMMA RingTurns ==
  ASSUME NEW n \in Nat \ {0}, NEW a \in Nat
  PROVE  /\ (a + n) % n = a % n
         /\ ((a % n) + 1) % n = (a + 1) % n
         /\ a < n => a % n = a
<1> DEFINE q == a \div n
           r == a % n
<1>1. q \in Nat /\ r \in 0 .. n - 1 /\ a = (n * q) + r
  BY Quotient
<1> HIDE DEF q, r
<1>2. (a + n) % n = r
  <2>1. a + n = (n * (q + 1)) + r /\ q + 1 \in Nat /\ a + n \in Nat
    BY <1>1
  <2> QED BY <1>1, <2>1, OneQuotient
<1>3. (r + 1) % n = (a + 1) % n
  <2>1. CASE r + 1 < n
    <3>1. a + 1 = (n * q) + (r + 1) /\ r + 1 \in 0 .. n - 1 /\ a + 1 \in Nat
      BY <1>1, <2>1
    <3>2. (a + 1) % n = r + 1
      <4> DEFINE b == a + 1
                 s == r + 1
      <4>1. b = (n * q) + s /\ s \in 0 .. n - 1 /\ b \in Nat
        BY <3>1
      <4> HIDE DEF b, s
      <4>2. b % n = s
        BY <1>1, <4>1, OneQuotient
      <4> QED BY <4>2 DEF b, s
    <3>3. r + 1 = (n * 0) + (r + 1) /\ 0 \in Nat /\ r + 1 \in Nat
      BY <1>1
    <3>4. (r + 1) % n = r + 1
      BY <3>1, <3>3, OneQuotient
    <3> QED BY <3>2, <3>4
  <2>2. CASE r + 1 = n
    <3>1. a + 1 = (n * (q + 1)) + 0 /\ q + 1 \in Nat /\ 0 \in 0 .. n - 1 /\ a + 1 \in Nat
      BY <1>1, <2>2
    <3>2. (a + 1) % n = 0
      BY <3>1, OneQuotient
    <3>3. n = (n * 1) + 0 /\ 1 \in Nat /\ n \in Nat
      OBVIOUS
    <3>4. n % n = 0
      BY <3>1, <3>3, OneQuotient
    <3> QED BY <2>2, <3>2, <3>4
  <2> QED BY <1>1, <2>1, <2>2
<1>4. ASSUME a < n PROVE r = a
  <2>1. a = (n * 0) + a /\ 0 \in Nat /\ a \in 0 .. n - 1
    BY <1>4
  <2>2. a % n = a
    BY <2>1, OneQuotient
  <2> QED BY <2>2 DEF r
<1> QED BY <1>2, <1>3, <1>4 DEF r

-----------------------------------------------------------------------------
(* The filter of the x2 candidates                                         *)

\* The x value a thread has at a place of its part, and its entry if it is a hit.
XAt(t, c)           == (t * ChunkSize) + c - 1
Hit(plot, x)        == [hash |-> Info(plot, 0, <<x>>), x |-> x]
Known(plot, list, x) == Info(plot, 0, <<x>>) \div Coarse \in {list[i].hash \div Coarse : i \in DOMAIN list}

\* What a thread has put away after some x values: their hits, each once.
HitsTo(plot, list, h, t, i) ==
  /\ h \in Seq(Candidate)
  /\ \A n \in 1 .. Len(h) : \E c \in 1 .. i : Known(plot, list, XAt(t, c)) /\ h[n] = Hit(plot, XAt(t, c))
  /\ \A c \in 1 .. i : Known(plot, list, XAt(t, c)) => \E n \in 1 .. Len(h) : h[n] = Hit(plot, XAt(t, c))
  /\ \A m, n \in 1 .. Len(h) : h[m].x = h[n].x => m = n

\* The next x value.
LEMMA HitsGrow ==
  ASSUME NEW plot, NEW list, NEW h, NEW t, NEW i \in Nat, t * ChunkSize \in Nat, HitsTo(plot, list, h, t, i),
         Hit(plot, XAt(t, i + 1)) \in Candidate
  PROVE  /\ Known(plot, list, XAt(t, i + 1)) => HitsTo(plot, list, Append(h, Hit(plot, XAt(t, i + 1))), t, i + 1)
         /\ ~ Known(plot, list, XAt(t, i + 1)) => HitsTo(plot, list, h, t, i + 1)
<1> DEFINE new == Hit(plot, XAt(t, i + 1))
           g == Append(h, new)
<1>1. h \in Seq(Candidate) /\ Len(h) \in Nat
  BY DEF HitsTo
<1>2. \A n \in 1 .. Len(h) : \E c \in 1 .. i : Known(plot, list, XAt(t, c)) /\ h[n] = Hit(plot, XAt(t, c))
  BY DEF HitsTo
<1>3. \A c \in 1 .. i : Known(plot, list, XAt(t, c)) => \E n \in 1 .. Len(h) : h[n] = Hit(plot, XAt(t, c))
  BY DEF HitsTo
<1>4. \A m, n \in 1 .. Len(h) : h[m].x = h[n].x => m = n
  BY DEF HitsTo
<1>5. \A c \in 1 .. i + 1 : c \in 1 .. i \/ c = i + 1
  OBVIOUS
<1>6. \A c \in 1 .. i : c \in 1 .. i + 1
  OBVIOUS
<1>7. \A x : Hit(plot, x).x = x
  BY DEF Hit
<1>8. \A c \in 1 .. i : XAt(t, c) # XAt(t, i + 1)
  BY DEF XAt
<1>9. ASSUME Known(plot, list, XAt(t, i + 1)) PROVE HitsTo(plot, list, g, t, i + 1)
  <2>1. /\ g \in Seq(Candidate) /\ Len(g) = Len(h) + 1
        /\ \A n \in 1 .. Len(h) : g[n] = h[n]
        /\ g[Len(h) + 1] = new
    <3> HIDE DEF new
    <3> QED BY <1>1 DEF new
  <2>2. \A n \in 1 .. Len(g) : n \in 1 .. Len(h) \/ n = Len(h) + 1
    BY <1>1, <2>1
  <2>3. \A n \in 1 .. Len(h) : n \in 1 .. Len(g)
    BY <1>1, <2>1
  <2>4. Len(h) + 1 \in 1 .. Len(g) /\ i + 1 \in 1 .. i + 1
    BY <1>1, <2>1
  <2> HIDE DEF g
  <2>5. \A n \in 1 .. Len(g) : \E c \in 1 .. i + 1 : Known(plot, list, XAt(t, c)) /\ g[n] = Hit(plot, XAt(t, c))
    BY <1>2, <1>6, <1>9, <2>1, <2>2, <2>4, Zenon
  <2>6. \A c \in 1 .. i + 1 : Known(plot, list, XAt(t, c)) => \E n \in 1 .. Len(g) : g[n] = Hit(plot, XAt(t, c))
    BY <1>3, <1>5, <2>1, <2>3, <2>4, Zenon
  <2>7. \A n \in 1 .. Len(h) : g[n].x # g[Len(h) + 1].x
    <3>1. ASSUME NEW n \in 1 .. Len(h) PROVE g[n].x # g[Len(h) + 1].x
      <4>1. PICK c \in 1 .. i : h[n] = Hit(plot, XAt(t, c))
        BY <1>2
      <4> QED BY <1>7, <1>8, <2>1, <4>1
    <3> QED BY <3>1
  <2>8. \A m, n \in 1 .. Len(g) : g[m].x = g[n].x => m = n
    BY <1>4, <2>1, <2>2, <2>7, Zenon
  <2> QED BY <2>1, <2>5, <2>6, <2>8 DEF HitsTo
<1>10. ASSUME ~ Known(plot, list, XAt(t, i + 1)) PROVE HitsTo(plot, list, h, t, i + 1)
  <2>1. \A n \in 1 .. Len(h) : \E c \in 1 .. i + 1 : Known(plot, list, XAt(t, c)) /\ h[n] = Hit(plot, XAt(t, c))
    BY <1>2, <1>6, Zenon
  <2>2. \A c \in 1 .. i + 1 : Known(plot, list, XAt(t, c)) => \E n \in 1 .. Len(h) : h[n] = Hit(plot, XAt(t, c))
    BY <1>3, <1>5, <1>10, Zenon
  <2> QED BY <1>1, <1>4, <2>1, <2>2 DEF HitsTo
<1> QED BY <1>9, <1>10

\* The hits of a thread, put away one x value after the other: the ring gives
\* every value its own hash back.
LEMMA HitsFound ==
  ASSUME Plot \in Plots, NEW t \in Workers
  PROVE  HitsTo(Plot, x1s, HitsOf(t), t, ChunkLen(t))
<1> DEFINE xs == ChunkOf(t)
           P == PrefetchDist
           L == ChunkLen(t)
           Hash0(i) == Info(Plot, 0, <<xs[i]>>)
           Turn(r, i) ==
             LET hash == r.ring[r.at]
             IN  [ring |-> IF i + PrefetchDist \in DOMAIN xs
                             THEN [r.ring EXCEPT ![r.at] = Hash0(i + PrefetchDist)] ELSE r.ring,
                  at   |-> (r.at + 1) % PrefetchDist,
                  hits |-> IF hash \div Coarse \in Bitmask
                             THEN Append(r.hits, [hash |-> hash, x |-> xs[i]]) ELSE r.hits]
           warm == [ring |-> [a \in 0 .. PrefetchDist - 1 |-> Hash0(a + 1)], at |-> 0, hits |-> <<>>]
           After[i \in Nat] == IF i = 0 THEN warm ELSE Turn(After[i - 1], i)
<1>1. HitsOf(t) = After[Len(xs)].hits
  BY DEF HitsOf
<1>2. P \in Nat \ {0} /\ L \in Nat /\ P <= L /\ t * ChunkSize \in Nat /\ ChunkSize \in Nat
      /\ (t * ChunkSize) + L <= NumXs /\ NumXs \in Nat
      /\ xs = [i \in 1 .. L |-> (t * ChunkSize) + i - 1]
  BY SolverAssumption, Chunks, TurnAssumption
<1>3. Len(xs) = L /\ DOMAIN xs = 1 .. L /\ \A i \in 1 .. L : xs[i] = XAt(t, i) /\ xs[i] \in Xs
  <2> DEFINE z == t * ChunkSize
  <2>1. z \in Nat /\ z + L <= NumXs
    BY <1>2
  <2>2. \A i : XAt(t, i) = z + i - 1
    BY DEF XAt
  <2> HIDE DEF xs, L
  <2>3. xs = [i \in 1 .. L |-> z + i - 1]
    BY <1>2
  <2> HIDE DEF z
  <2>4. \A i \in 1 .. L : xs[i] = XAt(t, i) /\ xs[i] \in Xs
    BY <1>2, <2>1, <2>2, <2>3 DEF Xs
  <2> QED BY <1>2, <2>3, <2>4
<1> HIDE DEF xs, L
<1>4. \A i \in 1 .. L : Hash0(i) \in Xs
  BY <1>3, HashAssumption
<1> DEFINE C0 == [hash : Xs, x : {xs[i] : i \in Nat}]
           V == [ring : [0 .. P - 1 -> Xs], at : 0 .. P - 1, hits : Seq(C0)]
<1>5. warm \in V
  <2>1. \A a \in 0 .. P - 1 : Hash0(a + 1) \in Xs
    <3>1. \A a \in 0 .. P - 1 : a + 1 \in 1 .. L
      BY <1>2
    <3> HIDE DEF Hash0
    <3> QED BY <1>4, <3>1
  <2> HIDE DEF Hash0
  <2> QED BY <1>2, <2>1
<1>6. ASSUME NEW r \in V, NEW i \in Nat PROVE Turn(r, i) \in V
  <2> DEFINE hash == r.ring[r.at]
             e == [hash |-> hash, x |-> xs[i]]
             ring == IF i + P \in DOMAIN xs THEN [r.ring EXCEPT ![r.at] = Hash0(i + P)] ELSE r.ring
             hits == IF hash \div Coarse \in Bitmask THEN Append(r.hits, e) ELSE r.hits
  <2>1. r.ring \in [0 .. P - 1 -> Xs] /\ r.at \in 0 .. P - 1 /\ r.hits \in Seq(C0)
    <3> HIDE DEF C0
    <3> QED OBVIOUS
  <2>2. ring \in [0 .. P - 1 -> Xs]
    <3>1. i + P \in DOMAIN xs => Hash0(i + P) \in Xs
      BY <1>3, <1>4
    <3> HIDE DEF Hash0
    <3> QED BY <2>1, <3>1
  <2>3. e \in C0
    BY <2>1
  <2>4. hits \in Seq(C0)
    <3> HIDE DEF e, C0, hash
    <3> QED BY <2>1, <2>3
  <2>5. (r.at + 1) % P \in 0 .. P - 1
    BY <1>2, <2>1
  <2>6. Turn(r, i) = [ring |-> ring, at |-> (r.at + 1) % P, hits |-> hits]
    OBVIOUS
  <2> HIDE DEF ring, hits, C0, Turn
  <2> QED BY <2>2, <2>4, <2>5, <2>6
<1> DEFINE step == [p \in Nat \X V |-> Turn(p[2], p[1])]
<1>7. \A i \in Nat : \A r \in V : step[<<i, r>>] = Turn(r, i)
  <2> HIDE DEF Turn, V
  <2> QED OBVIOUS
<1>8. step \in [Nat \X V -> V]
  <2> HIDE DEF Turn, V
  <2> QED BY <1>6
<1> HIDE DEF Turn, warm, V, step
<1>9. After = [i \in Nat |-> IF i = 0 THEN warm ELSE Turn(After[i - 1], i)]
  <2>0. PICK f : Unrolls(f, V, warm, step)
    BY <1>5, <1>8, PrimitiveRecursion
  <2>1. f \in [Nat -> V] /\ f[0] = warm /\ \A n \in Nat : f[n + 1] = step[<<n + 1, f[n]>>]
    BY <2>0 DEF Unrolls
  <2>2. ASSUME NEW i \in Nat PROVE f[i] = IF i = 0 THEN warm ELSE Turn(f[i - 1], i)
    <3>1. CASE i = 0
      BY <2>1, <3>1
    <3>2. CASE i # 0
      <4>1. i - 1 \in Nat /\ (i - 1) + 1 = i
        BY <3>2
      <4>2. f[i] = step[<<i, f[i - 1]>>]
        BY <2>1, <4>1
      <4>3. f[i - 1] \in V
        BY <2>1, <4>1
      <4> QED BY <1>7, <3>2, <4>2, <4>3
    <3> QED BY <3>1, <3>2
  <2>3. f = [i \in Nat |-> IF i = 0 THEN warm ELSE Turn(f[i - 1], i)]
    BY <2>1, <2>2
  <2> QED BY <2>3
<1> HIDE DEF After
<1>10. \A i \in Nat : After[i] = IF i = 0 THEN warm ELSE Turn(After[i - 1], i)
  BY <1>9
<1>11. \A i \in Nat : After[i] \in V
  <2> DEFINE S == {i \in Nat : After[i] \in V}
  <2>1. 0 \in S
    BY <1>5, <1>10
  <2>2. ASSUME NEW i \in Nat, i \in S PROVE i + 1 \in S
    <3>1. i + 1 \in Nat /\ i + 1 # 0 /\ (i + 1) - 1 = i
      OBVIOUS
    <3> QED BY <1>6, <1>10, <2>2, <3>1
  <2>3. \A i \in Nat : i \in S
    <3> HIDE DEF S
    <3> QED BY <2>1, <2>2, Inductive
  <2> QED BY <2>3
<1> DEFINE Ring(r, i) == /\ r.at = i % P
                         /\ \A c \in i + 1 .. i + P : c <= L => r.ring[(c - 1) % P] = Hash0(c)
           Kept(r, i) == Ring(r, i) /\ HitsTo(Plot, x1s, r.hits, t, i)
           S == {i \in Nat : i <= L => Kept(After[i], i)}
<1>12. Kept(warm, 0)
  <2>1. 0 % P = 0
    BY <1>2
  <2>2. ASSUME NEW c \in 0 + 1 .. 0 + P PROVE warm.ring[(c - 1) % P] = Hash0(c)
    <3>1. c - 1 \in Nat /\ c - 1 < P /\ (c - 1) + 1 = c /\ c - 1 \in 0 .. P - 1
      BY <1>2
    <3>2. (c - 1) % P = c - 1
      BY <1>2, <3>1, RingTurns
    <3> HIDE DEF Hash0
    <3>3. \A a \in 0 .. P - 1 : warm.ring[a] = Hash0(a + 1)
      BY DEF warm
    <3> QED BY <3>1, <3>2, <3>3
  <2>3. warm.at = 0 /\ warm.hits = <<>>
    BY DEF warm
  <2>4. HitsTo(Plot, x1s, <<>>, t, 0)
    BY DEF HitsTo
  <2> QED BY <2>1, <2>2, <2>3, <2>4
<1>13. ASSUME NEW i \in Nat, i + 1 <= L, NEW r \in V, Kept(r, i) PROVE Kept(Turn(r, i + 1), i + 1)
  <2> DEFINE j == i + 1
             u == Turn(r, j)
             hash == r.ring[r.at]
  <2>1. j \in 1 .. L /\ i \in Nat /\ j - 1 = i /\ j <= i + P /\ j \in i + 1 .. i + P
    <3> HIDE DEF Kept
    <3> QED BY <1>2, <1>13
  <2>2. r.at = i % P /\ hash = Hash0(j) /\ r.ring \in [0 .. P - 1 -> Xs] /\ r.at \in 0 .. P - 1
        /\ r.hits \in Seq(C0)
    <3>1. r.at = i % P /\ \A c \in i + 1 .. i + P : c <= L => r.ring[(c - 1) % P] = Hash0(c)
      BY <1>13
    <3>2. r.ring \in [0 .. P - 1 -> Xs] /\ r.at \in 0 .. P - 1 /\ r.hits \in Seq(C0)
      BY DEF V
    <3> HIDE DEF Hash0
    <3>3. j <= L
      BY <1>13
    <3>4. r.ring[(j - 1) % P] = Hash0(j)
      BY <2>1, <3>1, <3>3
    <3>5. (j - 1) % P = r.at
      BY <2>1, <3>1
    <3> QED BY <3>1, <3>2, <3>4, <3>5
  <2> HIDE DEF j, hash
  <2>3. /\ u.at = (r.at + 1) % P
        /\ u.ring = IF j + P \in DOMAIN xs THEN [r.ring EXCEPT ![r.at] = Hash0(j + P)] ELSE r.ring
        /\ u.hits = IF hash \div Coarse \in Bitmask THEN Append(r.hits, [hash |-> hash, x |-> xs[j]])
                                                   ELSE r.hits
    <3> HIDE DEF Hash0
    <3> QED BY DEF Turn, hash
  <2>4. u.at = j % P
    <3>1. ((i % P) + 1) % P = (i + 1) % P
      BY <1>2, RingTurns
    <3> QED BY <2>2, <2>3, <3>1 DEF j
  <2>5. ASSUME NEW c \in j + 1 .. j + P, c <= L PROVE u.ring[(c - 1) % P] = Hash0(c)
    <3>1. c - 1 \in Nat /\ (c - 1) % P \in 0 .. P - 1
      BY <1>2, <2>1
    <3>2. CASE c = j + P
      <4>1. (i + P) % P = i % P /\ c - 1 = i + P
        <5>1. (i + P) % P = i % P
          BY <1>2, RingTurns
        <5> QED BY <1>2, <2>1, <3>2, <5>1 DEF j
      <4>2. j + P \in DOMAIN xs
        BY <1>2, <1>3, <2>1, <2>5, <3>2
      <4> HIDE DEF Hash0
      <4>3. u.ring[r.at] = Hash0(j + P)
        BY <2>2, <2>3, <4>2
      <4> QED BY <2>2, <3>2, <4>1, <4>3
    <3>3. CASE c # j + P
      <4>1. c - 1 \in Nat /\ i < c - 1 /\ c - 1 < i + P /\ c \in i + 1 .. i + P
        BY <1>2, <2>1, <3>3 DEF j
      <4>2. i % P # (c - 1) % P
        BY <1>2, <4>1, RingApart
      <4>3. u.ring[(c - 1) % P] = r.ring[(c - 1) % P]
        <5> HIDE DEF Hash0
        <5> QED BY <2>2, <2>3, <3>1, <4>2
      <4>4. r.ring[(c - 1) % P] = Hash0(c)
        <5> HIDE DEF Hash0
        <5> QED BY <1>13, <2>5, <4>1
      <4> QED BY <4>3, <4>4
    <3> QED BY <3>2, <3>3
  <2>6. HitsTo(Plot, x1s, u.hits, t, j)
    <3>1. xs[j] = XAt(t, j) /\ xs[j] \in Xs /\ Hash0(j) \in Xs
      BY <1>3, <1>4, <2>1
    <3>2. Hit(Plot, XAt(t, j)) = [hash |-> hash, x |-> xs[j]]
      BY <2>2, <3>1 DEF Hit
    <3>3. Hit(Plot, XAt(t, j)) \in Candidate
      BY <2>2, <3>1, <3>2 DEF Candidate
    <3>4. Known(Plot, x1s, XAt(t, j)) <=> hash \div Coarse \in Bitmask
      BY <2>2, <3>1 DEF Known, Bitmask
    <3>5. HitsTo(Plot, x1s, r.hits, t, i)
      BY <1>13
    <3>6. /\ Known(Plot, x1s, XAt(t, j)) => HitsTo(Plot, x1s, Append(r.hits, Hit(Plot, XAt(t, j))), t, j)
          /\ ~ Known(Plot, x1s, XAt(t, j)) => HitsTo(Plot, x1s, r.hits, t, j)
      BY <1>2, <3>3, <3>5, HitsGrow DEF j
    <3> QED BY <2>3, <3>2, <3>4, <3>6
  <2> QED BY <2>4, <2>5, <2>6 DEF j
<1>14. \A i \in Nat : i \in S
  <2>1. 0 \in S
    <3> HIDE DEF Kept
    <3> QED BY <1>10, <1>12
  <2>2. ASSUME NEW i \in Nat, i \in S PROVE i + 1 \in S
    <3> HIDE DEF Kept
    <3>1. i + 1 \in Nat /\ i + 1 # 0 /\ (i + 1) - 1 = i
      OBVIOUS
    <3>2. After[i + 1] = Turn(After[i], i + 1)
      BY <1>10, <3>1
    <3>3. i + 1 <= L => Kept(After[i], i)
      BY <1>2, <2>2
    <3> QED BY <1>11, <1>13, <3>2, <3>3
  <2> HIDE DEF S
  <2> QED BY <2>1, <2>2, Inductive
<1>15. Kept(After[L], L)
  <2> HIDE DEF Kept
  <2> QED BY <1>2, <1>14
<1> QED BY <1>1, <1>3, <1>15 DEF L

-----------------------------------------------------------------------------
(* Lists that have every element of a set once                             *)

OnceEach(list, E) ==
  /\ list \in Seq(E)
  /\ \A e \in E : \E n \in 1 .. Len(list) : list[n] = e
  /\ \A m, n \in 1 .. Len(list) : list[m] = list[n] => m = n

\* A list is a function on the numbers to its length.
LEMMA ListShape ==
  ASSUME NEW E, NEW list \in Seq(E)
  PROVE  /\ Len(list) \in Nat /\ DOMAIN list = 1 .. Len(list)
         /\ list = [n \in 1 .. Len(list) |-> list[n]]
         /\ \A n \in 1 .. Len(list) : list[n] \in E
  OBVIOUS

\* And such a function is a list.
LEMMA ListOf ==
  ASSUME NEW E, NEW n \in Nat, NEW f \in [1 .. n -> E]
  PROVE  f \in Seq(E) /\ Len(f) = n
  OBVIOUS

\* A function that is defined by a first value and a step, up to a number.
Recurs(f, top, V, v0, step) ==
  /\ f \in [0 .. top -> V]
  /\ f = [n \in 0 .. top |-> IF n = 0 THEN v0 ELSE step[<<n, f[n - 1]>>]]

\* There is one, so that a recursive definition has the values it says.
LEMMA BoundedRecursion ==
  ASSUME NEW top \in Nat, NEW V, NEW v0 \in V, NEW step \in [(1 .. top) \X V -> V]
  PROVE  \E f : Recurs(f, top, V, v0, step)
<1> DEFINE next0 == [p \in Nat \X V |-> IF p[1] \in 1 .. top THEN step[<<p[1], p[2]>>] ELSE p[2]]
<1>1. next0 \in [Nat \X V -> V]
  <2>1. ASSUME NEW n \in Nat, NEW v \in V PROVE (IF n \in 1 .. top THEN step[<<n, v>>] ELSE v) \in V
    OBVIOUS
  <2> QED BY <2>1
<1>2. \A n \in 1 .. top, v \in V : next0[<<n, v>>] = step[<<n, v>>]
  OBVIOUS
<1> HIDE DEF next0
<1>3. PICK f : Follows(f, top, V, v0, next0)
  BY <1>1, FollowsUpTo
<1>4. f \in [0 .. top -> V] /\ f[0] = v0 /\ \A m \in 0 .. top - 1 : f[m + 1] = next0[<<m + 1, f[m]>>]
  BY <1>3 DEF Follows
<1>5. ASSUME NEW n \in 0 .. top PROVE f[n] = IF n = 0 THEN v0 ELSE step[<<n, f[n - 1]>>]
  <2>1. CASE n = 0
    BY <1>4, <2>1
  <2>2. CASE n # 0
    <3>1. n - 1 \in 0 .. top - 1 /\ n - 1 \in 0 .. top /\ (n - 1) + 1 = n /\ n \in 1 .. top
      BY <2>2
    <3>2. f[n] = next0[<<n, f[n - 1]>>] /\ f[n - 1] \in V
      BY <1>4, <3>1
    <3> QED BY <1>2, <2>2, <3>1, <3>2
  <2> QED BY <2>1, <2>2
<1>6. f = [n \in 0 .. top |-> IF n = 0 THEN v0 ELSE step[<<n, f[n - 1]>>]]
  BY <1>4, <1>5
<1> QED BY <1>4, <1>6 DEF Recurs

\* The other way round: a match info is made up of its parts.
LEMMA InfoMade ==
  ASSUME NEW t \in 1 .. 3, NEW v \in Xs
  PROVE  /\ SectionOf(v) \in Sections /\ KeyOf(t, v) \in 0 .. MatchKeys[t] - 1
         /\ TargetIn(t, v) \in 0 .. Targets(t) - 1
         /\ v = (SectionOf(v) * SectionSize) + (KeyOf(t, v) * Targets(t)) + TargetIn(t, v)
<1> DEFINE T == Targets(t)
           M == MatchKeys[t]
           Z == SectionSize
<1>1. NumXs \in Nat \ {0} /\ Z \in Nat \ {0} /\ T \in Nat \ {0} /\ M \in Nat \ {0} /\ Z = T * M /\ NumXs = Z * 4
  BY Sizes
<1>2. v \in Nat /\ v < NumXs
  BY <1>1 DEF Xs
<1> HIDE DEF T, M, Z
<1> DEFINE q == v \div T
           r == v % T
           s == q \div M
           key == q % M
<1>3. v = (T * q) + r /\ q \in Nat /\ r \in 0 .. T - 1
  BY <1>1, <1>2, Quotient
<1> HIDE DEF q, r
<1>4. q = (M * s) + key /\ s \in Nat /\ key \in 0 .. M - 1
  BY <1>1, <1>3, Quotient
<1> HIDE DEF s, key
<1> DEFINE low == (key * T) + r
<1>5. low \in 0 .. Z - 1
  <2>1. key * T <= (M - 1) * T /\ key * T \in Nat
    BY <1>1, <1>4
  <2>2. (M - 1) * T = Z - T
    BY <1>1
  <2> QED BY <1>1, <1>3, <2>1, <2>2
<1>6. v = (s * Z) + low
  <2>1. T * ((M * s) + key) = (s * (T * M)) + (key * T)
    BY <1>1, <1>4
  <2>2. v = (s * Z) + (key * T) + r
    BY <1>1, <1>3, <1>4, <2>1
  <2>3. key * T \in Nat /\ s * Z \in Nat
    BY <1>1, <1>4
  <2> QED BY <1>3, <2>2, <2>3
<1> HIDE DEF low
<1>7. v \div Z = s
  BY <1>1, <1>4, <1>5, <1>6, LastDigit
<1>8. s < 4
  <2>1. SUFFICES ASSUME 4 <= s PROVE FALSE
    BY <1>4
  <2>2. 4 * Z <= s * Z /\ s * Z \in Nat
    BY <1>1, <1>4, <2>1
  <2> QED BY <1>1, <1>2, <1>5, <1>6, <2>2
<1>9. v = (s * Z) + (key * T) + r
  <2>1. s * Z \in Nat /\ key * T \in Nat
    BY <1>1, <1>4
  <2> QED BY <1>3, <1>6, <2>1 DEF low
<1> QED BY <1>3, <1>4, <1>7, <1>8, <1>9 DEF SectionOf, KeyOf, TargetIn, Sections, T, M, Z, q, r, key

\* The section to match is a section.
LEMMA MatchingSectionIs ==
  ASSUME NEW s \in Sections
  PROVE  MatchingSection(s) \in Sections
<1>1. s = 0 \/ s = 1 \/ s = 2 \/ s = 3
  BY DEF Sections
<1> QED BY <1>1 DEF MatchingSection, Rotate, Sections

\* Three numbers put together, each below the size of its place but the first one.
ThreeOf(M, T, s, key, target) == (s * (T * M)) + (key * T) + target

\* Each can be read back.
LEMMA ThreeParts ==
  ASSUME NEW T \in Nat \ {0}, NEW M \in Nat \ {0}, NEW s \in Nat, NEW key \in 0 .. M - 1, NEW target \in 0 .. T - 1
  PROVE  /\ ThreeOf(M, T, s, key, target) \in Nat
         /\ ThreeOf(M, T, s, key, target) \div (T * M) = s
         /\ (ThreeOf(M, T, s, key, target) \div T) % M = key
         /\ ThreeOf(M, T, s, key, target) % T = target
         /\ ThreeOf(M, T, s, key, target) < (s + 1) * (T * M)
<1> DEFINE v == ThreeOf(M, T, s, key, target)
           Z == T * M
           low == (key * T) + target
           q == (s * M) + key
<1>1. Z \in Nat \ {0}
  OBVIOUS
<1>2. low \in 0 .. Z - 1
  <2>1. key * T <= (M - 1) * T /\ key * T \in Nat
    OBVIOUS
  <2>2. (M - 1) * T = Z - T
    OBVIOUS
  <2> HIDE DEF Z
  <2> QED BY <1>1, <2>1, <2>2
<1>3. v = (s * Z) + low
  BY DEF ThreeOf
<1>4. v = (q * T) + target /\ q \in Nat
  <2>1. (s * M) * T = s * (T * M)
    OBVIOUS
  <2> QED BY <2>1 DEF ThreeOf
<1> HIDE DEF v
<1>5. v \div T = q /\ v % T = target
  <2> HIDE DEF q
  <2> QED BY <1>4, LastDigit
<1>6. q % M = key
  BY LastDigit
<1> HIDE DEF low, Z, q
<1>7. v \div Z = s
  BY <1>1, <1>2, <1>3, LastDigit
<1>8. v \in Nat /\ v < (s + 1) * Z
  <2>1. s * Z \in Nat /\ (s + 1) * Z = (s * Z) + Z
    BY <1>1
  <2> QED BY <1>1, <1>2, <1>3, <2>1
<1> QED BY <1>5, <1>6, <1>7, <1>8 DEF v, Z

\* A match info that is put together has the parts it was put together from.
LEMMA InfoParts ==
  ASSUME NEW t \in 1 .. 3, NEW left \in Xs, NEW key \in 0 .. MatchKeys[t] - 1,
         NEW target \in 0 .. Targets(t) - 1
  PROVE  /\ InfoToMatch(t, left, key, target) \in Xs
         /\ SectionOf(InfoToMatch(t, left, key, target)) = MatchingSection(SectionOf(left))
         /\ KeyOf(t, InfoToMatch(t, left, key, target)) = key
         /\ TargetIn(t, InfoToMatch(t, left, key, target)) = target
<1> DEFINE T == Targets(t)
           M == MatchKeys[t]
           v == InfoToMatch(t, left, key, target)
           s == MatchingSection(SectionOf(left))
<1>1. NumXs \in Nat \ {0} /\ T \in Nat \ {0} /\ M \in Nat \ {0} /\ SectionSize = T * M /\ NumXs = SectionSize * 4
  BY Sizes
<1>2. s \in 0 .. 3
  <2>1. SectionOf(left) \in Sections
    BY InfoMade
  <2> QED BY <2>1, MatchingSectionIs DEF Sections
<1> HIDE DEF s
<1>3. v = ThreeOf(M, T, s, key, target)
  BY <1>1 DEF InfoToMatch, ThreeOf, s
<1> HIDE DEF T, M, v
<1>4. key \in 0 .. M - 1 /\ target \in 0 .. T - 1 /\ s \in Nat
  BY <1>2 DEF T, M
<1>5. /\ v \in Nat /\ v \div (T * M) = s /\ (v \div T) % M = key /\ v % T = target
      /\ v < (s + 1) * (T * M)
  BY <1>1, <1>3, <1>4, ThreeParts
<1>6. v < NumXs
  <2> DEFINE Z == T * M
  <2>1. Z \in Nat
    BY <1>1
  <2>2. v < (s + 1) * Z /\ NumXs = Z * 4
    BY <1>1, <1>5
  <2> HIDE DEF Z
  <2>3. (s + 1) * Z <= 4 * Z
    BY <1>2, <2>1
  <2> QED BY <1>2, <1>5, <2>1, <2>2, <2>3
<1> QED BY <1>1, <1>5, <1>6 DEF SectionOf, KeyOf, TargetIn, Xs, T, M, v, s

-----------------------------------------------------------------------------
(* What the lists hold                                                     *)

\* Some entries of a list, in their order.
ThoseAre(E, list, at) ==
  /\ Cardinality(at) \in Nat
  /\ Those(list, at) \in Seq(E) /\ Len(Those(list, at)) = Cardinality(at)
  /\ Lists(InOrder(at), at)
  /\ Those(list, at) = [n \in 1 .. Cardinality(at) |-> list[InOrder(at)[n]]]

\* What Those gives, for the indices of a list.
LEMMA ThoseShape ==
  ASSUME NEW E, NEW list \in Seq(E), NEW at, at \subseteq 1 .. Len(list)
  PROVE  ThoseAre(E, list, at)
<1> DEFINE o == InOrder(at)
           N == Cardinality(at)
<1>1. Len(list) \in Nat /\ \A n \in 1 .. Len(list) : list[n] \in E
  OBVIOUS
<1>2. at \subseteq Nat
  BY <1>1
<1>3. IsFiniteSet(at)
  <2>1. IsFiniteSet(1 .. Len(list))
    BY <1>1, FS_Interval
  <2> QED BY <2>1, FS_Subset
<1>4. Lists(o, at)
  BY <1>2, <1>3, InOrderLists
<1>5. Those(list, at) = [n \in DOMAIN o |-> list[o[n]]]
  BY DEF Those
<1> HIDE DEF o
<1>6. N \in Nat /\ o \in [1 .. N -> at]
  BY <1>4 DEF Lists
<1> HIDE DEF N
<1>7. Those(list, at) = [n \in 1 .. N |-> list[o[n]]]
  BY <1>5, <1>6
<1>8. [n \in 1 .. N |-> list[o[n]]] \in [1 .. N -> E]
  BY <1>1, <1>6
<1>9. Those(list, at) \in Seq(E) /\ Len(Those(list, at)) = N
  BY <1>6, <1>7, <1>8, ListOf
<1> QED BY <1>4, <1>6, <1>7, <1>9 DEF o, N, ThoseAre

\* The entries that are in a set.
LEMMA ThoseIn ==
  ASSUME NEW E, NEW list \in Seq(E), NEW F
  PROVE  Those(list, {n \in DOMAIN list : list[n] \in F}) \in Seq(E \cap F)
<1> DEFINE at == {n \in DOMAIN list : list[n] \in F}
           o == InOrder(at)
           N == Cardinality(at)
           l == Those(list, at)
<1>1. at \subseteq 1 .. Len(list) /\ \A n \in at : list[n] \in E \cap F
  OBVIOUS
<1> HIDE DEF at
<1>2. N \in Nat /\ Lists(o, at) /\ l = [n \in 1 .. N |-> list[o[n]]]
  <2>1. ThoseAre(E, list, at)
    BY <1>1, ThoseShape
  <2> QED BY <2>1 DEF ThoseAre
<1> HIDE DEF o, N, l
<1>3. o \in [1 .. N -> at]
  BY <1>2 DEF Lists, N
<1>4. l \in [1 .. N -> E \cap F]
  BY <1>1, <1>2, <1>3
<1>5. l \in Seq(E \cap F)
  BY <1>2, <1>4, ListOf
<1> QED BY <1>5 DEF l, at

\* A sorted list holds what it held.
LEMMA SortedIn ==
  ASSUME NEW E, \A e \in E : e.hash \in Nat, NEW list \in Seq(E)
  PROVE  SortedByHash(list) \in Seq(E) /\ Len(SortedByHash(list)) = Len(list)
<1> DEFINE n == Len(list)
<1>1. n \in Nat /\ DOMAIN list = 1 .. n /\ \A i \in 1 .. n : list[i] \in E
  OBVIOUS
<1>2. \A i \in 1 .. n : list[i].hash \in Nat
  BY <1>1
<1> HIDE DEF n
<1>3. PICK p : Sorts(list, n, p) /\ SortedByHash(list) = [a \in 1 .. n |-> list[p[a]]]
  BY <1>1, <1>2, SortedByHashSorts
<1>4. p \in [1 .. n -> 1 .. n]
  BY <1>3 DEF Sorts
<1>5. [a \in 1 .. n |-> list[p[a]]] \in [1 .. n -> E]
  BY <1>1, <1>4
<1>6. SortedByHash(list) \in Seq(E) /\ Len(SortedByHash(list)) = n
  BY <1>1, <1>3, <1>5, ListOf
<1> QED BY <1>6 DEF n

\* The unique list has every value of the list once, and a value is found where it is.
LEMMA UniqueHasEach ==
  ASSUME NEW E, NEW list \in Seq(E)
  PROVE  /\ UniqueOf(list) \in Seq(E)
         /\ OnceEach(UniqueOf(list), {list[i] : i \in 1 .. Len(list)})
         /\ \A i \in 1 .. Len(list) :
              /\ FirstOf(UniqueOf(list), list[i]) \in 1 .. Len(UniqueOf(list))
              /\ UniqueOf(list)[FirstOf(UniqueOf(list), list[i])] = list[i]
<1> DEFINE L == Len(list)
           at == {FirstOf(list, list[i]) : i \in DOMAIN list}
           o == InOrder(at)
           N == Cardinality(at)
           u == UniqueOf(list)
           V == {list[i] : i \in 1 .. L}
<1>1. L \in Nat /\ DOMAIN list = 1 .. L /\ \A i \in 1 .. L : list[i] \in E
  OBVIOUS
<1>2. ASSUME NEW k \in Nat, NEW l, DOMAIN l = 1 .. k, NEW i \in 1 .. k
      PROVE  /\ FirstOf(l, l[i]) \in 1 .. k /\ l[FirstOf(l, l[i])] = l[i]
  <2> DEFINE S == {j \in DOMAIN l : l[j] = l[i]}
  <2>1. S \subseteq Nat /\ i \in S
    BY <1>2
  <2>2. Min(S) \in S
    <3> HIDE DEF S
    <3> QED BY <2>1, MinNat
  <2>3. FirstOf(l, l[i]) = Min(S)
    BY DEF FirstOf
  <2> QED BY <1>2, <2>2, <2>3
<1>3. \A i \in 1 .. L : FirstOf(list, list[i]) \in 1 .. L /\ list[FirstOf(list, list[i])] = list[i]
  BY <1>1, <1>2
<1>4. at \subseteq 1 .. L
  BY <1>1, <1>3
<1>5. u = Those(list, at)
  BY DEF UniqueOf
<1>6. \A i \in 1 .. L : FirstOf(list, list[i]) \in at
  BY <1>1
<1>7. \A a \in at : \E i \in 1 .. L : a = FirstOf(list, list[i])
  BY <1>1
<1> HIDE DEF at, u
<1>8. /\ N \in Nat /\ u \in Seq(E) /\ Len(u) = N /\ Lists(o, at)
      /\ u = [n \in 1 .. N |-> list[o[n]]]
  <2>1. ThoseAre(E, list, at)
    BY <1>4, ThoseShape
  <2> QED BY <1>5, <2>1 DEF ThoseAre
<1> HIDE DEF o, N
<1>9. /\ o \in [1 .. N -> at]
      /\ \A a, b \in 1 .. N : a < b => o[a] < o[b]
      /\ \A a \in at : \E n \in 1 .. N : o[n] = a
  BY <1>8 DEF Lists, N
<1>10. \A n \in 1 .. N : u[n] = list[o[n]] /\ o[n] \in at /\ o[n] \in 1 .. L /\ o[n] \in Nat
  <2>1. ASSUME NEW n \in 1 .. N PROVE u[n] = list[o[n]] /\ o[n] \in at
    BY <1>8, <1>9
  <2>2. \A a \in at : a \in 1 .. L /\ a \in Nat
    BY <1>1, <1>4
  <2> QED BY <2>1, <2>2
<1>11. \A n \in 1 .. N : u[n] \in V
  BY <1>10
<1>12. ASSUME NEW i \in 1 .. L PROVE \E n \in 1 .. N : u[n] = list[i]
  <2>1. PICK n \in 1 .. N : o[n] = FirstOf(list, list[i])
    BY <1>6, <1>9
  <2> QED BY <1>3, <1>10, <2>1
<1>13. ASSUME NEW m \in 1 .. N, NEW n \in 1 .. N, u[m] = u[n] PROVE m = n
  <2>1. list[o[m]] = list[o[n]]
    BY <1>10, <1>13
  <2>2. PICK i \in 1 .. L : o[m] = FirstOf(list, list[i])
    BY <1>7, <1>10
  <2>3. PICK j \in 1 .. L : o[n] = FirstOf(list, list[j])
    BY <1>7, <1>10
  <2>4. list[i] = list[j]
    BY <1>3, <2>1, <2>2, <2>3
  <2>5. o[m] = o[n]
    BY <2>2, <2>3, <2>4
  <2>6. m \in Nat /\ n \in Nat
    BY <1>8
  <2>7. CASE m < n
    BY <1>9, <1>10, <2>5, <2>7
  <2>8. CASE n < m
    BY <1>9, <1>10, <2>5, <2>8
  <2> QED BY <2>6, <2>7, <2>8
<1>14. OnceEach(u, V)
  <2>1. u \in Seq(V)
    <3>1. u \in [1 .. N -> V]
      <4> HIDE DEF V
      <4> QED BY <1>8, <1>11
    <3> QED BY <1>8, <3>1, ListOf
  <2>2. \A e \in V : \E n \in 1 .. Len(u) : u[n] = e
    BY <1>8, <1>12
  <2>3. \A m, n \in 1 .. Len(u) : u[m] = u[n] => m = n
    BY <1>8, <1>13
  <2> HIDE DEF V
  <2> QED BY <2>1, <2>2, <2>3 DEF OnceEach
<1>15. ASSUME NEW i \in 1 .. L
       PROVE  FirstOf(u, list[i]) \in 1 .. N /\ u[FirstOf(u, list[i])] = list[i]
  <2>1. PICK n \in 1 .. N : u[n] = list[i]
    BY <1>12
  <2>2. DOMAIN u = 1 .. N
    BY <1>8
  <2>3. FirstOf(u, u[n]) \in 1 .. N /\ u[FirstOf(u, u[n])] = u[n]
    <3>1. N \in Nat
      BY <1>8
    <3> QED BY <1>2, <2>2, <3>1, Zenon
  <2> QED BY <2>1, <2>3
<1> QED BY <1>8, <1>14, <1>15 DEF u

-----------------------------------------------------------------------------
(* What each list holds, as sets of a plot                                 *)

\* An x1 candidate: an x value with the match info it is to match under some key.
GoodX1(plot) ==
  {e \in Candidate :
     \E key \in 0 .. MatchKeys[1] - 1 :
       e.hash = InfoToMatch(1, Info(plot, 0, <<e.x>>), key, TargetOf(plot, 1, <<e.x>>, key))}

\* An x2 candidate: an x value with its match info.
GoodX2(plot) == {e \in Candidate : e.hash = Info(plot, 0, <<e.x>>)}

\* A match of table 1: a pair the validator accepts, with its match info.
GoodMatch(plot) ==
  {m \in Match : ValidPair(plot, <<m.x1, m.x2>>) /\ m.hash = Info(plot, 1, <<m.x1, m.x2>>)}

\* Those with the upper bits of one x range.
MatchesIn(plot, bits) == {m \in GoodMatch(plot) : Upper(m.x1) = bits}

\* Four x values of two ranges that the validator accepts.
Fours(plot, a, b) ==
  {xs \in [1 .. 4 -> Xs] : ValidPairs2(plot, xs) /\ Upper(xs[1]) = a /\ Upper(xs[3]) = b}

\* A proof of a fragment.
Eights(plot, fragment) ==
  {xs \in [1 .. 8 -> Xs] : ValidPairs3(plot, xs) /\ EncodeFragment(plot, xs) = fragment}

\* A candidate of either kind has K bits.
LEMMA CandidateHash ==
  \A e \in Candidate : e.hash \in Nat /\ e.hash \in Xs /\ e.x \in Xs
<1>1. NumXs \in Nat \ {0}
  BY TurnAssumption
<1> QED BY <1>1 DEF Candidate, Xs

\* An index into x ranges, in them match keys, in them the x values of a range.
LEMMA RangeIndex ==
  ASSUME NEW H \in Nat \ {0}, NEW M \in Nat \ {0}, NEW n \in Nat, NEW i \in Nat, i < (n * H) * M
  PROVE  /\ (i \div (H * M)) + 1 \in 1 .. n /\ (i \div H) % M \in 0 .. M - 1 /\ i % H \in 0 .. H - 1
<1> DEFINE Z == H * M
           q == i \div Z
<1>1. Z \in Nat \ {0} /\ (n * H) * M = n * Z
  BY SMT
<1>2. i \div H \in Nat /\ i % H \in 0 .. H - 1
  BY Quotient
<1>3. (i \div H) % M \in 0 .. M - 1
  <2> DEFINE d == i \div H
  <2>1. d \in Nat
    BY <1>2
  <2> HIDE DEF d
  <2>2. d % M \in 0 .. M - 1
    BY <2>1, Quotient
  <2> QED BY <2>2 DEF d
<1> DEFINE r == i % Z
<1> HIDE DEF Z
<1>4. q \in Nat /\ i = (Z * q) + r /\ r \in 0 .. Z - 1
  BY <1>1, Quotient
<1> HIDE DEF q, r
<1>5. q < n
  <2>1. SUFFICES ASSUME n <= q PROVE FALSE
    BY <1>4
  <2>2. n * Z <= q * Z /\ q * Z = Z * q
    BY <1>1, <1>4, <2>1
  <2>3. Z * q \in Nat
    BY <1>1, <1>4
  <2>4. i < n * Z
    BY <1>1
  <2> DEFINE a == n * Z
             b == Z * q
  <2>5. a <= b /\ b \in Nat /\ i < a /\ i = b + r /\ r \in Nat /\ a \in Nat
    BY <1>1, <1>4, <2>2, <2>3, <2>4
  <2> HIDE DEF a, b
  <2> QED BY <2>5
<1> QED BY <1>2, <1>3, <1>4, <1>5 DEF q, Z

\* An x value of a range has the upper bits of the range.
LEMMA XOfRange ==
  ASSUME NEW range \in 0 .. HalfXs - 1, NEW low \in 0 .. HalfXs - 1
  PROVE  /\ (range * HalfXs) + low \in Xs
         /\ Upper((range * HalfXs) + low) = range
<1>1. HalfXs \in Nat \ {0} /\ HalfXs * HalfXs = NumXs
  BY ValidatorAssumption
<1> DEFINE n == HalfXs
<1>2. n \in Nat \ {0} /\ range \in 0 .. n - 1 /\ low \in 0 .. n - 1
  BY <1>1
<1> HIDE DEF n
<1>3. ((range * n) + low) \div n = range /\ (range * n) + low \in 0 .. (n * n) - 1
  BY <1>2, TwoDigits
<1> QED BY <1>1, <1>3 DEF Xs, Upper, n

\* The entry of an index is an x1 candidate.
LEMMA X1CandidateGood ==
  ASSUME Plot \in Plots, NEW ranges \in Seq(0 .. HalfXs - 1),
         NEW i \in Nat, i < (Len(ranges) * HalfXs) * MatchKeys[1]
  PROVE  X1Candidate(ranges, i) \in GoodX1(Plot)
<1> DEFINE H == HalfXs
           M == MatchKeys[1]
           n == Len(ranges)
           g == (i \div (H * M)) + 1
           range == ranges[g]
           key == (i \div H) % M
           low == i % H
           x == (range * H) + low
           hash == InfoToMatch(1, Info(Plot, 0, <<x>>), key, TargetOf(Plot, 1, <<x>>, key))
<1>1. H \in Nat \ {0} /\ M \in Nat \ {0} /\ n \in Nat /\ i < (n * H) * M
  BY ValidatorAssumption
<1>2. g \in 1 .. n /\ key \in 0 .. M - 1 /\ low \in 0 .. H - 1
  <2> HIDE DEF H, M, n
  <2> QED BY <1>1, RangeIndex
<1>3. X1Candidate(ranges, i) = [hash |-> hash, x |-> x]
  BY DEF X1Candidate
<1> HIDE DEF g, key, low
<1>4. range \in 0 .. HalfXs - 1
  <2>1. \A j \in 1 .. Len(ranges) : ranges[j] \in 0 .. HalfXs - 1
    BY ListShape
  <2> QED BY <1>2, <2>1
<1> HIDE DEF range
<1>5. x \in Xs
  BY <1>2, <1>4, XOfRange
<1> HIDE DEF x
<1>6. Info(Plot, 0, <<x>>) \in Xs /\ TargetOf(Plot, 1, <<x>>, key) \in 0 .. Targets(1) - 1
  BY <1>2, <1>5, HashAssumption
<1>7. hash \in Xs
  <2>1. 1 \in 1 .. 3 /\ key \in 0 .. MatchKeys[1] - 1
    BY <1>2
  <2> QED BY <1>6, <2>1, InfoParts
<1> DEFINE e == [hash |-> hash, x |-> x]
<1>8. e \in Candidate /\ e.x = x /\ e.hash = hash
  <2> HIDE DEF hash
  <2> QED BY <1>5, <1>7 DEF Candidate
<1>9. e \in GoodX1(Plot)
  <2> HIDE DEF e
  <2>1. \E k \in 0 .. MatchKeys[1] - 1 :
          e.hash = InfoToMatch(1, Info(Plot, 0, <<e.x>>), k, TargetOf(Plot, 1, <<e.x>>, k))
    BY <1>2, <1>8
  <2> QED BY <1>8, <2>1 DEF GoodX1
<1> QED BY <1>3, <1>9

\* The list that is sorted into x1s.
LEMMA X1ListGood ==
  ASSUME Plot \in Plots, NEW ranges \in Seq(0 .. HalfXs - 1)
  PROVE  SortedByHash([i \in 1 .. Len(ranges) * HalfXs * MatchKeys[1] |-> X1Candidate(ranges, i - 1)])
           \in Seq(GoodX1(Plot))
<1> DEFINE N == Len(ranges) * HalfXs * MatchKeys[1]
           list == [i \in 1 .. N |-> X1Candidate(ranges, i - 1)]
<1>1. N \in Nat
  <2>1. Len(ranges) \in Nat /\ HalfXs \in Nat /\ MatchKeys[1] \in Nat
    BY ValidatorAssumption
  <2> QED BY <2>1
<1>2. ASSUME NEW i \in 1 .. N PROVE X1Candidate(ranges, i - 1) \in GoodX1(Plot)
  <2>1. i - 1 \in Nat /\ i - 1 < N
    BY <1>1
  <2> QED BY <2>1, X1CandidateGood
<1> HIDE DEF N
<1>3. list \in Seq(GoodX1(Plot))
  <2>1. list \in [1 .. N -> GoodX1(Plot)]
    BY <1>2
  <2> HIDE DEF list
  <2> QED BY <1>1, <2>1, ListOf
<1> HIDE DEF list
<1>4. \A e \in GoodX1(Plot) : e.hash \in Nat
  BY CandidateHash DEF GoodX1
<1>5. SortedByHash(list) \in Seq(GoodX1(Plot))
  BY <1>3, <1>4, SortedIn
<1> QED BY <1>5 DEF list, N

\* The x bits of a fragment are upper halves.
LEMMA BitsOfFragment ==
  ASSUME NEW plot \in Plots, NEW fragment \in Blocks
  PROVE  \A i \in 1 .. 4 : FragmentBits(plot, fragment)[i] \in 0 .. HalfXs - 1
<1> DEFINE v == Decrypt(plot, fragment)
           n == HalfXs
<1>1. n \in Nat \ {0} /\ n * n = NumXs
  BY ValidatorAssumption
<1>2. v \in Blocks
  BY EncryptInvertsDecrypt
<1> HIDE DEF v, n
<1>3. v \in 0 .. ((n * n) * (n * n)) - 1
  BY <1>1, <1>2 DEF Blocks
<1>4. v \div (n * n * n) \in 0 .. n - 1
  <2> DEFINE cube == n * n * n
             q == v \div cube
             r == v % cube
  <2>1. cube \in Nat \ {0} /\ (n * n) * (n * n) = n * cube
    BY <1>1, SMT
  <2> HIDE DEF cube
  <2>2. v \in Nat /\ v < n * cube
    <3>1. n * cube \in Nat
      BY <1>1, <2>1
    <3> QED BY <1>3, <2>1, <3>1
  <2>3. v = (cube * q) + r /\ q \in Nat /\ r \in 0 .. cube - 1
    BY <2>1, <2>2, Quotient
  <2> HIDE DEF q, r
  <2>4. q < n
    <3>1. SUFFICES ASSUME n <= q PROVE FALSE
      BY <1>1, <2>3
    <3>2. n * cube <= q * cube /\ q * cube = cube * q /\ cube * q \in Nat /\ n * cube \in Nat
      BY <1>1, <2>1, <2>3, <3>1
    <3> DEFINE a == n * cube
               b == cube * q
    <3>3. a <= b /\ v < a /\ v = b + r /\ r \in Nat /\ a \in Nat /\ b \in Nat
      BY <2>1, <2>2, <2>3, <3>2
    <3> HIDE DEF a, b
    <3> QED BY <3>3
  <2>5. q \in 0 .. n - 1
    BY <1>1, <2>3, <2>4
  <2> QED BY <2>5 DEF q, cube
<1>5. \A a \in Nat : a % n \in 0 .. n - 1
  BY <1>1, Quotient
<1>6. (v \div (n * n)) % n \in 0 .. n - 1
  <2> DEFINE sq == n * n
  <2>1. sq \in Nat \ {0}
    BY <1>1
  <2>2. v \in Nat
    BY <1>2 DEF Blocks
  <2> HIDE DEF sq
  <2>3. v \div sq \in Nat
    BY <2>1, <2>2, Quotient
  <2> QED BY <1>5, <2>3 DEF sq
<1>7. v \in Nat /\ (v \div n) % n \in 0 .. n - 1 /\ v % n \in 0 .. n - 1
  <2>1. v \in Nat
    BY <1>2 DEF Blocks
  <2>2. v \div n \in Nat
    BY <1>1, <2>1, Quotient
  <2> QED BY <1>5, <2>1, <2>2
<1> DEFINE b1 == v \div (n * n * n)
           b2 == (v \div (n * n)) % n
           b3 == (v \div n) % n
           b4 == v % n
<1>8. FragmentBits(plot, fragment) = <<b1, b2, b3, b4>>
  BY Zenon DEF FragmentBits, v, n
<1>9. b1 \in 0 .. n - 1 /\ b2 \in 0 .. n - 1 /\ b3 \in 0 .. n - 1 /\ b4 \in 0 .. n - 1
  BY <1>4, <1>6, <1>7
<1> HIDE DEF b1, b2, b3, b4
<1>10. \A i \in 1 .. 4 : <<b1, b2, b3, b4>>[i] \in 0 .. n - 1
  BY <1>9
<1> QED BY <1>8, <1>10 DEF n

\* The quality string of a call is made of blocks, and its x bits are four for
\* each fragment.
BitsAre ==
  /\ Plot \in Plots /\ asked[2] \in Seq(Blocks) /\ Fragments \in Nat
  /\ XBits \in Seq(0 .. HalfXs - 1) /\ Len(XBits) = 4 * Fragments
  /\ \A f \in 1 .. Fragments :
       /\ asked[2][f] \in Blocks
       /\ \A i \in 1 .. 4 : XBits[(4 * f) - 4 + i] = FragmentBits(Plot, asked[2][f])[i]

\* So it is for every call that can be asked.
LEMMA BitsOfCall ==
  ASSUME asked \in Asked
  PROVE  BitsAre
<1> DEFINE quality == asked[2]
           F == Len(quality)
           At(n) == FragmentBits(Plot, quality[((n - 1) \div 4) + 1])[((n - 1) % 4) + 1]
<1>1. Plot \in Plots /\ quality \in Seq(Blocks)
  BY SolverAssumption DEF Plot
<1>2. F \in Nat /\ \A f \in 1 .. F : quality[f] \in Blocks
  BY <1>1, ListShape
<1>3. XBits = [n \in 1 .. 4 * F |-> At(n)]
  BY DEF XBits
<1>4. Fragments = F
  BY DEF Fragments
<1> HIDE DEF quality, F
<1>5. ASSUME NEW n \in 1 .. 4 * F PROVE At(n) \in 0 .. HalfXs - 1
  <2>1. ((n - 1) \div 4) + 1 \in 1 .. F /\ ((n - 1) % 4) + 1 \in 1 .. 4
    BY <1>2
  <2> DEFINE f == ((n - 1) \div 4) + 1
             i == ((n - 1) % 4) + 1
  <2>2. f \in 1 .. F /\ i \in 1 .. 4
    BY <2>1
  <2> HIDE DEF f, i
  <2>3. FragmentBits(Plot, quality[f])[i] \in 0 .. HalfXs - 1
    BY <1>1, <1>2, <2>2, BitsOfFragment
  <2> QED BY <2>3 DEF f, i
<1>6. ASSUME NEW f \in 1 .. F, NEW i \in 1 .. 4 PROVE At((4 * f) - 4 + i) = FragmentBits(Plot, quality[f])[i]
  <2> DEFINE n == (4 * f) - 4 + i
  <2>1. ((n - 1) \div 4) + 1 = f /\ ((n - 1) % 4) + 1 = i
    BY <1>2
  <2> HIDE DEF n
  <2> QED BY <2>1 DEF n
<1> DEFINE bits == [n \in 1 .. 4 * F |-> At(n)]
<1>7. \A f \in 1 .. F : \A i \in 1 .. 4 : bits[(4 * f) - 4 + i] = FragmentBits(Plot, quality[f])[i]
  <2>1. ASSUME NEW f \in 1 .. F, NEW i \in 1 .. 4 PROVE bits[(4 * f) - 4 + i] = FragmentBits(Plot, quality[f])[i]
    <3>1. (4 * f) - 4 + i \in 1 .. 4 * F
      BY <1>2
    <3> DEFINE m == (4 * f) - 4 + i
    <3>2. m \in 1 .. 4 * F /\ At(m) = FragmentBits(Plot, quality[f])[i]
      BY <1>6, <3>1
    <3> HIDE DEF m, At
    <3>3. bits[m] = At(m)
      BY <3>2
    <3> QED BY <3>2, <3>3 DEF m
  <2> QED BY <2>1
<1>8. bits \in Seq(0 .. HalfXs - 1) /\ Len(bits) = 4 * F
  <2> HIDE DEF At
  <2>1. bits \in [1 .. 4 * F -> 0 .. HalfXs - 1]
    BY <1>5
  <2>2. 4 * F \in Nat
    BY <1>2
  <2> HIDE DEF bits
  <2> QED BY <2>1, <2>2, ListOf
<1> HIDE DEF bits
<1>9. XBits = bits
  BY <1>3 DEF bits
<1> QED BY <1>1, <1>2, <1>4, <1>7, <1>8, <1>9 DEF BitsAre, quality

\* A thread puts away x2 candidates.
LEMMA HitsGood ==
  ASSUME Plot \in Plots, NEW t \in Workers
  PROVE  HitsOf(t) \in Seq(GoodX2(Plot))
<1> DEFINE h == HitsOf(t)
<1>1. HitsTo(Plot, x1s, h, t, ChunkLen(t))
  BY HitsFound
<1> HIDE DEF h
<1>2. h \in Seq(Candidate)
  BY <1>1 DEF HitsTo
<1>3. ASSUME NEW n \in 1 .. Len(h) PROVE h[n] \in GoodX2(Plot)
  <2>1. PICK c \in 1 .. ChunkLen(t) : h[n] = Hit(Plot, XAt(t, c))
    BY <1>1 DEF HitsTo
  <2>2. h[n] \in Candidate
    BY <1>2
  <2> QED BY <2>1, <2>2 DEF GoodX2, Hit
<1>4. h \in [1 .. Len(h) -> GoodX2(Plot)] /\ Len(h) \in Nat
  <2>1. Len(h) \in Nat /\ h = [n \in 1 .. Len(h) |-> h[n]]
    BY <1>2, ListShape
  <2> QED BY <1>3, <2>1
<1> QED BY <1>4, ListOf DEF h

\* A list that ends early.
LEMMA CutShort ==
  ASSUME NEW E, NEW list \in Seq(E), NEW m \in Nat
  PROVE  /\ SubSeq(list, 1, Min({m, Len(list)})) \in Seq(E)
         /\ Len(SubSeq(list, 1, Min({m, Len(list)}))) <= m
         /\ Len(list) < m => SubSeq(list, 1, Min({m, Len(list)})) = list
<1> DEFINE k == Min({m, Len(list)})
<1>1. Len(list) \in Nat
  OBVIOUS
<1>2. k = IF m <= Len(list) THEN m ELSE Len(list)
  BY <1>1, MinPair
<1> HIDE DEF k
<1>3. k \in Nat /\ k <= Len(list) /\ k <= m
  BY <1>1, <1>2
<1>4. SubSeq(list, 1, k) \in Seq(E) /\ Len(SubSeq(list, 1, k)) = k
  BY <1>1, <1>3
<1>5. ASSUME Len(list) < m PROVE SubSeq(list, 1, k) = list
  <2>1. k = Len(list)
    BY <1>1, <1>2, <1>5
  <2> QED BY <1>1, <2>1
<1> QED BY <1>3, <1>4, <1>5 DEF k

\* The parts of the threads, moved together.
LEMMA PartsGood ==
  ASSUME NEW E, \A t \in Workers : found[t] \in Seq(E)
  PROVE  PartsOf[Threads] \in Seq(E)
<1> DEFINE V == Seq(E)
           step == [p \in (1 .. Threads) \X V |-> p[2] \o found[p[1] - 1]]
<1>1. Threads \in Nat \ {0}
  BY SolverAssumption
<1>2. \A n \in 1 .. Threads : found[n - 1] \in Seq(E)
  BY <1>1 DEF Workers
<1>3. step \in [(1 .. Threads) \X V -> V]
  <2>1. ASSUME NEW n \in 1 .. Threads, NEW v \in V PROVE v \o found[n - 1] \in V
    BY <1>2
  <2> HIDE DEF V
  <2> QED BY <2>1
<1>4. \A n \in 1 .. Threads, v \in V : step[<<n, v>>] = v \o found[n - 1]
  <2> HIDE DEF V
  <2> QED OBVIOUS
<1>5. <<>> \in V
  OBVIOUS
<1> HIDE DEF V, step
<1>r. PICK f : Recurs(f, Threads, V, <<>>, step)
  BY <1>1, <1>3, <1>5, BoundedRecursion
<1>6. f \in [0 .. Threads -> V] /\ f = [n \in 0 .. Threads |-> IF n = 0 THEN <<>> ELSE step[<<n, f[n - 1]>>]]
  BY <1>r DEF Recurs
<1>7. f = [n \in 0 .. Threads |-> IF n = 0 THEN <<>> ELSE f[n - 1] \o found[n - 1]]
  <2>1. ASSUME NEW n \in 0 .. Threads, n # 0 PROVE step[<<n, f[n - 1]>>] = f[n - 1] \o found[n - 1]
    <3>1. n \in 1 .. Threads /\ n - 1 \in 0 .. Threads
      BY <1>1, <2>1
    <3> QED BY <1>4, <1>6, <3>1
  <2> QED BY <1>6, <2>1
<1>8. PartsOf = [n \in 0 .. Threads |-> IF n = 0 THEN <<>> ELSE PartsOf[n - 1] \o found[n - 1]]
  BY <1>7 DEF PartsOf
<1> DEFINE S == {n \in Nat : n <= Threads => PartsOf[n] \in V}
<1>9. 0 \in S
  BY <1>1, <1>5, <1>8
<1>10. ASSUME NEW n \in Nat, n \in S PROVE n + 1 \in S
  <2>1. SUFFICES ASSUME n + 1 <= Threads PROVE PartsOf[n + 1] \in V
    OBVIOUS
  <2>2. PartsOf[n] \in V /\ n + 1 \in 0 .. Threads /\ n + 1 # 0 /\ (n + 1) - 1 = n /\ n + 1 \in 1 .. Threads
    BY <1>1, <1>10, <2>1
  <2>3. PartsOf[n + 1] = PartsOf[n] \o found[n]
    BY <1>8, <2>2
  <2>4. found[n] \in Seq(E)
    BY <1>2, <2>2
  <2> QED BY <2>2, <2>3, <2>4 DEF V
<1>11. \A n \in Nat : n \in S
  <2> HIDE DEF S
  <2> QED BY <1>9, <1>10, Inductive
<1> QED BY <1>1, <1>11 DEF V

-----------------------------------------------------------------------------
(* Halves of lists                                                         *)

\* Lists with the same entries are the same.
LEMMA SameList ==
  ASSUME NEW E, NEW a \in Seq(E), NEW b \in Seq(E), Len(a) = Len(b), \A i \in 1 .. Len(a) : a[i] = b[i]
  PROVE  a = b
<1>1. a = [i \in 1 .. Len(a) |-> a[i]] /\ b = [i \in 1 .. Len(a) |-> b[i]]
  BY ListShape
<1> QED BY <1>1

\* Two lists joined, and cut where they were joined.
Halved(E, n, a, b, l) ==
  /\ l \in [1 .. 2 * n -> E] /\ l \in Seq(E) /\ Len(l) = 2 * n
  /\ LeftHalf(l) = a /\ RightHalf(l) = b
  /\ \A i \in 1 .. n : l[i] = a[i] /\ l[i + n] = b[i]

\* Two lists of one length, joined, have them as their halves.
LEMMA JoinedHalves ==
  ASSUME NEW E, NEW n \in Nat, NEW a \in [1 .. n -> E], NEW b \in [1 .. n -> E]
  PROVE  Halved(E, n, a, b, a \o b)
<1>1. a \in Seq(E) /\ b \in Seq(E) /\ Len(a) = n /\ Len(b) = n
  BY ListOf
<1> DEFINE l == a \o b
<1>2. l \in Seq(E) /\ Len(l) = 2 * n
  BY <1>1
<1>3. \A i \in 1 .. n : l[i] = a[i]
  BY <1>1
<1>4. \A i \in 1 .. n : l[i + n] = b[i]
  BY <1>1
<1> HIDE DEF l
<1>5. l \in [1 .. 2 * n -> E]
  BY <1>2
<1>6. Len(l) \div 2 = n
  BY <1>2
<1>7. LeftHalf(l) = a
  <2>1. LeftHalf(l) = SubSeq(l, 1, n)
    BY <1>6 DEF LeftHalf
  <2>2. SubSeq(l, 1, n) = [i \in 1 .. n |-> l[i]]
    BY <1>2
  <2>3. [i \in 1 .. n |-> l[i]] = [i \in 1 .. n |-> a[i]]
    BY <1>3
  <2> QED BY <2>1, <2>2, <2>3
<1>8. RightHalf(l) = b
  <2>1. RightHalf(l) = SubSeq(l, n + 1, 2 * n)
    BY <1>2, <1>6 DEF RightHalf
  <2> DEFINE r == SubSeq(l, n + 1, 2 * n)
  <2>2. r \in Seq(E) /\ Len(r) = n /\ \A i \in 1 .. n : r[i] = l[i + n]
    BY <1>2
  <2> HIDE DEF r
  <2>3. \A i \in 1 .. n : r[i] = b[i]
    BY <1>4, <2>2
  <2>4. r = [i \in 1 .. n |-> r[i]] /\ b = [i \in 1 .. n |-> b[i]]
    BY <2>2
  <2>5. r = b
    BY <2>3, <2>4
  <2> QED BY <2>1, <2>5 DEF r
<1>9. Halved(E, n, a, b, l)
  BY <1>2, <1>3, <1>4, <1>5, <1>7, <1>8 DEF Halved
<1> QED BY <1>9 DEF l

\* The halves of two x values.
LEMMA PairHalves ==
  ASSUME NEW a \in Xs, NEW b \in Xs
  PROVE  LeftHalf(<<a, b>>) = <<a>> /\ RightHalf(<<a, b>>) = <<b>>
<1>1. <<a>> \in [1 .. 1 -> Xs] /\ <<b>> \in [1 .. 1 -> Xs]
  <2>1. \A z \in Xs : <<z>> \in [1 .. 1 -> Xs]
    OBVIOUS
  <2> QED BY <2>1
<1>2. <<a, b>> = <<a>> \o <<b>>
  <2>1. <<a>> \o <<b>> \in Seq(Xs) /\ Len(<<a>> \o <<b>>) = 2 /\ (<<a>> \o <<b>>)[1] = a /\ (<<a>> \o <<b>>)[2] = b
    <3>1. <<a>> \in Seq(Xs) /\ <<b>> \in Seq(Xs) /\ Len(<<a>>) = 1 /\ Len(<<b>>) = 1
      OBVIOUS
    <3>2. <<a>>[1] = a /\ <<b>>[1] = b
      OBVIOUS
    <3> QED BY <3>1, <3>2
  <2>2. <<a, b>> \in Seq(Xs) /\ Len(<<a, b>>) = 2 /\ <<a, b>>[1] = a /\ <<a, b>>[2] = b
    OBVIOUS
  <2> DEFINE p == <<a>> \o <<b>>
             q == <<a, b>>
  <2>3. p \in Seq(Xs) /\ q \in Seq(Xs) /\ Len(p) = 2 /\ Len(q) = 2 /\ p[1] = q[1] /\ p[2] = q[2]
    BY <2>1, <2>2
  <2> HIDE DEF p, q
  <2>4. \A i \in 1 .. Len(p) : p[i] = q[i]
    BY <2>3
  <2>5. q = p
    BY <2>3, <2>4, SameList
  <2> QED BY <2>5 DEF p, q
<1>3. Halved(Xs, 1, <<a>>, <<b>>, <<a>> \o <<b>>)
  BY <1>1, JoinedHalves
<1> QED BY <1>2, <1>3 DEF Halved

\* The halves of four x values.
LEMMA FourHalves ==
  ASSUME NEW a \in Xs, NEW b \in Xs, NEW c \in Xs, NEW d \in Xs
  PROVE  /\ <<a, b, c, d>> \in [1 .. 4 -> Xs]
         /\ LeftHalf(<<a, b, c, d>>) = <<a, b>> /\ RightHalf(<<a, b, c, d>>) = <<c, d>>
<1>1. <<a, b>> \in [1 .. 2 -> Xs] /\ <<c, d>> \in [1 .. 2 -> Xs]
  OBVIOUS
<1>2. <<a, b, c, d>> = <<a, b>> \o <<c, d>>
  OBVIOUS
<1>3. <<a, b, c, d>> \in [1 .. 4 -> Xs]
  OBVIOUS
<1>4. Halved(Xs, 2, <<a, b>>, <<c, d>>, <<a, b>> \o <<c, d>>)
  BY <1>1, JoinedHalves
<1> QED BY <1>2, <1>3, <1>4 DEF Halved

-----------------------------------------------------------------------------
(* Table 1                                                                 *)

\* Candidates of one match info that the filter lets through are a pair the
\* validator accepts.
LEMMA PairFound ==
  ASSUME NEW plot \in Plots, NEW e1 \in GoodX1(plot), NEW e2 \in GoodX2(plot), e1.hash = e2.hash,
         Passes(plot, 1, <<e1.x, e2.x>>)
  PROVE  [x1 |-> e1.x, x2 |-> e2.x, hash |-> Info(plot, 1, <<e1.x, e2.x>>)] \in GoodMatch(plot)
<1> DEFINE a == e1.x
           b == e2.x
           left == Info(plot, 0, <<a>>)
           hash == Info(plot, 1, <<a, b>>)
           m == [x1 |-> a, x2 |-> b, hash |-> hash]
<1>1. a \in Xs /\ b \in Xs
  BY CandidateHash DEF GoodX1, GoodX2
<1>2. PICK key \in 0 .. MatchKeys[1] - 1 : e1.hash = InfoToMatch(1, left, key, TargetOf(plot, 1, <<a>>, key))
  BY DEF GoodX1
<1>3. e2.hash = Info(plot, 0, <<b>>)
  BY DEF GoodX2
<1>4. Info(plot, 0, <<b>>) = InfoToMatch(1, left, key, TargetOf(plot, 1, <<a>>, key))
  BY <1>2, <1>3
<1> HIDE DEF a, b
<1>5. left \in Xs /\ TargetOf(plot, 1, <<a>>, key) \in 0 .. Targets(1) - 1 /\ hash \in Xs
  BY <1>1, HashAssumption
<1> HIDE DEF left, hash
<1>6. /\ SectionOf(Info(plot, 0, <<b>>)) = MatchingSection(SectionOf(left))
      /\ KeyOf(1, Info(plot, 0, <<b>>)) = key
      /\ TargetIn(1, Info(plot, 0, <<b>>)) = TargetOf(plot, 1, <<a>>, key)
  <2>1. 1 \in 1 .. 3
    OBVIOUS
  <2> QED BY <1>4, <1>5, <2>1, InfoParts
<1>7. InfosMatch(plot, 1, <<a>>, Info(plot, 0, <<a>>), Info(plot, 0, <<b>>))
  BY <1>6 DEF InfosMatch, left
<1>8. ValidPair(plot, <<a, b>>)
  <2>1. Passes(plot, 1, <<a, b>>)
    BY DEF a, b
  <2>2. 1 - 1 = 0
    OBVIOUS
  <2> QED BY <1>1, <1>7, <2>1, <2>2, PairHalves DEF ValidPair, Pairs
<1>9. m \in Match /\ m.x1 = a /\ m.x2 = b /\ m.hash = hash
  BY <1>1, <1>5 DEF Match
<1> HIDE DEF m
<1>10. m \in GoodMatch(plot)
  BY <1>8, <1>9 DEF GoodMatch, hash
<1> QED BY <1>10 DEF m, hash, a, b

\* A section begins within the list, or at its end.
LEMMA BoundIn ==
  ASSUME NEW E, \A e \in E : e.hash \in Nat, NEW list \in Seq(E), NEW s \in Sections
  PROVE  SectionBound(list, s) \in 0 .. Len(list)
<1> DEFINE N == Len(list)
           Sec(i) == SectionOf(list[i + 1].hash)
           ideal == Min({s * (N \div 4), N - 1})
           back == Max({i \in 0 .. ideal : i = 0 \/ Sec(i) <= s})
           A == {N} \cup {i \in ideal .. N - 1 : Sec(i) >= s}
           B == {i \in 0 .. ideal : i = 0 \/ Sec(i) <= s}
           C == {i \in 0 .. ideal : \A j \in i .. ideal : Sec(j) = s}
<1>1. N \in Nat /\ s \in Nat
  BY DEF Sections
<1>2. SectionBound(list, s) =
        CASE N = 0 -> 0
          [] N > 0 /\ Sec(ideal) < s -> Min(A)
          [] N > 0 /\ Sec(ideal) > s -> IF Sec(Max(B)) < s THEN Max(B) + 1 ELSE Max(B)
          [] N > 0 /\ Sec(ideal) = s -> Min(C)
  BY Zenon DEF SectionBound
<1>3. CASE N = 0
  BY <1>2, <1>3
<1>4. CASE N > 0
  <2>1. ideal \in 0 .. N - 1
    <3> DEFINE d == N \div 4
    <3>1. d \in Nat
      BY <1>1
    <3> HIDE DEF d
    <3>2. s * d \in Nat /\ N - 1 \in Nat
      BY <1>1, <1>4, <3>1
    <3> DEFINE p == s * d
    <3> HIDE DEF p
    <3>3. Min({p, N - 1}) = IF p <= N - 1 THEN p ELSE N - 1
      BY <3>2, MinPair DEF p
    <3>4. Min({p, N - 1}) \in 0 .. N - 1
      BY <1>1, <3>2, <3>3 DEF p
    <3> QED BY <3>4 DEF p, d
  <2>2. \A i \in 0 .. N - 1 : Sec(i) \in Nat
    <3>1. SectionSize \in Nat \ {0}
      <4>1. 1 \in 1 .. 3
        OBVIOUS
      <4> QED BY <4>1, Sizes
    <3>2. ASSUME NEW i \in 0 .. N - 1 PROVE Sec(i) \in Nat
      <4> DEFINE h == list[i + 1].hash
      <4>1. list[i + 1] \in E
        <5>1. i + 1 \in 1 .. Len(list)
          BY <1>1
        <5> QED BY <5>1, ListShape
      <4>2. h \in Nat
        BY <4>1
      <4> HIDE DEF h
      <4>3. h \div SectionSize \in Nat
        BY <3>1, <4>2, Quotient
      <4> QED BY <4>3 DEF SectionOf, h
    <3> QED BY <3>2
  <2> HIDE DEF N, ideal
  <2>3. Sec(ideal) \in Nat
    BY <2>1, <2>2
  <2> HIDE DEF Sec
  <2>4. Min(A) \in 0 .. N
    <3>1. A \subseteq Nat /\ A # {}
      BY <1>1, <2>1
    <3>2. A \subseteq 0 .. N
      BY <1>1, <2>1
    <3> HIDE DEF A
    <3> QED BY <3>1, <3>2, MinNat
  <2>5. Max(B) \in 0 .. N - 1
    <3>1. B \subseteq Nat /\ 0 \in B /\ B # {} /\ \A x \in B : x <= ideal
      BY <1>1, <2>1
    <3>2. B \subseteq 0 .. N - 1
      BY <1>1, <2>1
    <3> HIDE DEF B
    <3>3. ideal \in Nat
      BY <1>1, <2>1
    <3>4. Max(B) \in B
      BY <3>1, <3>3, MaxNat
    <3> QED BY <3>2, <3>4
  <2>6. CASE Sec(ideal) < s
    <3>1. SectionBound(list, s) = Min(A)
      BY <1>1, <1>2, <1>4, <2>3, <2>6
    <3> QED BY <2>4, <3>1 DEF N
  <2>7. CASE Sec(ideal) > s
    <3>1. SectionBound(list, s) = IF Sec(Max(B)) < s THEN Max(B) + 1 ELSE Max(B)
      BY <1>1, <1>2, <1>4, <2>3, <2>7
    <3> DEFINE m == Max(B)
    <3>2. m \in 0 .. N - 1
      BY <2>5
    <3> HIDE DEF m, B
    <3>3. m \in 0 .. N /\ m + 1 \in 0 .. N
      BY <1>1, <3>2
    <3>4. SectionBound(list, s) = m + 1 \/ SectionBound(list, s) = m
      BY <3>1 DEF m
    <3> QED BY <3>3, <3>4 DEF N
  <2>8. CASE Sec(ideal) = s
    <3>1. SectionBound(list, s) = Min(C)
      BY <1>1, <1>2, <1>4, <2>3, <2>8
    <3>2. C \subseteq Nat /\ ideal \in C
      <4>1. \A j \in ideal .. ideal : j = ideal
        BY <1>1, <2>1
      <4> QED BY <1>1, <2>1, <2>8, <4>1
    <3>3. C \subseteq 0 .. N
      BY <1>1, <2>1
    <3> HIDE DEF C
    <3>4. Min(C) \in C
      BY <3>2, MinNat
    <3> QED BY <3>1, <3>3, <3>4 DEF N
  <2> QED BY <1>1, <2>3, <2>6, <2>7, <2>8
<1> QED BY <1>1, <1>3, <1>4

\* The groups of the x ranges.
LEMMA GroupsGood ==
  ASSUME NEW matches \in Seq(GoodMatch(Plot)), NEW g \in DOMAIN unique
  PROVE  GroupsOf(matches)[g] \in Seq(MatchesIn(Plot, unique[g]))
<1> DEFINE bits == unique[g]
           G == GoodMatch(Plot)
           at == {i \in DOMAIN matches : Upper(matches[i].x1) = bits}
           at2 == {i \in DOMAIN matches : matches[i] \in MatchesIn(Plot, bits)}
<1>1. GroupsOf(matches)[g] = Those(matches, at)
  BY DEF GroupsOf
<1>2. \A i \in DOMAIN matches : matches[i] \in G
  <2>1. matches \in Seq(G)
    OBVIOUS
  <2> HIDE DEF G
  <2> QED BY <2>1, ListShape
<1>3. at = at2
  BY <1>2 DEF MatchesIn
<1>4. Those(matches, at2) \in Seq(G \cap MatchesIn(Plot, bits))
  BY ThoseIn
<1>5. G \cap MatchesIn(Plot, bits) = MatchesIn(Plot, bits)
  BY DEF MatchesIn
<1> QED BY <1>1, <1>3, <1>4, <1>5

-----------------------------------------------------------------------------
(* Table 2                                                                 *)

\* The right group of table 2, in an order of its hashes.
LEMMA OrdersIn ==
  ASSUME NEW E, NEW list \in Seq(E), NEW r \in SortedOrders(list)
  PROVE  r \in Seq(E) /\ Len(r) = Len(list)
<1> DEFINE N == DOMAIN list
<1>1. PICK p \in [N -> N] : r = [i \in N |-> list[p[i]]]
  BY DEF SortedOrders
<1>2. N = 1 .. Len(list) /\ Len(list) \in Nat /\ \A i \in N : list[i] \in E
  BY ListShape
<1> HIDE DEF N
<1>3. r \in [1 .. Len(list) -> E]
  BY <1>1, <1>2
<1> QED BY <1>2, <1>3, ListOf

\* Matches whose infos match under a key and which the filter lets through are
\* four x values the validator accepts.
LEMMA FourFound ==
  ASSUME NEW plot \in Plots, NEW m \in GoodMatch(plot), NEW b, NEW r \in MatchesIn(plot, b),
         NEW key \in 0 .. MatchKeys[2] - 1,
         r.hash = InfoToMatch(2, m.hash, key, TargetOf(plot, 2, <<m.x1, m.x2>>, key)),
         Passes(plot, 2, <<m.x1, m.x2, r.x1, r.x2>>)
  PROVE  <<m.x1, m.x2, r.x1, r.x2>> \in Fours(plot, Upper(m.x1), b)
<1> DEFINE a1 == m.x1
           a2 == m.x2
           b1 == r.x1
           b2 == r.x2
           xs == <<a1, a2, b1, b2>>
<1>1. /\ a1 \in Xs /\ a2 \in Xs /\ b1 \in Xs /\ b2 \in Xs
      /\ ValidPair(plot, <<a1, a2>>) /\ ValidPair(plot, <<b1, b2>>)
      /\ m.hash = Info(plot, 1, <<a1, a2>>) /\ r.hash = Info(plot, 1, <<b1, b2>>)
      /\ Upper(b1) = b
  BY DEF GoodMatch, MatchesIn, Match
<1>2. Passes(plot, 2, xs)
  OBVIOUS
<1>3. Info(plot, 1, <<b1, b2>>) =
        InfoToMatch(2, Info(plot, 1, <<a1, a2>>), key, TargetOf(plot, 2, <<a1, a2>>, key))
  BY <1>1
<1> HIDE DEF a1, a2, b1, b2
<1>4. /\ Info(plot, 1, <<a1, a2>>) \in Xs
      /\ TargetOf(plot, 2, <<a1, a2>>, key) \in 0 .. Targets(2) - 1
  BY <1>1, HashAssumption
<1>5. /\ SectionOf(Info(plot, 1, <<b1, b2>>)) = MatchingSection(SectionOf(Info(plot, 1, <<a1, a2>>)))
      /\ KeyOf(2, Info(plot, 1, <<b1, b2>>)) = key
      /\ TargetIn(2, Info(plot, 1, <<b1, b2>>)) = TargetOf(plot, 2, <<a1, a2>>, key)
  <2>1. 2 \in 1 .. 3
    OBVIOUS
  <2> QED BY <1>3, <1>4, <2>1, InfoParts
<1>6. InfosMatch(plot, 2, <<a1, a2>>, Info(plot, 1, <<a1, a2>>), Info(plot, 1, <<b1, b2>>))
  BY <1>5 DEF InfosMatch
<1>7. xs \in [1 .. 4 -> Xs] /\ LeftHalf(xs) = <<a1, a2>> /\ RightHalf(xs) = <<b1, b2>>
  BY <1>1, FourHalves
<1>8. xs[1] = a1 /\ xs[3] = b1
  OBVIOUS
<1> HIDE DEF xs
<1>9. ValidPairs2(plot, xs)
  <2>1. 2 - 1 = 1
    OBVIOUS
  <2>2. Pairs(plot, 2, xs)
    BY <1>2, <1>6, <1>7, <2>1 DEF Pairs
  <2> QED BY <1>1, <1>7, <2>2 DEF ValidPairs2
<1>10. xs \in Fours(plot, Upper(a1), b)
  BY <1>1, <1>7, <1>8, <1>9 DEF Fours
<1> QED BY <1>10 DEF xs, a1, a2, b1, b2

\* What a left entry adds to the matches of its group.
LEMMA LocalOutGood ==
  ASSUME Plot \in Plots, NEW m \in GoodMatch(Plot), NEW b, right \in Seq(MatchesIn(Plot, b))
  PROVE  LocalOut(m) \in Seq(Fours(Plot, Upper(m.x1), b))
<1> DEFINE L == Len(right)
           K2 == MatchKeys[2]
           Key(n) == n \div L
           At(n) == (n % L) + 1
           Four(n) == <<m.x1, m.x2, right[At(n)].x1, right[At(n)].x2>>
           S == {n \in 0 .. (K2 * L) - 1 :
                         /\ At(n) \in Bucket(WantedHash(m, Key(n)) \div Reduce)
                         /\ right[At(n)].hash = WantedHash(m, Key(n))
                         /\ Passes(Plot, 2, Four(n))}
           o == InOrder(S)
           F == Fours(Plot, Upper(m.x1), b)
<1>1. LocalOut(m) = [i \in DOMAIN o |-> Four(o[i])]
  BY DEF LocalOut
<1>2. L \in Nat /\ K2 \in Nat \ {0} /\ \A i \in 1 .. L : right[i] \in MatchesIn(Plot, b)
  BY ValidatorAssumption, ListShape
<1>3. S \subseteq 0 .. (K2 * L) - 1 /\ S \subseteq Nat
  OBVIOUS
<1>4. ASSUME NEW n \in S PROVE Four(n) \in F
  <2>1. n \in Nat /\ n < K2 * L /\ right[At(n)].hash = WantedHash(m, Key(n)) /\ Passes(Plot, 2, Four(n))
    <3>1. n \in 0 .. (K2 * L) - 1 /\ K2 * L \in Nat
      BY <1>2, <1>3
    <3> QED BY <3>1
  <2>2. L # 0
    BY <1>2, <2>1
  <2>3. At(n) \in 1 .. L
    <3> HIDE DEF L
    <3>1. n % L \in 0 .. L - 1
      BY <1>2, <2>1, <2>2, Quotient
    <3> QED BY <1>2, <3>1
  <2>4. Key(n) \in 0 .. K2 - 1
    <3> HIDE DEF L, K2
    <3> DEFINE q == n \div L
               r == n % L
    <3>1. q \in Nat /\ r \in 0 .. L - 1 /\ n = (L * q) + r
      BY <1>2, <2>1, <2>2, Quotient
    <3> HIDE DEF q, r
    <3>2. q < K2
      <4>1. SUFFICES ASSUME K2 <= q PROVE FALSE
        BY <1>2, <3>1
      <4>2. K2 * L <= q * L /\ q * L = L * q /\ L * q \in Nat /\ K2 * L \in Nat
        BY <1>2, <3>1, <4>1
      <4> DEFINE u == K2 * L
                 w == L * q
      <4>3. u <= w /\ n < u /\ n = w + r /\ r \in Nat /\ u \in Nat /\ w \in Nat
        BY <1>2, <2>1, <3>1, <4>2
      <4> HIDE DEF u, w
      <4> QED BY <4>3
    <3>3. q \in 0 .. K2 - 1
      BY <1>2, <3>1, <3>2
    <3> QED BY <3>3 DEF q
  <2> DEFINE r == right[At(n)]
             key == Key(n)
  <2>5. r \in MatchesIn(Plot, b) /\ key \in 0 .. MatchKeys[2] - 1
    BY <1>2, <2>3, <2>4
  <2>6. r.hash = InfoToMatch(2, m.hash, key, TargetOf(Plot, 2, <<m.x1, m.x2>>, key))
    BY <2>1 DEF WantedHash
  <2>7. Passes(Plot, 2, <<m.x1, m.x2, r.x1, r.x2>>) /\ Four(n) = <<m.x1, m.x2, r.x1, r.x2>>
    BY <2>1
  <2> HIDE DEF r, key, Four
  <2> QED BY <2>5, <2>6, <2>7, FourFound
<1> HIDE DEF S
<1>5. IsFiniteSet(S)
  <2>1. K2 * L \in Nat
    BY <1>2
  <2> DEFINE k == (K2 * L) - 1
  <2>2. k \in Int /\ S \subseteq 0 .. k
    BY <1>3, <2>1
  <2> HIDE DEF k
  <2>3. IsFiniteSet(0 .. k)
    BY <2>2, FS_Interval
  <2> QED BY <2>2, <2>3, FS_Subset
<1>6. Lists(o, S)
  BY <1>3, <1>5, InOrderLists
<1> DEFINE N == Cardinality(S)
<1> HIDE DEF o
<1>7. N \in Nat /\ o \in [1 .. N -> S]
  BY <1>6 DEF Lists
<1> HIDE DEF N, Four, F
<1>8. LocalOut(m) = [i \in 1 .. N |-> Four(o[i])]
  BY <1>1, <1>7
<1>9. [i \in 1 .. N |-> Four(o[i])] \in [1 .. N -> F]
  BY <1>4, <1>7
<1>10. LocalOut(m) \in Seq(F)
  BY <1>7, <1>8, <1>9, ListOf
<1> QED BY <1>10 DEF F

-----------------------------------------------------------------------------
(* Table 3 and the proofs                                                  *)

\* Two lists multiplied out.
LEMMA ProductGood ==
  ASSUME NEW E, NEW F, NEW G, NEW a \in Seq(E), NEW b \in Seq(F), \A e \in E, f \in F : e \o f \in G
  PROVE  Product(a, b) \in Seq(G)
<1> DEFINE m == Len(a)
           k == Len(b)
           P == m * k
           At(n) == a[((n - 1) \div k) + 1] \o b[((n - 1) % k) + 1]
<1>1. m \in Nat /\ k \in Nat /\ (\A i \in 1 .. m : a[i] \in E) /\ (\A i \in 1 .. k : b[i] \in F)
  BY ListShape
<1>2. Product(a, b) = [n \in 1 .. P |-> At(n)]
  BY DEF Product
<1> HIDE DEF m, k
<1>3. P \in Nat
  BY <1>1
<1>4. ASSUME NEW n \in 1 .. P PROVE At(n) \in G
  <2> DEFINE j == n - 1
             q == j \div k
             r == j % k
  <2>1. j \in Nat /\ j < m * k /\ k \in Nat \ {0}
    <3>1. k = 0 => P = 0
      BY <1>1
    <3> HIDE DEF P
    <3>2. n \in Nat /\ n >= 1 /\ n <= P
      BY <1>3
    <3>3. j \in Nat /\ j < P
      BY <1>3, <3>2
    <3> QED BY <1>1, <1>3, <3>1, <3>2, <3>3 DEF P
  <2> HIDE DEF j
  <2>2. q \in Nat /\ r \in 0 .. k - 1 /\ j = (k * q) + r
    BY <2>1, Quotient
  <2> HIDE DEF q, r
  <2>3. q < m
    <3>1. SUFFICES ASSUME m <= q PROVE FALSE
      BY <1>1, <2>2
    <3>2. m * k <= q * k /\ q * k = k * q /\ k * q \in Nat /\ m * k \in Nat
      BY <1>1, <2>2, <3>1
    <3> DEFINE u == m * k
               w == k * q
    <3>3. u <= w /\ j < u /\ j = w + r /\ r \in Nat /\ u \in Nat /\ w \in Nat
      BY <2>1, <2>2, <3>2
    <3> HIDE DEF u, w
    <3> QED BY <3>3
  <2>4. q + 1 \in 1 .. m /\ r + 1 \in 1 .. k
    BY <1>1, <2>1, <2>2, <2>3
  <2>5. a[q + 1] \o b[r + 1] \in G
    BY <1>1, <2>4
  <2> QED BY <2>5 DEF q, r, j
<1> HIDE DEF P, At
<1>5. [n \in 1 .. P |-> At(n)] \in [1 .. P -> G]
  BY <1>4
<1> QED BY <1>2, <1>3, <1>5, ListOf

\* The four x bits of a fragment are those of the four x ranges of its place.
LEMMA BitsAt ==
  ASSUME BitsAre, NEW f \in 1 .. Fragments
  PROVE  FragmentBits(Plot, asked[2][f]) =
           <<XBits[(4 * f) - 3], XBits[(4 * f) - 2], XBits[(4 * f) - 1], XBits[4 * f]>>
<1> DEFINE bits == FragmentBits(Plot, asked[2][f])
<1>1. f \in Nat
  BY DEF BitsAre
<1>2. \A i \in 1 .. 4 : XBits[(4 * f) - 4 + i] = bits[i]
  BY DEF BitsAre
<1>3. (4 * f) - 4 + 1 = (4 * f) - 3 /\ (4 * f) - 4 + 2 = (4 * f) - 2 /\ (4 * f) - 4 + 3 = (4 * f) - 1
      /\ (4 * f) - 4 + 4 = 4 * f
  BY <1>1
<1>4. 1 \in 1 .. 4 /\ 2 \in 1 .. 4 /\ 3 \in 1 .. 4 /\ 4 \in 1 .. 4
  OBVIOUS
<1>5. bits = <<bits[1], bits[2], bits[3], bits[4]>>
  BY DEF FragmentBits
<1> HIDE DEF bits
<1>6. /\ XBits[(4 * f) - 3] = bits[1] /\ XBits[(4 * f) - 2] = bits[2]
      /\ XBits[(4 * f) - 1] = bits[3] /\ XBits[4 * f] = bits[4]
  BY <1>2, <1>3, <1>4
<1> QED BY <1>5, <1>6 DEF bits

\* Two matches of table 2 of a fragment's x ranges encode to it.
LEMMA EightMade ==
  ASSUME BitsAre, NEW f \in 1 .. Fragments,
         NEW l \in Fours(Plot, XBits[(4 * f) - 3], XBits[(4 * f) - 2]),
         NEW r \in Fours(Plot, XBits[(4 * f) - 1], XBits[4 * f])
  PROVE  l \o r \in [1 .. 8 -> Xs] /\ EncodeFragment(Plot, l \o r) = asked[2][f]
<1> DEFINE fragment == asked[2][f]
           bits == FragmentBits(Plot, fragment)
           xs == l \o r
<1>1. Plot \in Plots /\ fragment \in Blocks
  BY DEF BitsAre
<1>2. bits = <<XBits[(4 * f) - 3], XBits[(4 * f) - 2], XBits[(4 * f) - 1], XBits[4 * f]>>
  BY BitsAt
<1> HIDE DEF bits
<1>3. l \in [1 .. 4 -> Xs] /\ r \in [1 .. 4 -> Xs] /\ bits = <<Upper(l[1]), Upper(l[3]), Upper(r[1]), Upper(r[3])>>
  BY <1>2 DEF Fours
<1>4. Halved(Xs, 4, l, r, xs)
  BY <1>3, JoinedHalves
<1> HIDE DEF xs
<1>5. xs \in [1 .. 8 -> Xs] /\ xs[1] = l[1] /\ xs[3] = l[3] /\ xs[5] = r[1] /\ xs[7] = r[3]
  <2>1. xs \in [1 .. 2 * 4 -> Xs] /\ \A i \in 1 .. 4 : xs[i] = l[i] /\ xs[i + 4] = r[i]
    BY <1>4 DEF Halved
  <2>2. 1 \in 1 .. 4 /\ 3 \in 1 .. 4 /\ 1 + 4 = 5 /\ 3 + 4 = 7 /\ 2 * 4 = 8
    OBVIOUS
  <2> QED BY <2>1, <2>2
<1>6. <<Upper(xs[1]), Upper(xs[3]), Upper(xs[5]), Upper(xs[7])>> = bits
  BY <1>3, <1>5
<1>7. EncodeFragment(Plot, xs) = fragment
  BY <1>1, <1>6, FragmentOfBits DEF bits
<1> QED BY <1>5, <1>7 DEF xs

\* The matches of table 3 of a fragment are proofs of it.
LEMMA T3Good ==
  ASSUME BitsAre, NEW f \in 1 .. Fragments,
         t2[2 * f - 1] \in Seq(Fours(Plot, XBits[(4 * f) - 3], XBits[(4 * f) - 2])),
         t2[2 * f] \in Seq(Fours(Plot, XBits[(4 * f) - 1], XBits[4 * f]))
  PROVE  T3Of(f) \in Seq(Eights(Plot, asked[2][f]))
<1> DEFINE fragment == asked[2][f]
           A == Fours(Plot, XBits[(4 * f) - 3], XBits[(4 * f) - 2])
           B == Fours(Plot, XBits[(4 * f) - 1], XBits[4 * f])
           G == {xs \in [1 .. 8 -> Xs] : EncodeFragment(Plot, xs) = fragment}
           eights == Product(t2[2 * f - 1], t2[2 * f])
<1>1. \A l \in A, r \in B : l \o r \in G
  BY EightMade
<1> HIDE DEF A, B, G
<1>2. eights \in Seq(G)
  <2>1. t2[2 * f - 1] \in Seq(A) /\ t2[2 * f] \in Seq(B)
    BY DEF A, B
  <2> QED BY <1>1, <2>1, ProductGood
<1> DEFINE V == Eights(Plot, fragment)
           at == {i \in DOMAIN eights : ValidPairs3(Plot, eights[i])}
<1>3. T3Of(f) = Those(eights, at)
  BY DEF T3Of
<1> HIDE DEF eights
<1>4. \A i \in DOMAIN eights : eights[i] \in G
  BY <1>2, ListShape
<1>5. at = {i \in DOMAIN eights : eights[i] \in V}
  BY <1>4 DEF Eights, G
<1>6. Those(eights, at) \in Seq(G \cap V)
  BY <1>2, <1>5, ThoseIn
<1>7. G \cap V = V
  BY DEF Eights, G
<1> QED BY <1>3, <1>6, <1>7

\* Two lists joined.
Joins(E, a, b, l) ==
  /\ l \in Seq(E) /\ Len(l) = Len(a) + Len(b)
  /\ \A i \in 1 .. Len(a) : l[i] = a[i]
  /\ \A i \in 1 .. Len(b) : l[i + Len(a)] = b[i]

\* Concatenation does.
LEMMA ListsJoined ==
  ASSUME NEW E, NEW a \in Seq(E), NEW b \in Seq(E)
  PROVE  Joins(E, a, b, a \o b)
<1>1. a \o b \in Seq(E) /\ Len(a \o b) = Len(a) + Len(b)
  OBVIOUS
<1>2. ASSUME NEW i \in 1 .. Len(a) PROVE (a \o b)[i] = a[i]
  OBVIOUS
<1>3. ASSUME NEW i \in 1 .. Len(b) PROVE (a \o b)[i + Len(a)] = b[i]
  OBVIOUS
<1> QED BY <1>1, <1>2, <1>3 DEF Joins

\* Proofs of the first fragments of a quality string.
Full(plot, quality, n) ==
  {p \in Seq(Xs) : Len(p) = 8 * n /\ \A f \in 1 .. n : EightOf(p, f) \in Eights(plot, quality[f])}

\* Eight more x values come after those of the fragments before.
LEMMA EightsOfJoined ==
  ASSUME NEW n \in Nat, NEW p \in Seq(Xs), Len(p) = 8 * n, NEW e \in Seq(Xs), Len(e) = 8
  PROVE  /\ \A f \in 1 .. n : EightOf(p \o e, f) = EightOf(p, f)
         /\ EightOf(p \o e, n + 1) = e
<1> DEFINE l == p \o e
           k == 8 * n
<1>1. p \in Seq(Xs) /\ Len(p) = k /\ k \in Nat
  OBVIOUS
<1>2. e \in Seq(Xs) /\ Len(e) = 8
  OBVIOUS
<1>3. /\ l \in Seq(Xs) /\ Len(l) = k + 8
      /\ \A i \in 1 .. k : l[i] = p[i]
      /\ \A i \in 1 .. 8 : l[i + k] = e[i]
  <2>1. Joins(Xs, p, e, l)
    BY ListsJoined
  <2> HIDE DEF l, k
  <2> QED BY <1>1, <1>2, <2>1 DEF Joins
<1> HIDE DEF l
<1>4. ASSUME NEW f \in 1 .. n PROVE EightOf(l, f) = EightOf(p, f)
  <2> DEFINE a == 8 * f - 7
             b == 8 * f
  <2>1. a \in 1 .. k /\ b \in 1 .. k /\ a <= b /\ k <= Len(l) /\ k <= Len(p)
    <3>1. f \in Nat /\ 1 <= f /\ f <= n
      OBVIOUS
    <3>2. k \in Nat /\ a \in 1 .. k /\ b \in 1 .. k /\ a <= b
      BY <3>1
    <3>3. Len(l) = k + 8 /\ Len(p) = k
      BY <1>1, <1>3
    <3> HIDE DEF a, b, k
    <3> QED BY <3>2, <3>3
  <2> HIDE DEF a, b, k
  <2>2. SubSeq(l, a, b) \in Seq(Xs) /\ SubSeq(p, a, b) \in Seq(Xs)
        /\ Len(SubSeq(l, a, b)) = b - a + 1 /\ Len(SubSeq(p, a, b)) = b - a + 1
    BY <1>1, <1>3, <2>1
  <2>3. \A i \in 1 .. b - a + 1 : SubSeq(l, a, b)[i] = l[a + i - 1] /\ SubSeq(p, a, b)[i] = p[a + i - 1]
    BY <1>1, <1>3, <2>1
  <2>4. \A i \in 1 .. b - a + 1 : a + i - 1 \in 1 .. k
    BY <1>1, <2>1
  <2> DEFINE x == SubSeq(l, a, b)
             y == SubSeq(p, a, b)
  <2>5. /\ x \in Seq(Xs) /\ y \in Seq(Xs) /\ Len(x) = b - a + 1 /\ Len(y) = b - a + 1
        /\ \A i \in 1 .. b - a + 1 : x[i] = l[a + i - 1] /\ y[i] = p[a + i - 1]
    BY <2>2, <2>3
  <2> HIDE DEF x, y
  <2>6. Len(x) = Len(y) /\ \A i \in 1 .. Len(x) : x[i] = y[i]
    <3>1. ASSUME NEW i \in 1 .. b - a + 1 PROVE x[i] = y[i]
      <4>1. a + i - 1 \in 1 .. k
        BY <2>4
      <4>2. l[a + i - 1] = p[a + i - 1]
        BY <1>3, <4>1
      <4> QED BY <2>5, <4>2
    <3> QED BY <2>5, <3>1
  <2>7. x = y
    BY <2>5, <2>6, SameList
  <2> QED BY <2>7 DEF x, y, a, b, EightOf
<1>5. EightOf(l, n + 1) = e
  <2> DEFINE a == 8 * (n + 1) - 7
             b == 8 * (n + 1)
             x == SubSeq(l, a, b)
  <2>1. a = k + 1 /\ b = k + 8 /\ k \in Nat
    BY <1>1
  <2> HIDE DEF a, b, k
  <2>2. x \in Seq(Xs) /\ Len(x) = 8 /\ \A i \in 1 .. 8 : x[i] = l[a + i - 1]
    BY <1>3, <2>1
  <2>3. \A i \in 1 .. 8 : a + i - 1 = i + k
    BY <2>1
  <2>4. \A i \in 1 .. 8 : x[i] = e[i]
    BY <1>3, <2>2, <2>3
  <2> HIDE DEF x
  <2>5. x = e
    BY <1>2, <2>2, <2>4, SameList
  <2> QED BY <2>5 DEF x, a, b, EightOf
<1> QED BY <1>4, <1>5 DEF l

\* One fragment more.
LEMMA FullGrows ==
  ASSUME NEW plot, NEW quality, NEW n \in Nat, NEW p \in Full(plot, quality, n),
         NEW e \in Eights(plot, quality[n + 1])
  PROVE  p \o e \in Full(plot, quality, n + 1)
<1> DEFINE l == p \o e
<1>1. /\ p \in Seq(Xs) /\ Len(p) = 8 * n
      /\ \A f \in 1 .. n : EightOf(p, f) \in Eights(plot, quality[f])
  BY DEF Full
<1>2. e \in Seq(Xs) /\ Len(e) = 8
  <2>1. e \in [1 .. 8 -> Xs]
    BY DEF Eights
  <2>2. 8 \in Nat
    OBVIOUS
  <2> QED BY <2>1, <2>2, ListOf
<1>3. l \in Seq(Xs) /\ Len(l) = (8 * n) + 8
  <2>1. p \in Seq(Xs) /\ Len(p) = 8 * n
    BY <1>1
  <2>2. Joins(Xs, p, e, l)
    BY <1>2, <2>1, ListsJoined
  <2> HIDE DEF l
  <2> QED BY <1>2, <2>1, <2>2 DEF Joins
<1>4. (\A f \in 1 .. n : EightOf(l, f) = EightOf(p, f)) /\ EightOf(l, n + 1) = e
  <2>1. p \in Seq(Xs) /\ Len(p) = 8 * n /\ e \in Seq(Xs) /\ Len(e) = 8
    BY <1>1, <1>2
  <2>2. /\ \A f \in 1 .. n : EightOf(p \o e, f) = EightOf(p, f)
        /\ EightOf(p \o e, n + 1) = e
    BY <2>1, EightsOfJoined
  <2> QED BY <2>2
<1> HIDE DEF l
<1>5. ASSUME NEW f \in 1 .. n + 1 PROVE EightOf(l, f) \in Eights(plot, quality[f])
  <2>1. f \in 1 .. n \/ f = n + 1
    OBVIOUS
  <2> QED BY <1>1, <1>4, <2>1
<1>6. Len(l) = 8 * (n + 1)
  BY <1>3
<1>7. l \in Full(plot, quality, n + 1)
  BY <1>3, <1>5, <1>6 DEF Full
<1> QED BY <1>7 DEF l

\* buildProofs, group after group.
LEMMA ChosenIs ==
  ASSUME Fragments \in Nat, NEW plot, NEW quality,
         \A f \in 1 .. Fragments : t3[f] \in Seq(Eights(plot, quality[f]))
  PROVE  Chosen = [n \in 0 .. Fragments |-> IF n = 0 THEN << <<>> >> ELSE Product(Chosen[n - 1], t3[n])]
<1> DEFINE F == Fragments
           V == Seq(Seq(Xs))
           step == [p \in (1 .. F) \X V |-> Product(p[2], t3[p[1]])]
           first == << <<>> >>
<1>1. ASSUME NEW n \in 1 .. F, NEW v \in V PROVE Product(v, t3[n]) \in V
  <2>1. ASSUME NEW p \in Seq(Xs), NEW e \in Eights(plot, quality[n]) PROVE p \o e \in Seq(Xs)
    <3>1. e \in [1 .. 8 -> Xs] /\ 8 \in Nat
      BY DEF Eights
    <3>2. e \in Seq(Xs)
      BY <3>1, ListOf
    <3> QED BY <3>2
  <2> QED BY <2>1, ProductGood
<1>2. first \in V
  OBVIOUS
<1>3. step \in [(1 .. F) \X V -> V] /\ \A n \in 1 .. F, v \in V : step[<<n, v>>] = Product(v, t3[n])
  <2> HIDE DEF V, F
  <2> QED BY <1>1
<1> HIDE DEF V, step, first
<1>4. PICK f : Recurs(f, F, V, first, step)
  BY <1>2, <1>3, BoundedRecursion
<1>5. f \in [0 .. F -> V] /\ f = [n \in 0 .. F |-> IF n = 0 THEN first ELSE step[<<n, f[n - 1]>>]]
  BY <1>4 DEF Recurs
<1>6. f = [n \in 0 .. F |-> IF n = 0 THEN first ELSE Product(f[n - 1], t3[n])]
  <2>1. ASSUME NEW n \in 0 .. F, n # 0 PROVE step[<<n, f[n - 1]>>] = Product(f[n - 1], t3[n])
    <3>1. n \in 1 .. F /\ n - 1 \in 0 .. F
      BY <2>1
    <3> HIDE DEF F
    <3> QED BY <1>3, <1>5, <3>1
  <2> HIDE DEF F
  <2> QED BY <1>5, <2>1
<1> QED BY <1>6 DEF Chosen, first, F

\* All proofs that are multiplied out.
LEMMA ChosenGood ==
  ASSUME Fragments \in Nat, NEW plot, NEW quality,
         \A f \in 1 .. Fragments : t3[f] \in Seq(Eights(plot, quality[f]))
  PROVE  Chosen[Fragments] \in Seq(Full(plot, quality, Fragments))
<1> DEFINE F == Fragments
           first == << <<>> >>
<1>1. Chosen = [n \in 0 .. F |-> IF n = 0 THEN first ELSE Product(Chosen[n - 1], t3[n])]
  BY ChosenIs
<1> HIDE DEF first
<1> DEFINE S == {n \in Nat : n <= F => Chosen[n] \in Seq(Full(plot, quality, n))}
<1>f. F \in Nat
  OBVIOUS
<1>t. \A n \in 1 .. F : t3[n] \in Seq(Eights(plot, quality[n]))
  OBVIOUS
<1> HIDE DEF F
<1>2. 0 \in S
  <2>1. Chosen[0] = first
    BY <1>1, <1>f
  <2>2. <<>> \in Full(plot, quality, 0)
    BY DEF Full
  <2>3. first \in Seq(Full(plot, quality, 0))
    BY <2>2 DEF first
  <2> QED BY <2>1, <2>3
<1>3. ASSUME NEW n \in Nat, n \in S PROVE n + 1 \in S
  <2>1. SUFFICES ASSUME n + 1 <= F PROVE Chosen[n + 1] \in Seq(Full(plot, quality, n + 1))
    OBVIOUS
  <2>2. /\ Chosen[n] \in Seq(Full(plot, quality, n))
        /\ n + 1 \in 0 .. F /\ n + 1 # 0 /\ (n + 1) - 1 = n /\ n + 1 \in 1 .. F
    BY <1>3, <1>f, <2>1
  <2>3. Chosen[n + 1] = Product(Chosen[n], t3[n + 1])
    BY <1>1, <2>2
  <2>4. t3[n + 1] \in Seq(Eights(plot, quality[n + 1]))
    BY <1>t, <2>2
  <2>5. \A p \in Full(plot, quality, n), e \in Eights(plot, quality[n + 1]) : p \o e \in Full(plot, quality, n + 1)
    BY FullGrows
  <2> QED BY <2>2, <2>3, <2>4, <2>5, ProductGood
<1>4. \A n \in Nat : n \in S
  <2> HIDE DEF S
  <2> QED BY <1>2, <1>3, Inductive
<1> QED BY <1>4, <1>f DEF F

\* The validator takes a full proof for what it is.
LEMMA FullValidates ==
  ASSUME NEW plot, NEW quality \in Seq(Blocks), NEW p \in Full(plot, quality, Len(quality)),
         ChainAccepts(plot, quality)
  PROVE  ValidateFullProof(plot, p) = quality
<1> DEFINE n == Len(quality)
<1>1. n \in Nat /\ quality = [i \in 1 .. n |-> quality[i]]
  BY ListShape
<1>2. Len(p) = 8 * n /\ \A f \in 1 .. n : EightOf(p, f) \in Eights(plot, quality[f])
  BY DEF Full
<1> HIDE DEF n
<1>3. Len(p) \div 8 = n
  BY <1>1, <1>2
<1>4. \A f \in 1 .. n : ValidPairs3(plot, EightOf(p, f)) /\ EncodeFragment(plot, EightOf(p, f)) = quality[f]
  BY <1>2 DEF Eights
<1>5. QualityString(plot, p) = quality
  <2>1. QualityString(plot, p) = [i \in 1 .. n |-> EncodeFragment(plot, EightOf(p, i))]
    BY <1>3 DEF QualityString
  <2>2. [i \in 1 .. n |-> EncodeFragment(plot, EightOf(p, i))] = [i \in 1 .. n |-> quality[i]]
    BY <1>4
  <2> QED BY <1>1, <2>1, <2>2
<1> QED BY <1>3, <1>4, <1>5 DEF ValidateFullProof

-----------------------------------------------------------------------------
(* The inductive invariant                                                 *)

Early == {"hash", "filter", "match1", "thrown", "exited"}
Late  == {"begin2", "match2", "construct", "done"}

\* The call, and how far it has come.
CallOK ==
  /\ asked \in Asked /\ phase \in Early \cup Late /\ failed \in BOOLEAN
  /\ taken \in Nat /\ (phase \in {"hash", "filter"} => taken = 0)

\* Every x bits of the quality string lead to their x range.
MappingOK ==
  /\ unique \in Seq(0 .. HalfXs - 1)
  /\ phase = "hash" => mapping = XBits
  /\ phase # "hash" =>
       \A i \in 1 .. 4 * Fragments : mapping[i] \in DOMAIN unique /\ unique[mapping[i]] = XBits[i]

\* The candidates are what they are called.
CandidatesOK ==
  /\ x1s \in Seq(GoodX1(Plot)) /\ x2s \in Seq(GoodX2(Plot))
  /\ DOMAIN found = Workers
  /\ \A t \in Workers :
       found[t] # Blank => found[t] \in Seq(GoodX2(Plot)) /\ Len(found[t]) <= MaxPerThread

\* The slots of table 1: what is stored is a match, at a slot that was given out.
SlotsOK ==
  /\ DOMAIN t1 \subseteq 0 .. MaxMatches - 1
  /\ \A s \in DOMAIN t1 : t1[s] \in GoodMatch(Plot)
  /\ phase # "exited" => taken <= MaxMatches /\ DOMAIN t1 \subseteq 0 .. taken - 1

Held(v) == worker[v].at = "store"

WorkerState ==
  [section : 0 .. 4, i : Nat, j : Nat, ti : Nat, slot : Nat,
   at : {"enter", "scan", "run", "store", "done"}]

\* Where a thread of table 1 is.
BusyOK(w) ==
  LET me == worker[w]
  IN  /\ me \in WorkerState
      /\ me.at \in {"scan", "run", "store"} => me.section \in Sections
      /\ me.at \in {"run", "store"} => me.j < Len(x2s)
      /\ me.at = "store" =>
           /\ me.ti < Len(x1s) /\ x1s[me.ti + 1].hash = x2s[me.j + 1].hash
           /\ Passes(Plot, 1, <<x1s[me.ti + 1].x, x2s[me.j + 1].x>>)
           /\ me.slot < taken /\ me.slot \notin DOMAIN t1

\* While table 1 is matched: a slot that was given out is stored, or one thread
\* is about to store it.
WorkersOK ==
  phase = "match1" =>
    /\ \A s \in Sections : bounds.x1[s] \in 0 .. Len(x1s) /\ bounds.x2[s] \in 0 .. Len(x2s)
    /\ DOMAIN worker = Workers
    /\ \A w \in Workers : BusyOK(w)
    /\ \A v, w \in Workers : Held(v) /\ Held(w) /\ worker[v].slot = worker[w].slot => v = w
    /\ \A s \in 0 .. taken - 1 :
         s \in DOMAIN t1 \/ \E w \in Workers : Held(w) /\ worker[w].slot = s

\* The groups are those of the x ranges.
GroupsOK ==
  /\ phase \in Early => groups = <<>>
  /\ phase \in Late =>
       /\ DOMAIN groups = DOMAIN unique
       /\ \A g \in DOMAIN unique : groups[g] \in Seq(MatchesIn(Plot, unique[g]))

\* Each group of table 2 has only matches of its two x ranges.
TwoOK ==
  /\ phase \in Early => t2 = <<>>
  /\ t2 \in Seq(Seq([1 .. 4 -> Xs])) /\ Len(t2) <= 2 * Fragments
  /\ \A g \in 1 .. Len(t2) : t2[g] \in Seq(Fours(Plot, XBits[2 * g - 1], XBits[2 * g]))
  /\ phase = "match2" =>
       /\ Len(t2) >= 1
       /\ right \in Seq(MatchesIn(Plot, XBits[2 * Len(t2)]))
       /\ next \in [Workers -> [at : Nat, end : 0 .. Len(LeftOf(Len(t2)))]]

\* What is put together from them are proofs.
EndOK ==
  /\ phase \in {"construct", "done"} => \A f \in 1 .. Fragments : t3[f] \in Seq(Eights(Plot, asked[2][f]))
  /\ phase = "done" => proofs \in Seq(Full(Plot, asked[2], Fragments))

IInv ==
  /\ CallOK /\ MappingOK /\ CandidatesOK /\ SlotsOK /\ WorkersOK /\ GroupsOK /\ TwoOK /\ EndOK

-----------------------------------------------------------------------------
(* What leaves a part of it alone                                          *)

\* The call stays the call.
SameCall == Plot' = Plot /\ XBits' = XBits /\ Fragments' = Fragments /\ asked' = asked

\* The plot, the x bits and the fragments are those of the call.
LEMMA CallStays ==
  ASSUME asked' = asked
  PROVE  SameCall
BY Zenon DEF SameCall, Plot, XBits, Fragments

\* The x ranges are found in hashX1Candidates and only read after it.
LEMMA MappingKept ==
  ASSUME MappingOK, SameCall, UNCHANGED <<unique, mapping>>, phase # "hash", phase' # "hash"
  PROVE  MappingOK'
BY DEF MappingOK, SameCall

\* The lists of candidates, where they do not change.
LEMMA CandidatesKept ==
  ASSUME CandidatesOK, SameCall, UNCHANGED <<x1s, x2s, found>>
  PROVE  CandidatesOK'
BY DEF CandidatesOK, SameCall

\* The slots of table 1, where they do not change.
LEMMA SlotsKept ==
  ASSUME SlotsOK, SameCall, UNCHANGED <<t1, taken>>, phase' # "exited" => phase # "exited"
  PROVE  SlotsOK'
BY DEF SlotsOK, SameCall

\* The groups of table 1, where they do not change.
LEMMA GroupsKept ==
  ASSUME GroupsOK, SameCall, UNCHANGED <<unique, groups>>,
         phase' \in Early => phase \in Early, phase' \in Late => phase \in Late
  PROVE  GroupsOK'
BY DEF GroupsOK, SameCall

\* The groups of table 2, where they do not change.
LEMMA TwoKept ==
  ASSUME TwoOK, SameCall, UNCHANGED <<mapping, groups, right, next, t2>>,
         phase' \in Early => phase \in Early, phase' = "match2" => phase = "match2"
  PROVE  TwoOK'
BY DEF TwoOK, SameCall, LeftOf

\* The matches of table 3 and the proofs, where they do not change.
LEMMA EndKept ==
  ASSUME EndOK, SameCall, UNCHANGED <<t3, proofs>>,
         phase' \in {"construct", "done"} => phase' = phase
  PROVE  EndOK'
BY DEF EndOK, SameCall

-----------------------------------------------------------------------------
(* The first steps                                                         *)

\* A search begins so.
LEMMA InitIInv ==
  ASSUME Init
  PROVE  IInv
<1>1. /\ asked \in Asked /\ phase = "hash" /\ unique = <<>> /\ mapping = XBits /\ x1s = <<>>
      /\ found = [t \in Workers |-> Blank] /\ failed = FALSE /\ x2s = <<>>
      /\ t1 = <<>> /\ taken = 0 /\ groups = <<>> /\ t2 = <<>>
  BY DEF Init
<1>2. CallOK
  BY <1>1 DEF CallOK, Early, Late
<1>3. MappingOK
  BY <1>1 DEF MappingOK
<1>4. CandidatesOK
  BY <1>1 DEF CandidatesOK
<1>5. SlotsOK
  <2>1. MaxMatches \in Nat
    BY SolverAssumption
  <2> QED BY <1>1, <2>1 DEF SlotsOK
<1>6. WorkersOK
  BY <1>1 DEF WorkersOK
<1>7. GroupsOK
  BY <1>1 DEF GroupsOK, Early, Late
<1>8. TwoOK
  <2>1. Fragments \in Nat
    BY <1>1, BitsOfCall DEF BitsAre
  <2>2. t2 = <<>> /\ phase = "hash"
    BY <1>1
  <2> QED BY <2>1, <2>2 DEF TwoOK, Early, Late
<1>9. EndOK
  BY <1>1 DEF EndOK
<1> QED BY <1>2, <1>3, <1>4, <1>5, <1>6, <1>7, <1>8, <1>9 DEF IInv

\* What the parts of the invariant say of the call.
LEMMA CallIs ==
  ASSUME IInv
  PROVE  /\ BitsAre /\ Plot \in Plots /\ Fragments \in Nat /\ asked \in Asked /\ taken \in Nat
         /\ phase \in Early \cup Late /\ failed \in BOOLEAN
         /\ MappingOK /\ CandidatesOK /\ SlotsOK /\ WorkersOK /\ GroupsOK /\ TwoOK /\ EndOK
<1>1. asked \in Asked
  BY DEF IInv, CallOK
<1>2. BitsAre
  BY <1>1, BitsOfCall
<1> QED BY <1>1, <1>2 DEF IInv, CallOK, BitsAre

\* hashX1Candidates: every x bits find their range among the unique ones, and
\* every candidate has the hash that a match of its x value needs.
LEMMA HashX1IInv ==
  ASSUME IInv, HashX1
  PROVE  IInv'
<1> USE CallIs
<1>1. /\ phase = "hash" /\ phase' = "filter"
      /\ unique' = UniqueOf(mapping)
      /\ mapping' = [i \in DOMAIN mapping |-> FirstOf(unique', mapping[i])]
      /\ x1s' = SortedByHash([i \in 1 .. Len(unique') * HalfXs * MatchKeys[1] |->
                                X1Candidate(unique', i - 1)])
      /\ UNCHANGED <<asked, found, failed, x2s, bounds, worker, t1, taken, groups, right, next, t2, t3, proofs>>
  BY DEF HashX1, matchVars, pairVars
<1>2. SameCall
  BY <1>1, CallStays
<1>3. mapping = XBits /\ XBits \in Seq(0 .. HalfXs - 1) /\ Len(XBits) = 4 * Fragments
  BY <1>1 DEF MappingOK, BitsAre
<1>4. /\ unique' \in Seq(0 .. HalfXs - 1)
      /\ \A i \in 1 .. Len(XBits) : /\ FirstOf(unique', XBits[i]) \in 1 .. Len(unique')
                                    /\ unique'[FirstOf(unique', XBits[i])] = XBits[i]
  BY <1>1, <1>3, UniqueHasEach
<1>5. MappingOK'
  <2>1. DOMAIN mapping = 1 .. 4 * Fragments /\ DOMAIN unique' = 1 .. Len(unique')
    BY <1>3, <1>4
  <2>2. ASSUME NEW i \in 1 .. 4 * Fragments PROVE mapping'[i] \in DOMAIN unique' /\ unique'[mapping'[i]] = XBits[i]
    <3>1. mapping'[i] = FirstOf(unique', XBits[i])
      BY <1>1, <1>3, <2>1
    <3> QED BY <1>3, <1>4, <2>1, <3>1
  <2> QED BY <1>1, <1>2, <1>4, <2>2 DEF MappingOK, SameCall
<1>6. CandidatesOK'
  <2>1. x1s' \in Seq(GoodX1(Plot))
    BY <1>1, <1>4, X1ListGood
  <2>2. /\ x2s \in Seq(GoodX2(Plot)) /\ DOMAIN found = Workers
        /\ \A t \in Workers :
             found[t] # Blank => found[t] \in Seq(GoodX2(Plot)) /\ Len(found[t]) <= MaxPerThread
    BY DEF CandidatesOK
  <2> QED BY <1>1, <1>2, <2>1, <2>2 DEF CandidatesOK, SameCall
<1>7. CallOK'
  BY <1>1 DEF IInv, CallOK, Early, Late
<1>8. SlotsOK'
  BY <1>1, <1>2, SlotsKept
<1>9. WorkersOK'
  BY <1>1 DEF WorkersOK
<1>10. GroupsOK'
  BY <1>1 DEF GroupsOK, Early, Late
<1>11. TwoOK'
  <2>1. t2' = t2 /\ t2 = <<>>
    BY <1>1 DEF TwoOK, Early
  <2> QED BY <1>1, <1>2, <2>1 DEF TwoOK, SameCall, Early
<1>12. EndOK'
  BY <1>1, <1>2, EndKept
<1> QED BY <1>5, <1>6, <1>7, <1>8, <1>9, <1>10, <1>11, <1>12 DEF IInv

\* A thread of filterX2Candidates: its part holds x values with their hash.
LEMMA FilterChunkIInv ==
  ASSUME IInv, NEW t \in Workers, FilterChunk(t)
  PROVE  IInv'
<1> USE CallIs
<1>1. /\ phase = "filter" /\ phase' = "filter"
      /\ found' = [found EXCEPT ![t] = SubSeq(HitsOf(t), 1, Min({MaxPerThread, Len(HitsOf(t))}))]
      /\ failed' = (failed \/ Len(HitsOf(t)) >= MaxPerThread)
      /\ UNCHANGED <<asked, unique, mapping, x1s, x2s, bounds, worker, t1, taken,
                     groups, right, next, t2, t3, proofs>>
  BY DEF FilterChunk, matchVars, pairVars
<1>2. SameCall
  BY <1>1, CallStays
<1>3. CandidatesOK'
  <2> DEFINE part == SubSeq(HitsOf(t), 1, Min({MaxPerThread, Len(HitsOf(t))}))
  <2>1. HitsOf(t) \in Seq(GoodX2(Plot)) /\ MaxPerThread \in Nat
    BY HitsGood, SolverAssumption
  <2>2. part \in Seq(GoodX2(Plot)) /\ Len(part) <= MaxPerThread
    BY <2>1, CutShort
  <2>3. found' = [found EXCEPT ![t] = part]
    BY <1>1
  <2> HIDE DEF part
  <2>4. /\ x1s \in Seq(GoodX1(Plot)) /\ x2s \in Seq(GoodX2(Plot)) /\ DOMAIN found = Workers
        /\ \A w \in Workers :
             found[w] # Blank => found[w] \in Seq(GoodX2(Plot)) /\ Len(found[w]) <= MaxPerThread
    BY DEF CandidatesOK
  <2>5. DOMAIN found' = Workers
    BY <2>3, <2>4
  <2>6. ASSUME NEW w \in Workers, found'[w] # Blank
        PROVE  found'[w] \in Seq(GoodX2(Plot)) /\ Len(found'[w]) <= MaxPerThread
    <3>1. found'[w] = IF w = t THEN part ELSE found[w]
      BY <2>3, <2>4
    <3> QED BY <2>2, <2>4, <2>6, <3>1
  <2> QED BY <1>1, <1>2, <2>4, <2>5, <2>6 DEF CandidatesOK, SameCall
<1>4. CallOK'
  <2>1. failed' \in BOOLEAN
    BY <1>1
  <2> QED BY <1>1, <2>1 DEF IInv, CallOK
<1>5. MappingOK' /\ SlotsOK' /\ GroupsOK' /\ TwoOK' /\ EndOK'
  BY <1>1, <1>2, MappingKept, SlotsKept, GroupsKept, TwoKept, EndKept
<1>6. WorkersOK'
  BY <1>1 DEF WorkersOK
<1> QED BY <1>3, <1>4, <1>5, <1>6 DEF IInv

-----------------------------------------------------------------------------
(* The threads of table 1                                                  *)

\* A thread's share of a range lies in it.
LEMMA ShareIn ==
  ASSUME NEW total \in Nat, NEW w \in Workers
  PROVE  /\ ShareOf(total, w).at \in 0 .. total /\ ShareOf(total, w).end \in 0 .. total
         /\ ShareOf(total, w) \in [at : Nat, end : 0 .. total]
<1>1. Threads \in Nat \ {0} /\ w \in Nat /\ w + 1 <= Threads /\ w <= Threads
  BY SolverAssumption DEF Workers
<1>2. ASSUME NEW k \in Nat, k <= Threads PROVE (total * k) \div Threads \in 0 .. total
  <2> DEFINE p == total * k
             q == p \div Threads
  <2>1. p \in Nat /\ p <= total * Threads
    <3>1. \E d \in Nat : Threads = k + d
      <4>1. Threads - k \in Nat /\ Threads = k + (Threads - k)
        BY <1>1, <1>2
      <4> QED BY <4>1
    <3>2. PICK d \in Nat : Threads = k + d
      BY <3>1
    <3>3. total * (k + d) = (total * k) + (total * d) /\ total * k \in Nat /\ total * d \in Nat
      OBVIOUS
    <3> QED BY <3>2, <3>3
  <2> HIDE DEF p
  <2>2. q \in Nat /\ p % Threads \in 0 .. Threads - 1 /\ p = (Threads * q) + (p % Threads)
    BY <1>1, <2>1, Quotient
  <2> HIDE DEF q
  <2>3. q <= total
    <3>1. SUFFICES ASSUME q > total PROVE FALSE
      BY <2>2
    <3>2. PICK d \in Nat : q = total + 1 + d
      <4>1. q - (total + 1) \in Nat /\ q = total + 1 + (q - (total + 1))
        BY <2>2, <3>1
      <4> QED BY <4>1
    <3>3. Threads * (total + 1 + d) = (total * Threads) + Threads + (Threads * d)
          /\ Threads * d \in Nat /\ total * Threads \in Nat
      BY <1>1
    <3> QED BY <1>1, <2>1, <2>2, <3>2, <3>3
  <2> QED BY <2>2, <2>3 DEF p, q
<1>3. ShareOf(total, w).at = (total * w) \div Threads /\ ShareOf(total, w).end = (total * (w + 1)) \div Threads
      /\ ShareOf(total, w) = [at |-> (total * w) \div Threads, end |-> (total * (w + 1)) \div Threads]
  BY DEF ShareOf
<1>4. (total * w) \div Threads \in 0 .. total /\ (total * (w + 1)) \div Threads \in 0 .. total
  BY <1>1, <1>2
<1> QED BY <1>3, <1>4

\* A thread that has just been given a section.
LEMMA IdleIs ==
  ASSUME NEW s \in 0 .. 4
  PROVE  Idle(s) \in WorkerState /\ Idle(s).at = "enter" /\ Idle(s).section = s
BY DEF Idle, WorkerState

\* Where a section ends is in the list.
LEMMA BoundEndIn ==
  ASSUME NEW b, NEW list, NEW n \in Nat, Len(list) = n,
         \A s \in Sections : b[s] \in 0 .. n, NEW s \in Sections
  PROVE  BoundEnd(b, list, s) \in 0 .. n
BY DEF BoundEnd, Sections

\* A step of one thread, in the lists and the slots as they are.
LEMMA StepKeeps ==
  ASSUME IInv, phase = "match1", NEW w \in Workers, NEW rec \in WorkerState,
         worker' = [worker EXCEPT ![w] = rec], UNCHANGED <<asked, listVars, t1, taken>>,
         worker[w].at # "store", rec.at # "store",
         rec.at \in {"scan", "run"} => rec.section \in Sections,
         rec.at = "run" => rec.j < Len(x2s)
  PROVE  WorkersOK'
<1> USE CallIs
<1>1. /\ \A s \in Sections : bounds.x1[s] \in 0 .. Len(x1s) /\ bounds.x2[s] \in 0 .. Len(x2s)
      /\ DOMAIN worker = Workers
      /\ \A v \in Workers : BusyOK(v)
      /\ \A u, v \in Workers : Held(u) /\ Held(v) /\ worker[u].slot = worker[v].slot => u = v
      /\ \A s \in 0 .. taken - 1 :
           s \in DOMAIN t1 \/ \E v \in Workers : Held(v) /\ worker[v].slot = s
  BY DEF WorkersOK
<1>2. bounds' = bounds /\ x1s' = x1s /\ x2s' = x2s /\ SameCall /\ t1' = t1 /\ taken' = taken
  BY CallStays DEF listVars
<1>3. DOMAIN worker' = Workers /\ worker'[w] = rec /\ \A v \in Workers : v # w => worker'[v] = worker[v]
  BY <1>1
<1>4. \A v \in Workers : Held(v)' <=> (v # w /\ Held(v))
  BY <1>3 DEF Held
<1>5. ASSUME NEW v \in Workers PROVE BusyOK(v)'
  <2>1. CASE v = w
    BY <1>2, <1>3, <2>1 DEF BusyOK
  <2>2. CASE v # w
    <3>1. worker'[v] = worker[v] /\ BusyOK(v) /\ Plot' = Plot
      BY <1>1, <1>2, <1>3, <2>2 DEF SameCall
    <3> QED BY <1>2, <3>1 DEF BusyOK
  <2> QED BY <2>1, <2>2
<1>6. ASSUME NEW u \in Workers, NEW v \in Workers, Held(u)', Held(v)', worker'[u].slot = worker'[v].slot
      PROVE  u = v
  BY <1>1, <1>3, <1>4, <1>6
<1>7. ASSUME NEW s \in 0 .. taken' - 1
      PROVE  s \in DOMAIN t1' \/ \E v \in Workers : Held(v)' /\ worker'[v].slot = s
  <2>1. CASE s \in DOMAIN t1
    BY <1>2, <2>1
  <2>2. CASE s \notin DOMAIN t1
    <3>1. PICK v \in Workers : Held(v) /\ worker[v].slot = s
      BY <1>1, <1>2, <2>2
    <3>2. v # w
      BY <3>1 DEF Held
    <3> QED BY <1>3, <1>4, <3>1, <3>2
  <2> QED BY <2>1, <2>2
<1> QED BY <1>1, <1>2, <1>3, <1>5, <1>6, <1>7 DEF WorkersOK

\* Table 1 leaves the other parts alone.
LEMMA MatchKeeps ==
  ASSUME IInv, phase = "match1", phase' \in {"match1", "exited"}, UNCHANGED <<asked, listVars, pairVars>>,
         taken' \in Nat, SlotsOK', WorkersOK'
  PROVE  IInv'
<1> USE CallIs
<1>1. SameCall
  BY CallStays
<1>2. UNCHANGED <<unique, mapping, x1s, found, failed, x2s, groups, right, next, t2, t3, proofs>>
  BY DEF listVars, pairVars
<1>3. CallOK'
  BY <1>2 DEF CallOK, Early
<1>4. phase \in Early /\ phase' \in Early /\ phase' \notin Late
  BY DEF Early, Late
<1>5. MappingOK' /\ CandidatesOK' /\ GroupsOK' /\ TwoOK' /\ EndOK'
  BY <1>1, <1>2, <1>4, MappingKept, CandidatesKept, GroupsKept, TwoKept, EndKept
<1> QED BY <1>3, <1>5 DEF IInv

\* The join of those threads: the parts moved together and sorted are still
\* such candidates, and the sections begin within the lists.
LEMMA JoinFilterIInv ==
  ASSUME IInv, JoinFilter
  PROVE  IInv'
<1> USE CallIs
<1> DEFINE sorted == SortedByHash(PartsOf[Threads])
<1>1. /\ phase = "filter" /\ \A t \in Workers : found[t] # Blank
      /\ \/ phase' = "thrown" /\ UNCHANGED <<x2s, bounds, worker>>
         \/ /\ phase' = "match1" /\ x2s' = sorted
            /\ bounds' = [x1 |-> BoundsOf(x1s), x2 |-> BoundsOf(sorted)]
            /\ worker' = [w \in Workers |-> Idle(ShareOf(4, w).at)]
      /\ UNCHANGED <<asked, unique, mapping, x1s, found, failed, t1, taken, groups, right, next, t2, t3, proofs>>
  BY DEF JoinFilter, pairVars
<1>2. SameCall
  BY <1>1, CallStays
<1>3. CallOK'
  BY <1>1 DEF CallOK, Early
<1>4. phase \in Early /\ phase' \in Early /\ phase' \notin Late /\ phase' \notin {"hash", "exited", "match2", "construct", "done"}
  BY <1>1 DEF Early, Late
<1>5. MappingOK' /\ SlotsOK' /\ GroupsOK' /\ TwoOK' /\ EndOK'
  BY <1>1, <1>2, <1>4, MappingKept, SlotsKept, GroupsKept, TwoKept, EndKept
<1>6. CASE phase' = "thrown" /\ UNCHANGED <<x2s, bounds, worker>>
  <2>1. CandidatesOK' /\ WorkersOK'
    BY <1>1, <1>2, <1>6, CandidatesKept DEF WorkersOK
  <2> QED BY <1>3, <1>5, <2>1 DEF IInv
<1>7. CASE /\ phase' = "match1" /\ x2s' = sorted
           /\ bounds' = [x1 |-> BoundsOf(x1s), x2 |-> BoundsOf(sorted)]
           /\ worker' = [w \in Workers |-> Idle(ShareOf(4, w).at)]
  <2>1. \A e \in GoodX2(Plot) : e.hash \in Nat
    BY CandidateHash DEF GoodX2
  <2>2. \A e \in GoodX1(Plot) : e.hash \in Nat
    BY CandidateHash DEF GoodX1
  <2>3. \A t \in Workers : found[t] \in Seq(GoodX2(Plot))
    BY <1>1 DEF CandidatesOK
  <2>4. sorted \in Seq(GoodX2(Plot))
    BY <2>1, <2>3, PartsGood, SortedIn
  <2> HIDE DEF sorted
  <2>5. CandidatesOK'
    BY <1>1, <1>2, <1>7, <2>4 DEF CandidatesOK, SameCall
  <2>6. x1s \in Seq(GoodX1(Plot))
    BY DEF CandidatesOK
  <2>7. ASSUME NEW s \in Sections PROVE bounds'.x1[s] \in 0 .. Len(x1s') /\ bounds'.x2[s] \in 0 .. Len(x2s')
    <3>1. bounds'.x1[s] = SectionBound(x1s, s) /\ bounds'.x2[s] = SectionBound(sorted, s)
      BY <1>7 DEF BoundsOf
    <3>2. SectionBound(x1s, s) \in 0 .. Len(x1s)
      BY <2>2, <2>6, BoundIn
    <3>3. SectionBound(sorted, s) \in 0 .. Len(sorted)
      BY <2>1, <2>4, BoundIn
    <3> QED BY <1>1, <1>7, <3>1, <3>2, <3>3
  <2>8. ASSUME NEW w \in Workers
        PROVE  worker'[w] \in WorkerState /\ worker'[w].at = "enter"
    <3>1. worker'[w] = Idle(ShareOf(4, w).at)
      BY <1>7
    <3>2. ShareOf(4, w).at \in 0 .. 4
      BY ShareIn
    <3> QED BY <3>1, <3>2, IdleIs
  <2>9. \A w \in Workers : BusyOK(w)' /\ ~ Held(w)'
    BY <2>8 DEF BusyOK, Held
  <2>10. taken' = 0
    BY <1>1 DEF IInv, CallOK
  <2>11. DOMAIN worker' = Workers
    BY <1>7
  <2>12. WorkersOK'
    BY <2>7, <2>9, <2>10, <2>11 DEF WorkersOK
  <2> QED BY <1>3, <1>5, <2>5, <2>12 DEF IInv
<1> QED BY <1>1, <1>6, <1>7

\* A thread begins one of its sections.
LEMMA EnterSectionIInv ==
  ASSUME IInv, NEW w \in Workers, EnterSection(w)
  PROVE  IInv'
<1> USE CallIs
<1> DEFINE me == worker[w]
           rec == IF me.section < ShareOf(4, w).end
                    THEN [me EXCEPT !.i = bounds.x1[me.section], !.j = bounds.x2[me.section], !.at = "scan"]
                    ELSE [me EXCEPT !.at = "done"]
<1>1. /\ phase = "match1" /\ me.at = "enter" /\ worker' = [worker EXCEPT ![w] = rec]
      /\ UNCHANGED <<phase, asked, listVars, t1, taken, pairVars>>
  BY DEF EnterSection, Step
<1>2. me \in WorkerState
      /\ \A s \in Sections : bounds.x1[s] \in 0 .. Len(x1s) /\ bounds.x2[s] \in 0 .. Len(x2s)
  BY <1>1 DEF WorkersOK, BusyOK
<1>3. rec \in WorkerState /\ rec.at \in {"scan", "done"} /\ (rec.at = "scan" => rec.section \in Sections)
  <2>1. CASE me.section < ShareOf(4, w).end
    <3>1. ShareOf(4, w).end \in 0 .. 4
      BY ShareIn
    <3>2. me.section \in Sections
      <4>1. me.section \in 0 .. 4
        BY <1>2 DEF WorkerState
      <4> DEFINE a == me.section
                 b == ShareOf(4, w).end
      <4>2. a \in 0 .. 4 /\ b \in 0 .. 4 /\ a < b
        BY <2>1, <3>1, <4>1
      <4> HIDE DEF a, b
      <4>3. a \in 0 .. 3
        BY <4>2
      <4> QED BY <4>3 DEF a, Sections
    <3>3. bounds.x1[me.section] \in Nat /\ bounds.x2[me.section] \in Nat
      BY <1>2, <3>2
    <3>4. rec = [me EXCEPT !.i = bounds.x1[me.section], !.j = bounds.x2[me.section], !.at = "scan"]
      BY <2>1
    <3>5. rec = [section |-> me.section, i |-> bounds.x1[me.section], j |-> bounds.x2[me.section],
                 ti |-> me.ti, slot |-> me.slot, at |-> "scan"]
      BY <1>2, <3>4 DEF WorkerState
    <3> HIDE DEF rec
    <3>6. me.ti \in Nat /\ me.slot \in Nat /\ me.section \in 0 .. 4
      BY <1>2 DEF WorkerState
    <3> QED BY <3>2, <3>3, <3>5, <3>6 DEF WorkerState
  <2>2. CASE ~ (me.section < ShareOf(4, w).end)
    <3>4. rec = [me EXCEPT !.at = "done"]
      BY <2>2
    <3> HIDE DEF rec
    <3> QED BY <1>2, <3>4 DEF WorkerState
  <2> QED BY <2>1, <2>2
<1> HIDE DEF rec
<1>4. WorkersOK'
  BY <1>1, <1>3, StepKeeps
<1>5. SlotsOK'
  BY <1>1, CallStays, SlotsKept
<1> QED BY <1>1, <1>4, <1>5, MatchKeeps

\* A turn of the loop over both lists: a run begins where the hashes are equal.
LEMMA ScanIInv ==
  ASSUME IInv, NEW w \in Workers, Scan(w)
  PROVE  IInv'
<1> USE CallIs
<1> DEFINE me == worker[w]
           end == me.i >= BoundEnd(bounds.x1, x1s, me.section)
                    \/ me.j >= BoundEnd(bounds.x2, x2s, me.section)
           h1  == HashAt(x1s, me.i)
           h2  == HashAt(x2s, me.j)
           rec == CASE end            -> Idle(me.section + 1)
                    [] ~end /\ h1 = h2 -> [me EXCEPT !.ti = me.i, !.at = "run"]
                    [] ~end /\ h1 < h2 -> [me EXCEPT !.i = @ + 1]
                    [] ~end /\ h1 > h2 -> [me EXCEPT !.j = @ + 1]
<1>1. /\ phase = "match1" /\ me.at = "scan" /\ worker' = [worker EXCEPT ![w] = rec]
      /\ UNCHANGED <<phase, asked, listVars, t1, taken, pairVars>>
  BY DEF Scan, Step
<1>2. /\ me \in WorkerState /\ me.section \in Sections
      /\ \A s \in Sections : bounds.x1[s] \in 0 .. Len(x1s) /\ bounds.x2[s] \in 0 .. Len(x2s)
  BY <1>1 DEF WorkersOK, BusyOK
<1>3. x1s \in Seq(GoodX1(Plot)) /\ x2s \in Seq(GoodX2(Plot))
  BY DEF CandidatesOK
<1>4. Len(x1s) \in Nat /\ Len(x2s) \in Nat
  BY <1>3
<1>5. /\ BoundEnd(bounds.x1, x1s, me.section) \in 0 .. Len(x1s)
      /\ BoundEnd(bounds.x2, x2s, me.section) \in 0 .. Len(x2s)
  BY <1>2, <1>4, BoundEndIn
<1>6. me.i \in Nat /\ me.j \in Nat
  BY <1>2 DEF WorkerState
<1>7. /\ rec \in WorkerState /\ rec.at \in {"enter", "scan", "run"}
      /\ rec.at \in {"scan", "run"} => rec.section \in Sections
      /\ rec.at = "run" => rec.j < Len(x2s)
  <2>1. CASE end
    <3>1. rec = Idle(me.section + 1)
      <4> HIDE DEF end, h1, h2, me
      <4> QED BY <2>1
    <3>2. me.section + 1 \in 0 .. 4
      <4> DEFINE s == me.section
      <4>1. s \in Sections
        BY <1>2
      <4> HIDE DEF s
      <4>2. s + 1 \in 0 .. 4
        BY <4>1 DEF Sections
      <4> QED BY <4>2 DEF s
    <3> HIDE DEF rec
    <3> QED BY <3>1, <3>2, IdleIs
  <2>2. CASE ~ end
    <3>1. me.i < Len(x1s) /\ me.j < Len(x2s)
      BY <1>4, <1>5, <1>6, <2>2
    <3>2. h1 \in Nat /\ h2 \in Nat
      <4>1. x1s[me.i + 1] \in GoodX1(Plot) /\ x2s[me.j + 1] \in GoodX2(Plot)
        BY <1>3, <1>4, <1>6, <3>1
      <4> QED BY <4>1, CandidateHash DEF GoodX1, GoodX2, HashAt
    <3> HIDE DEF end, h1, h2
    <3>3. CASE h1 = h2
      <4>1. rec = [me EXCEPT !.ti = me.i, !.at = "run"]
        BY <2>2, <3>2, <3>3
      <4> HIDE DEF rec
      <4> QED BY <1>2, <3>1, <4>1 DEF WorkerState
    <3>4. CASE h1 < h2
      <4>1. rec = [me EXCEPT !.i = @ + 1]
        BY <2>2, <3>2, <3>4
      <4> HIDE DEF rec
      <4> QED BY <1>1, <1>2, <1>6, <4>1 DEF WorkerState
    <3>5. CASE h1 > h2
      <4>1. rec = [me EXCEPT !.j = @ + 1]
        BY <2>2, <3>2, <3>5
      <4> HIDE DEF rec
      <4> QED BY <1>1, <1>2, <1>6, <4>1 DEF WorkerState
    <3> QED BY <3>2, <3>3, <3>4, <3>5
  <2> QED BY <2>1, <2>2
<1> HIDE DEF rec, end, h1, h2
<1>8. WorkersOK'
  BY <1>1, <1>7, StepKeeps
<1>9. SlotsOK'
  BY <1>1, CallStays, SlotsKept
<1> QED BY <1>1, <1>8, <1>9, MatchKeeps
\* The thread and the lists while it goes through a run of equal hashes.
LEMMA InRunIs ==
  ASSUME IInv, phase = "match1", NEW w \in Workers, worker[w].at \in {"run", "store"}
  PROVE  /\ worker[w] \in WorkerState /\ worker[w].section \in Sections
         /\ worker[w].ti \in Nat /\ worker[w].j \in Nat /\ worker[w].slot \in Nat
         /\ worker[w].j < Len(x2s) /\ Len(x1s) \in Nat /\ Len(x2s) \in Nat
         /\ worker[w].at = "run" /\ InRun(worker[w]) =>
              worker[w].ti < Len(x1s) /\ x1s[worker[w].ti + 1].hash = x2s[worker[w].j + 1].hash
<1> USE CallIs
<1>1. /\ BusyOK(w)
      /\ \A s \in Sections : bounds.x1[s] \in 0 .. Len(x1s) /\ bounds.x2[s] \in 0 .. Len(x2s)
  BY DEF WorkersOK
<1>2. worker[w] \in WorkerState /\ worker[w].section \in Sections /\ worker[w].j < Len(x2s)
  BY <1>1 DEF BusyOK
<1>3. worker[w].ti \in Nat /\ worker[w].j \in Nat /\ worker[w].slot \in Nat
  BY <1>2 DEF WorkerState
<1>4. Len(x1s) \in Nat /\ Len(x2s) \in Nat
  BY DEF CandidatesOK
<1>5. BoundEnd(bounds.x1, x1s, worker[w].section) \in 0 .. Len(x1s)
  BY <1>1, <1>2, <1>4, BoundEndIn
<1>6. ASSUME InRun(worker[w])
      PROVE  worker[w].ti < Len(x1s) /\ x1s[worker[w].ti + 1].hash = x2s[worker[w].j + 1].hash
  <2>1. worker[w].ti < BoundEnd(bounds.x1, x1s, worker[w].section)
        /\ x1s[worker[w].ti + 1].hash = x2s[worker[w].j + 1].hash
    BY <1>6 DEF InRun, HashAt
  <2> QED BY <1>3, <1>4, <1>5, <2>1
<1> QED BY <1>2, <1>3, <1>4, <1>6

\* A pair takes the next slot from the counter; one too many ends the process.
LEMMA PairUpIInv ==
  ASSUME IInv, NEW w \in Workers, PairUp(w)
  PROVE  IInv'
<1> USE CallIs
<1> DEFINE me   == worker[w]
           pair == <<x1s[me.ti + 1].x, x2s[me.j + 1].x>>
<1>1. /\ phase = "match1" /\ me.at = "run" /\ InRun(me)
      /\ \/ /\ Passes(Plot, 1, pair) /\ taken' = taken + 1
            /\ phase' = (IF NoRoom(taken) THEN "exited" ELSE phase)
            /\ worker' = [worker EXCEPT ![w] = [me EXCEPT !.slot = taken, !.at = "store"]]
         \/ /\ ~ Passes(Plot, 1, pair) /\ UNCHANGED <<taken, phase>>
            /\ worker' = [worker EXCEPT ![w] = [me EXCEPT !.ti = @ + 1]]
      /\ UNCHANGED <<asked, listVars, t1, pairVars>>
  BY DEF PairUp, Step
<1>2. /\ me \in WorkerState /\ me.section \in Sections /\ me.ti \in Nat /\ me.j \in Nat
      /\ me.j < Len(x2s) /\ me.ti < Len(x1s) /\ x1s[me.ti + 1].hash = x2s[me.j + 1].hash
  BY <1>1, InRunIs
<1>3. SameCall /\ x1s' = x1s /\ x2s' = x2s /\ bounds' = bounds
  BY <1>1, CallStays DEF listVars
<1>4. CASE ~ Passes(Plot, 1, pair)
  <2> DEFINE rec == [me EXCEPT !.ti = @ + 1]
  <2>1. rec \in WorkerState /\ rec.at = "run" /\ rec.section \in Sections /\ rec.j < Len(x2s)
    <3>1. rec \in WorkerState /\ rec.at = me.at /\ rec.section = me.section /\ rec.j = me.j
      <4>1. rec = [me EXCEPT !.ti = @ + 1]
        OBVIOUS
      <4> HIDE DEF me, rec
      <4>2. me.section \in 0 .. 4 /\ me.i \in Nat /\ me.slot \in Nat /\ me.at \in {"enter", "scan", "run", "store", "done"}
        BY <1>2 DEF WorkerState
      <4>3. rec = [section |-> me.section, i |-> me.i, j |-> me.j, ti |-> me.ti + 1, slot |-> me.slot, at |-> me.at]
        BY <1>2, <4>1 DEF WorkerState
      <4>4. me.ti + 1 \in Nat
        BY <1>2
      <4> QED BY <1>2, <4>2, <4>3, <4>4 DEF WorkerState
    <3> QED BY <1>1, <1>2, <3>1
  <2>2. worker' = [worker EXCEPT ![w] = rec] /\ UNCHANGED <<phase, asked, listVars, t1, taken, pairVars>>
    BY <1>1, <1>4
  <2> HIDE DEF rec
  <2>3. WorkersOK'
    BY <1>1, <2>1, <2>2, StepKeeps
  <2>4. SlotsOK'
    BY <1>3, <2>2, SlotsKept
  <2> QED BY <1>1, <2>2, <2>3, <2>4, MatchKeeps
<1>5. CASE Passes(Plot, 1, pair)
  <2> DEFINE rec == [me EXCEPT !.slot = taken, !.at = "store"]
  <2>1. /\ rec \in WorkerState /\ rec.at = "store" /\ rec.section = me.section
        /\ rec.j = me.j /\ rec.ti = me.ti /\ rec.slot = taken
    BY <1>2 DEF WorkerState
  <2>2. /\ worker' = [worker EXCEPT ![w] = rec] /\ taken' = taken + 1
        /\ phase' = (IF NoRoom(taken) THEN "exited" ELSE phase)
        /\ t1' = t1
    BY <1>1, <1>5
  <2> HIDE DEF rec
  <2>3. MaxMatches \in Nat
    BY SolverAssumption
  <2>4. DOMAIN t1 \subseteq 0 .. MaxMatches - 1 /\ DOMAIN t1 \subseteq 0 .. taken - 1
        /\ \A s \in DOMAIN t1 : t1[s] \in GoodMatch(Plot)
    BY <1>1 DEF SlotsOK
  <2>5. \A s \in DOMAIN t1' : t1'[s] \in GoodMatch(Plot)'
    BY <1>3, <2>2, <2>4 DEF SameCall
  <2>6. CASE NoRoom(taken)
    <3>1. phase' = "exited"
      BY <2>2, <2>6
    <3>2. SlotsOK' /\ WorkersOK'
      BY <2>2, <2>4, <2>5, <3>1 DEF SlotsOK, WorkersOK
    <3> QED BY <1>1, <2>2, <3>1, <3>2, MatchKeeps
  <2>7. CASE ~ NoRoom(taken)
    <3>1. phase' = "match1"
      BY <1>1, <2>2, <2>7
    <3>2. taken < MaxMatches
      BY <2>3, <2>7 DEF NoRoom
    <3>3. SlotsOK'
      <4>1. taken' <= MaxMatches /\ DOMAIN t1' \subseteq 0 .. taken' - 1
        BY <2>2, <2>3, <2>4, <3>2
      <4> QED BY <2>2, <2>4, <2>5, <4>1 DEF SlotsOK
    <3>4. /\ \A s \in Sections : bounds.x1[s] \in 0 .. Len(x1s) /\ bounds.x2[s] \in 0 .. Len(x2s)
          /\ DOMAIN worker = Workers
          /\ \A v \in Workers : BusyOK(v)
          /\ \A u, v \in Workers : Held(u) /\ Held(v) /\ worker[u].slot = worker[v].slot => u = v
          /\ \A s \in 0 .. taken - 1 :
               s \in DOMAIN t1 \/ \E v \in Workers : Held(v) /\ worker[v].slot = s
      BY <1>1 DEF WorkersOK
    <3>5. DOMAIN worker' = Workers /\ worker'[w] = rec /\ \A v \in Workers : v # w => worker'[v] = worker[v]
      BY <2>2, <3>4
    <3>6. Held(w)' /\ ~ Held(w) /\ \A v \in Workers : v # w => (Held(v)' <=> Held(v))
      BY <1>1, <2>1, <3>5 DEF Held
    <3>7. ASSUME NEW v \in Workers, Held(v) PROVE worker[v].slot < taken
      BY <3>4, <3>7 DEF BusyOK, Held
    <3>8. ASSUME NEW v \in Workers PROVE BusyOK(v)'
      <4>1. CASE v = w
        <5>1. taken \notin DOMAIN t1' /\ taken < taken'
          BY <2>2, <2>4
        <5>2. worker'[v] = rec /\ x1s' = x1s /\ x2s' = x2s /\ Plot' = Plot
          BY <1>3, <3>5, <4>1 DEF SameCall
        <5> QED BY <1>2, <1>5, <2>1, <5>1, <5>2 DEF BusyOK
      <4>2. CASE v # w
        <5>1. worker'[v] = worker[v] /\ x1s' = x1s /\ x2s' = x2s /\ Plot' = Plot /\ t1' = t1
          BY <1>3, <2>2, <3>5, <4>2 DEF SameCall
        <5>2. BusyOK(v)
          BY <3>4
        <5>3. worker[v].at = "store" => worker[v].slot < taken'
          <6>1. ASSUME worker[v].at = "store" PROVE worker[v].slot \in Nat /\ worker[v].slot < taken
            BY <5>2, <6>1 DEF BusyOK, WorkerState
          <6> QED BY <2>2, <6>1
        <5> QED BY <5>1, <5>2, <5>3 DEF BusyOK
      <4> QED BY <4>1, <4>2
    <3>9. ASSUME NEW u \in Workers, NEW v \in Workers, Held(u)', Held(v)', worker'[u].slot = worker'[v].slot
          PROVE  u = v
      <4>1. CASE u = w /\ v # w
        <5>1. Held(v) /\ worker[v].slot = taken
          BY <2>1, <3>5, <3>6, <3>9, <4>1
        <5> QED BY <3>7, <5>1
      <4>2. CASE u # w /\ v = w
        <5>1. Held(u) /\ worker[u].slot = taken
          BY <2>1, <3>5, <3>6, <3>9, <4>2
        <5> QED BY <3>7, <5>1
      <4>3. CASE u # w /\ v # w
        BY <3>4, <3>5, <3>6, <3>9, <4>3
      <4> QED BY <4>1, <4>2, <4>3
    <3>10. ASSUME NEW s \in 0 .. taken' - 1
           PROVE  s \in DOMAIN t1' \/ \E v \in Workers : Held(v)' /\ worker'[v].slot = s
      <4>1. CASE s = taken
        BY <2>1, <3>5, <3>6, <4>1
      <4>2. CASE s # taken
        <5>1. s \in 0 .. taken - 1
          BY <2>2, <4>2
        <5>2. CASE s \in DOMAIN t1
          BY <2>2, <5>2
        <5>3. CASE s \notin DOMAIN t1
          <6>1. PICK v \in Workers : Held(v) /\ worker[v].slot = s
            BY <3>4, <5>1, <5>3
          <6>2. v # w
            BY <3>6, <6>1
          <6> QED BY <3>5, <3>6, <6>1, <6>2
        <5> QED BY <5>2, <5>3
      <4> QED BY <4>1, <4>2
    <3>11. WorkersOK'
      BY <1>3, <3>4, <3>5, <3>8, <3>9, <3>10 DEF WorkersOK
    <3> QED BY <1>1, <2>2, <3>1, <3>3, <3>11, MatchKeeps
  <2> QED BY <2>6, <2>7
<1> QED BY <1>4, <1>5

\* A run of equal hashes ends.
LEMMA EndRunIInv ==
  ASSUME IInv, NEW w \in Workers, EndRun(w)
  PROVE  IInv'
<1> USE CallIs
<1> DEFINE rec == [worker[w] EXCEPT !.j = @ + 1, !.at = "scan"]
<1>1. /\ phase = "match1" /\ worker[w].at = "run" /\ worker' = [worker EXCEPT ![w] = rec]
      /\ UNCHANGED <<phase, asked, listVars, t1, taken, pairVars>>
  BY DEF EndRun, Step
<1>2. rec \in WorkerState /\ rec.at = "scan" /\ rec.section \in Sections
  <2> DEFINE me == worker[w]
  <2>1. me \in WorkerState /\ me.section \in Sections /\ me.j \in Nat
    BY <1>1, InRunIs
  <2>2. rec = [me EXCEPT !.j = @ + 1, !.at = "scan"]
    OBVIOUS
  <2> HIDE DEF me, rec
  <2>3. me.ti \in Nat /\ me.slot \in Nat /\ me.section \in 0 .. 4 /\ me.i \in Nat
    BY <2>1 DEF WorkerState
  <2>4. rec = [section |-> me.section, i |-> me.i, j |-> me.j + 1, ti |-> me.ti, slot |-> me.slot, at |-> "scan"]
    BY <2>1, <2>2 DEF WorkerState
  <2>5. me.j + 1 \in Nat
    BY <2>1
  <2> QED BY <2>1, <2>3, <2>4, <2>5 DEF WorkerState
<1> HIDE DEF rec
<1>3. WorkersOK'
  BY <1>1, <1>2, StepKeeps
<1>4. SlotsOK'
  BY <1>1, CallStays, SlotsKept
<1> QED BY <1>1, <1>3, <1>4, MatchKeeps

\* A thread stores its match at the slot it took: no other thread has it.
LEMMA StoreIInv ==
  ASSUME IInv, NEW w \in Workers, Store(w)
  PROVE  IInv'
<1> USE CallIs
<1> DEFINE me   == worker[w]
           pair == <<x1s[me.ti + 1].x, x2s[me.j + 1].x>>
           new  == [x1 |-> pair[1], x2 |-> pair[2], hash |-> Info(Plot, 1, pair)]
           rec  == [me EXCEPT !.ti = @ + 1, !.at = "run"]
<1>1. /\ phase = "match1" /\ me.at = "store" /\ worker' = [worker EXCEPT ![w] = rec]
      /\ t1' = [s \in DOMAIN t1 \cup {me.slot} |-> IF s = me.slot THEN new ELSE t1[s]]
      /\ UNCHANGED <<phase, asked, listVars, taken, pairVars>>
  BY DEF Store, Step
<1>2. /\ \A s \in Sections : bounds.x1[s] \in 0 .. Len(x1s) /\ bounds.x2[s] \in 0 .. Len(x2s)
      /\ DOMAIN worker = Workers
      /\ \A v \in Workers : BusyOK(v)
      /\ \A u, v \in Workers : Held(u) /\ Held(v) /\ worker[u].slot = worker[v].slot => u = v
      /\ \A s \in 0 .. taken - 1 :
           s \in DOMAIN t1 \/ \E v \in Workers : Held(v) /\ worker[v].slot = s
  BY <1>1 DEF WorkersOK
<1>3. /\ me \in WorkerState /\ me.section \in Sections /\ me.ti \in Nat /\ me.j \in Nat /\ me.slot \in Nat
      /\ me.j < Len(x2s) /\ Len(x1s) \in Nat /\ Len(x2s) \in Nat
  BY <1>1, InRunIs
<1>4. /\ me.ti < Len(x1s) /\ x1s[me.ti + 1].hash = x2s[me.j + 1].hash
      /\ Passes(Plot, 1, pair) /\ me.slot < taken /\ me.slot \notin DOMAIN t1
  BY <1>1, <1>2 DEF BusyOK
<1>5. SameCall /\ x1s' = x1s /\ x2s' = x2s /\ bounds' = bounds
  BY <1>1, CallStays DEF listVars
<1>6. new \in GoodMatch(Plot)
  <2> DEFINE e1 == x1s[me.ti + 1]
             e2 == x2s[me.j + 1]
  <2>1. e1 \in GoodX1(Plot) /\ e2 \in GoodX2(Plot)
    <3>1. x1s \in Seq(GoodX1(Plot)) /\ x2s \in Seq(GoodX2(Plot))
      BY DEF CandidatesOK
    <3>2. me.ti + 1 \in 1 .. Len(x1s) /\ me.j + 1 \in 1 .. Len(x2s)
      <4> DEFINE ti == me.ti
                 tj == me.j
                 n1 == Len(x1s)
                 n2 == Len(x2s)
      <4>1. ti \in Nat /\ tj \in Nat /\ n1 \in Nat /\ n2 \in Nat /\ ti < n1 /\ tj < n2
        BY <1>3, <1>4
      <4> HIDE DEF ti, tj, n1, n2
      <4>2. ti + 1 \in 1 .. n1 /\ tj + 1 \in 1 .. n2
        BY <4>1
      <4> QED BY <4>2 DEF ti, tj, n1, n2
    <3> DEFINE a == me.ti + 1
               b == me.j + 1
    <3>3. a \in 1 .. Len(x1s) /\ b \in 1 .. Len(x2s)
      BY <3>2
    <3> HIDE DEF a, b
    <3>4. x1s[a] \in GoodX1(Plot)
      BY <3>1, <3>3
    <3>5. x2s[b] \in GoodX2(Plot)
      BY <3>1, <3>3
    <3> QED BY <3>4, <3>5 DEF a, b
  <2>2. e1.hash = e2.hash /\ Passes(Plot, 1, <<e1.x, e2.x>>)
    BY <1>4
  <2>3. new = [x1 |-> e1.x, x2 |-> e2.x, hash |-> Info(Plot, 1, <<e1.x, e2.x>>)]
    OBVIOUS
  <2> HIDE DEF e1, e2, new
  <2> QED BY <2>1, <2>2, <2>3, PairFound
<1>7. rec \in WorkerState /\ rec.at = "run" /\ rec.section = me.section /\ rec.j = me.j
  <2>1. rec = [me EXCEPT !.ti = @ + 1, !.at = "run"]
    OBVIOUS
  <2> HIDE DEF me, rec
  <2>2. me.slot \in Nat /\ me.section \in 0 .. 4 /\ me.i \in Nat /\ me.ti + 1 \in Nat
    BY <1>3 DEF WorkerState
  <2>3. rec = [section |-> me.section, i |-> me.i, j |-> me.j, ti |-> me.ti + 1, slot |-> me.slot, at |-> "run"]
    BY <1>3, <2>1 DEF WorkerState
  <2> QED BY <1>3, <2>2, <2>3 DEF WorkerState
<1> HIDE DEF rec, new, pair
<1>8. SlotsOK'
  <2>1. DOMAIN t1 \subseteq 0 .. MaxMatches - 1 /\ DOMAIN t1 \subseteq 0 .. taken - 1 /\ taken <= MaxMatches
        /\ \A s \in DOMAIN t1 : t1[s] \in GoodMatch(Plot)
    BY <1>1 DEF SlotsOK
  <2>2. me.slot \in 0 .. MaxMatches - 1 /\ me.slot \in 0 .. taken - 1
    <3>1. MaxMatches \in Nat
      BY SolverAssumption
    <3> QED BY <1>3, <1>4, <2>1, <3>1
  <2>3. \A s \in DOMAIN t1' : t1'[s] \in GoodMatch(Plot)
    BY <1>1, <1>6, <2>1
  <2>4. DOMAIN t1' = DOMAIN t1 \cup {me.slot}
    BY <1>1
  <2> QED BY <1>1, <1>5, <2>1, <2>2, <2>3, <2>4 DEF SlotsOK, SameCall
<1>9. DOMAIN worker' = Workers /\ worker'[w] = rec /\ \A v \in Workers : v # w => worker'[v] = worker[v]
  BY <1>1, <1>2
<1>10. Held(w) /\ ~ Held(w)' /\ \A v \in Workers : v # w => (Held(v)' <=> Held(v))
  BY <1>1, <1>7, <1>9 DEF Held
<1>11. ASSUME NEW v \in Workers PROVE BusyOK(v)'
  <2>1. CASE v = w
    BY <1>3, <1>5, <1>7, <1>9, <2>1 DEF BusyOK
  <2>2. CASE v # w
    <3>1. worker'[v] = worker[v] /\ x1s' = x1s /\ x2s' = x2s /\ Plot' = Plot /\ taken' = taken
      BY <1>1, <1>5, <1>9, <2>2 DEF SameCall
    <3>2. BusyOK(v)
      BY <1>2
    <3>3. worker[v].at = "store" => worker[v].slot \notin DOMAIN t1'
      BY <1>1, <1>2, <1>10, <2>2, <3>2 DEF BusyOK, Held
    <3> QED BY <3>1, <3>2, <3>3 DEF BusyOK
  <2> QED BY <2>1, <2>2
<1>12. ASSUME NEW u \in Workers, NEW v \in Workers, Held(u)', Held(v)', worker'[u].slot = worker'[v].slot
       PROVE  u = v
  BY <1>2, <1>9, <1>10, <1>12
<1>13. ASSUME NEW s \in 0 .. taken' - 1
       PROVE  s \in DOMAIN t1' \/ \E v \in Workers : Held(v)' /\ worker'[v].slot = s
  <2>1. CASE s \in DOMAIN t1
    BY <1>1, <2>1
  <2>2. CASE s \notin DOMAIN t1
    <3>1. s \in 0 .. taken - 1
      BY <1>1
    <3>2. PICK v \in Workers : Held(v) /\ worker[v].slot = s
      BY <1>2, <2>2, <3>1
    <3>3. CASE v = w
      BY <1>1, <3>2, <3>3
    <3>4. CASE v # w
      BY <1>9, <1>10, <3>2, <3>4
    <3> QED BY <3>3, <3>4
  <2> QED BY <2>1, <2>2
<1>14. WorkersOK'
  BY <1>2, <1>5, <1>9, <1>11, <1>12, <1>13 DEF WorkersOK
<1>15. taken' \in Nat /\ phase' = "match1" /\ UNCHANGED <<asked, listVars, pairVars>>
  BY <1>1
<1> QED BY <1>1, <1>8, <1>14, <1>15, MatchKeeps

\* The threads are joined: no slot is empty, so that only matches are grouped.
LEMMA JoinMatch1IInv ==
  ASSUME IInv, JoinMatch1
  PROVE  IInv'
<1> USE CallIs
<1> DEFINE matches == [i \in 1 .. taken |-> t1[i - 1]]
<1>1. /\ phase = "match1" /\ \A w \in Workers : worker[w].at = "done"
      /\ groups' = GroupsOf(matches) /\ phase' = "begin2"
      /\ UNCHANGED <<asked, unique, mapping, x1s, found, failed, x2s, bounds, worker, t1, taken,
                     right, next, t2, t3, proofs>>
  BY DEF JoinMatch1, listVars, matchVars
<1>2. SameCall
  BY <1>1, CallStays
<1>3. \A s \in 0 .. taken - 1 : s \in DOMAIN t1
  BY <1>1 DEF WorkersOK, Held
<1>4. matches \in Seq(GoodMatch(Plot))
  <2>1. \A s \in DOMAIN t1 : t1[s] \in GoodMatch(Plot)
    BY DEF SlotsOK
  <2>2. matches \in [1 .. taken -> GoodMatch(Plot)]
    <3>1. ASSUME NEW i \in 1 .. taken PROVE t1[i - 1] \in GoodMatch(Plot)
      <4>1. i - 1 \in 0 .. taken - 1
        OBVIOUS
      <4> QED BY <1>3, <2>1, <4>1
    <3> QED BY <3>1
  <2> HIDE DEF matches
  <2> QED BY <2>2, ListOf
<1> HIDE DEF matches
<1>5. GroupsOK'
  <2>1. DOMAIN groups' = DOMAIN unique
    BY <1>1 DEF GroupsOf
  <2>2. \A g \in DOMAIN unique : groups'[g] \in Seq(MatchesIn(Plot, unique[g]))
    BY <1>1, <1>4, GroupsGood
  <2> QED BY <1>1, <1>2, <2>1, <2>2 DEF GroupsOK, SameCall, Early
<1>6. CallOK'
  BY <1>1 DEF CallOK, Late
<1>7. MappingOK' /\ CandidatesOK' /\ SlotsOK' /\ EndOK'
  BY <1>1, <1>2, MappingKept, CandidatesKept, SlotsKept, EndKept
<1>8. WorkersOK'
  BY <1>1 DEF WorkersOK
<1>9. TwoOK'
  <2>1. t2' = <<>>
    BY <1>1 DEF TwoOK, Early
  <2>2. Fragments' \in Nat
    BY <1>2 DEF SameCall
  <2>3. t2' \in Seq(Seq([1 .. 4 -> Xs])) /\ Len(t2') = 0
    BY <2>1
  <2>4. phase' \notin Early /\ phase' # "match2"
    BY <1>1 DEF Early
  <2>5. /\ Len(t2') <= 2 * Fragments'
        /\ \A g \in 1 .. Len(t2') : t2'[g] \in Seq(Fours(Plot, XBits[2 * g - 1], XBits[2 * g]))'
    <3>1. ASSUME NEW k \in Nat PROVE 0 <= 2 * k
      OBVIOUS
    <3>2. Len(t2') <= 2 * Fragments'
      BY <2>2, <2>3, <3>1
    <3>3. \A g \in 1 .. Len(t2') : FALSE
      BY <2>3
    <3> QED BY <3>2, <3>3
  <2> QED BY <2>3, <2>4, <2>5 DEF TwoOK
<1> QED BY <1>5, <1>6, <1>7, <1>8, <1>9 DEF IInv
-----------------------------------------------------------------------------
(* Table 2                                                                 *)

\* The groups of a quality string's x ranges hold matches of those.
LEMMA GroupIs ==
  ASSUME IInv, phase \in Late, NEW i \in 1 .. 4 * Fragments
  PROVE  /\ groups[mapping[i]] \in Seq(MatchesIn(Plot, XBits[i]))
         /\ Len(groups[mapping[i]]) \in Nat
<1> USE CallIs
<1>1. mapping[i] \in DOMAIN unique /\ unique[mapping[i]] = XBits[i]
  BY DEF MappingOK, Late
<1>2. groups[mapping[i]] \in Seq(MatchesIn(Plot, unique[mapping[i]]))
  BY <1>1 DEF GroupsOK
<1> QED BY <1>1, <1>2

\* The two x ranges of a group of table 2.
LEMMA TwoRanges ==
  ASSUME IInv, NEW g \in 1 .. 2 * Fragments
  PROVE  2 * g - 1 \in 1 .. 4 * Fragments /\ 2 * g \in 1 .. 4 * Fragments
<1>1. Fragments \in Nat
  BY CallIs
<1> DEFINE n == Fragments
<1>2. n \in Nat /\ g \in 1 .. 2 * n
  BY <1>1
<1> HIDE DEF n
<1>3. 2 * g - 1 \in 1 .. 4 * n /\ 2 * g \in 1 .. 4 * n
  BY <1>2
<1> QED BY <1>3 DEF n

\* Table 2 leaves the other parts alone.
LEMMA TwoKeeps ==
  ASSUME IInv, phase \in Late, phase' \in Late,
         UNCHANGED <<asked, listVars, matchVars, groups>>, TwoOK', EndOK'
  PROVE  IInv'
<1> USE CallIs
<1>1. SameCall
  BY CallStays
<1>2. UNCHANGED <<unique, mapping, x1s, found, failed, x2s, t1, taken, groups>>
  BY DEF listVars, matchVars
<1>3. CallOK'
  BY <1>2 DEF CallOK, Late
<1>4. phase \notin Early /\ phase' \notin Early /\ phase # "exited" /\ phase # "hash" /\ phase' # "hash"
  BY DEF Early, Late
<1>5. MappingOK' /\ CandidatesOK' /\ SlotsOK' /\ GroupsOK'
  BY <1>1, <1>2, <1>4, MappingKept, CandidatesKept, SlotsKept, GroupsKept
<1>6. WorkersOK'
  BY DEF WorkersOK, Late
<1> QED BY <1>3, <1>5, <1>6 DEF IInv

\* A group of table 2 begins, its right list sorted in whatever order.
LEMMA Begin2IInv ==
  ASSUME IInv, Begin2
  PROVE  IInv'
<1> USE CallIs
<1> DEFINE g == Len(t2) + 1
<1>1. /\ phase = "begin2" /\ Len(t2) < 2 * Fragments /\ phase' = "match2"
      /\ right' \in SortedOrders(RightOf(g)) /\ t2' = Append(t2, <<>>)
      /\ next' = [w \in Workers |-> ShareOf(Len(LeftOf(g)), w)]
      /\ UNCHANGED <<asked, listVars, matchVars, groups, t3, proofs>>
  BY DEF Begin2
<1>2. /\ SameCall /\ mapping' = mapping /\ groups' = groups
  BY <1>1, CallStays DEF listVars
<1>3. /\ t2 \in Seq(Seq([1 .. 4 -> Xs])) /\ Len(t2) \in Nat
      /\ \A i \in 1 .. Len(t2) : t2[i] \in Seq(Fours(Plot, XBits[2 * i - 1], XBits[2 * i]))
  BY DEF TwoOK
<1>4. g \in 1 .. 2 * Fragments /\ phase \in Late /\ phase' \in Late /\ phase' \notin Early
  <2> DEFINE m == Len(t2)
             k == 2 * Fragments
  <2>1. m \in Nat /\ k \in Nat /\ m < k
    BY <1>1, <1>3
  <2> HIDE DEF m, k
  <2>2. m + 1 \in 1 .. k
    BY <2>1
  <2> QED BY <1>1, <2>2 DEF m, k, Late, Early
<1>5. 2 * g - 1 \in 1 .. 4 * Fragments /\ 2 * g \in 1 .. 4 * Fragments
  BY <1>4, TwoRanges
<1>6. RightOf(g) \in Seq(MatchesIn(Plot, XBits[2 * g])) /\ Len(LeftOf(g)) \in Nat
  BY <1>4, <1>5, GroupIs DEF RightOf, LeftOf
<1>7. right' \in Seq(MatchesIn(Plot, XBits[2 * g]))
  BY <1>1, <1>6, OrdersIn
<1>8. /\ t2' \in Seq(Seq([1 .. 4 -> Xs])) /\ Len(t2') = g
      /\ \A i \in 1 .. Len(t2) : t2'[i] = t2[i]
      /\ t2'[g] = <<>>
  <2>1. <<>> \in Seq([1 .. 4 -> Xs])
    OBVIOUS
  <2> QED BY <1>1, <1>3, <2>1
<1>10. next' \in [Workers -> [at : Nat, end : 0 .. Len(LeftOf(g))]]
  <2>1. \A w \in Workers : ShareOf(Len(LeftOf(g)), w) \in [at : Nat, end : 0 .. Len(LeftOf(g))]
    BY <1>6, ShareIn
  <2> QED BY <1>1, <2>1
<1>11. ASSUME NEW i \in 1 .. Len(t2') PROVE t2'[i] \in Seq(Fours(Plot, XBits[2 * i - 1], XBits[2 * i]))
  <2>1. i \in 1 .. Len(t2) \/ i = g
    BY <1>3, <1>8
  <2>2. CASE i = g
    <3>1. t2'[i] = <<>>
      BY <1>8, <2>2
    <3> QED BY <3>1
  <2>3. CASE i \in 1 .. Len(t2)
    BY <1>3, <1>8, <2>3
  <2> QED BY <2>1, <2>2, <2>3
<1> HIDE DEF g
<1>12. LeftOf(Len(t2))' = LeftOf(g)
  BY <1>2, <1>8 DEF LeftOf
<1>13. TwoOK'
  <2>1. Plot' = Plot /\ XBits' = XBits /\ Fragments' = Fragments
    BY <1>2 DEF SameCall
  <2>2. Len(t2') <= 2 * Fragments' /\ Len(t2') >= 1
    BY <1>4, <1>8, <2>1
  <2>3. \A i \in 1 .. Len(t2') : t2'[i] \in Seq(Fours(Plot', XBits'[2 * i - 1], XBits'[2 * i]))
    BY <1>11, <2>1
  <2>4. right' \in Seq(MatchesIn(Plot', XBits'[2 * Len(t2')]))
    BY <1>7, <1>8, <2>1
  <2>5. next' \in [Workers -> [at : Nat, end : 0 .. Len(LeftOf(Len(t2))')]]
    BY <1>10, <1>12
  <2> QED BY <1>4, <1>8, <2>2, <2>3, <2>4, <2>5 DEF TwoOK
<1>14. EndOK'
  BY <1>1, <1>2, EndKept
<1> QED BY <1>1, <1>4, <1>13, <1>14, TwoKeeps

\* A group of table 2 ends.
LEMMA JoinMatch2IInv ==
  ASSUME IInv, JoinMatch2
  PROVE  IInv'
<1> USE CallIs
<1>1. /\ phase = "match2" /\ phase' = "begin2" /\ UNCHANGED <<asked, listVars, matchVars, groups>>
      /\ UNCHANGED <<mapping, groups, right, next, t2, t3, proofs>>
  BY DEF JoinMatch2, listVars, pairVars
<1>2. SameCall /\ phase \in Late /\ phase' \in Late /\ phase' \notin Early
  BY <1>1, CallStays DEF Late, Early
<1>3. TwoOK'
  BY <1>1, <1>2, TwoKept
<1>4. EndOK'
  BY <1>1, <1>2, EndKept
<1> QED BY <1>1, <1>2, <1>3, <1>4, TwoKeeps

\* A thread appends the matches of a left entry.
LEMMA MatchLeftIInv ==
  ASSUME IInv, NEW w \in Workers, MatchLeft(w)
  PROVE  IInv'
<1> USE CallIs
<1> DEFINE g   == Len(t2)
           m   == LeftOf(g)[next[w].at + 1]
           S   == Fours(Plot, XBits[2 * g - 1], XBits[2 * g])
           new == t2[g] \o LocalOut(m)
<1>1. /\ phase = "match2" /\ phase' = "match2" /\ next[w].at < next[w].end
      /\ t2' = [t2 EXCEPT ![g] = new] /\ next' = [next EXCEPT ![w].at = @ + 1]
      /\ UNCHANGED <<asked, listVars, matchVars, groups, right, t3, proofs>>
  BY DEF MatchLeft
<1>2. SameCall /\ mapping' = mapping /\ groups' = groups
  BY <1>1, CallStays DEF listVars
<1>3. /\ t2 \in Seq(Seq([1 .. 4 -> Xs])) /\ g \in Nat /\ g <= 2 * Fragments /\ g >= 1
      /\ \A i \in 1 .. g : t2[i] \in Seq(Fours(Plot, XBits[2 * i - 1], XBits[2 * i]))
      /\ right \in Seq(MatchesIn(Plot, XBits[2 * g]))
      /\ next \in [Workers -> [at : Nat, end : 0 .. Len(LeftOf(g))]]
  BY <1>1 DEF TwoOK
<1>4. phase \in Late /\ phase' \in Late /\ phase' \notin Early
  BY <1>1 DEF Late, Early
<1>5. 2 * g - 1 \in 1 .. 4 * Fragments
  <2>1. g \in 1 .. 2 * Fragments
    BY <1>3
  <2> QED BY <2>1, TwoRanges
<1>6. LeftOf(g) \in Seq(MatchesIn(Plot, XBits[2 * g - 1])) /\ Len(LeftOf(g)) \in Nat
  BY <1>4, <1>5, GroupIs DEF LeftOf
<1>7. m \in MatchesIn(Plot, XBits[2 * g - 1])
  <2> DEFINE at  == next[w].at
             end == next[w].end
             left == LeftOf(g)
  <2>1. at \in Nat /\ end \in 0 .. Len(left) /\ at < end
    BY <1>1, <1>3
  <2>2. left \in Seq(MatchesIn(Plot, XBits[2 * g - 1])) /\ Len(left) \in Nat
    BY <1>6
  <2> HIDE DEF at, end, left
  <2>3. at + 1 \in 1 .. Len(left)
    BY <2>1, <2>2
  <2>4. left[at + 1] \in MatchesIn(Plot, XBits[2 * g - 1])
    BY <2>2, <2>3
  <2> QED BY <2>4 DEF at, left
<1>8. m \in GoodMatch(Plot) /\ Upper(m.x1) = XBits[2 * g - 1]
  BY <1>7 DEF MatchesIn
<1> HIDE DEF m
<1>9. LocalOut(m) \in Seq(S)
  BY <1>3, <1>8, LocalOutGood
<1>10. t2[g] \in Seq(S)
  BY <1>3
<1>11. new \in Seq(S) /\ new \in Seq([1 .. 4 -> Xs])
  <2>1. new \in Seq(S)
    <3> HIDE DEF S
    <3> QED BY <1>9, <1>10
  <2>2. S \subseteq [1 .. 4 -> Xs]
    BY DEF Fours
  <2> HIDE DEF S, new
  <2> QED BY <2>1, <2>2
<1> DEFINE n == Len(t2)
<1>12. /\ t2' \in Seq(Seq([1 .. 4 -> Xs])) /\ Len(t2') = n
       /\ \A i \in 1 .. n : t2'[i] = IF i = n THEN new ELSE t2[i]
  <2> DEFINE Z == Seq([1 .. 4 -> Xs])
  <2>1. t2 \in Seq(Z) /\ n = Len(t2) /\ n \in Nat /\ new \in Z /\ t2' = [t2 EXCEPT ![n] = new] /\ n >= 1
    BY <1>1, <1>3, <1>11
  <2> HIDE DEF Z, new, n
  <2>2. DOMAIN t2 = 1 .. n /\ \A i \in 1 .. n : t2[i] \in Z
    BY <2>1
  <2>3. t2' \in [1 .. n -> Z] /\ \A i \in 1 .. n : t2'[i] = IF i = n THEN new ELSE t2[i]
    BY <2>1, <2>2
  <2>4. t2' \in Seq(Z) /\ Len(t2') = n
    BY <2>1, <2>3, ListOf
  <2> QED BY <2>3, <2>4 DEF Z, n
<1>13. ASSUME NEW i \in 1 .. n PROVE t2'[i] \in Seq(Fours(Plot, XBits[2 * i - 1], XBits[2 * i]))
  <2>1. CASE i = n
    BY <1>11, <1>12, <2>1
  <2>2. CASE i # n
    BY <1>3, <1>12, <2>2
  <2> QED BY <2>1, <2>2
<1>14. next' \in [Workers -> [at : Nat, end : 0 .. Len(LeftOf(n))]]
  <2> DEFINE E == 0 .. Len(LeftOf(n))
  <2>1. next \in [Workers -> [at : Nat, end : E]] /\ next' = [next EXCEPT ![w].at = @ + 1]
    BY <1>1, <1>3
  <2> HIDE DEF E
  <2>2. next[w] \in [at : Nat, end : E] /\ DOMAIN next = Workers
    BY <2>1
  <2>3. [next[w] EXCEPT !.at = @ + 1] \in [at : Nat, end : E]
    BY <2>2
  <2>4. next' = [next EXCEPT ![w] = [next[w] EXCEPT !.at = @ + 1]]
    BY <2>1
  <2>5. next' \in [Workers -> [at : Nat, end : E]]
    BY <2>1, <2>3, <2>4
  <2> QED BY <2>5 DEF E
<1> HIDE DEF S, new
<1>15. TwoOK'
  <2>1. Plot' = Plot /\ XBits' = XBits /\ Fragments' = Fragments /\ right' = right
    BY <1>1, <1>2 DEF SameCall
  <2>2. LeftOf(Len(t2))' = LeftOf(n)
    BY <1>2, <1>12 DEF LeftOf
  <2>3. Len(t2') <= 2 * Fragments' /\ Len(t2') >= 1
    BY <1>3, <1>12, <2>1
  <2>4. \A i \in 1 .. Len(t2') : t2'[i] \in Seq(Fours(Plot', XBits'[2 * i - 1], XBits'[2 * i]))
    BY <1>12, <1>13, <2>1
  <2>5. right' \in Seq(MatchesIn(Plot', XBits'[2 * Len(t2')]))
    BY <1>3, <1>12, <2>1
  <2>6. next' \in [Workers -> [at : Nat, end : 0 .. Len(LeftOf(Len(t2))')]]
    BY <1>14, <2>2
  <2> QED BY <1>4, <1>12, <2>3, <2>4, <2>5, <2>6 DEF TwoOK
<1>16. EndOK'
  BY <1>1, <1>2, EndKept
<1> QED BY <1>1, <1>4, <1>15, <1>16, TwoKeeps

-----------------------------------------------------------------------------
(* The end                                                                 *)

\* matchT3Candidates: what passes is a proof of its fragment.
LEMMA MatchT3IInv ==
  ASSUME IInv, MatchT3
  PROVE  IInv'
<1> USE CallIs
<1>1. /\ phase = "begin2" /\ Len(t2) = 2 * Fragments /\ phase' = "construct"
      /\ t3' = [f \in 1 .. Fragments |-> T3Of(f)]
      /\ UNCHANGED <<asked, listVars, matchVars, groups, right, next, t2, proofs>>
  BY DEF MatchT3
<1>2. SameCall /\ mapping' = mapping
  BY <1>1, CallStays DEF listVars
<1>3. phase \in Late /\ phase' \in Late /\ phase' \notin Early
  BY <1>1 DEF Late, Early
<1>4. \A g \in 1 .. Len(t2) : t2[g] \in Seq(Fours(Plot, XBits[2 * g - 1], XBits[2 * g]))
  BY DEF TwoOK
<1>5. ASSUME NEW f \in 1 .. Fragments PROVE t3'[f] \in Seq(Eights(Plot, asked[2][f]))
  <2> DEFINE k == Fragments
             l == (2 * f) - 1
             r == 2 * f
  <2>1. k \in Nat /\ f \in 1 .. k
    BY <1>5
  <2> HIDE DEF k
  <2>2. /\ l \in 1 .. 2 * k /\ r \in 1 .. 2 * k
        /\ (2 * l) - 1 = (4 * f) - 3 /\ 2 * l = (4 * f) - 2
        /\ (2 * r) - 1 = (4 * f) - 1 /\ 2 * r = 4 * f
    BY <2>1
  <2> HIDE DEF l, r
  <2>3. /\ t2[l] \in Seq(Fours(Plot, XBits[2 * l - 1], XBits[2 * l]))
        /\ t2[r] \in Seq(Fours(Plot, XBits[2 * r - 1], XBits[2 * r]))
    <3>1. l \in 1 .. Len(t2) /\ r \in 1 .. Len(t2)
      BY <1>1, <2>2 DEF k
    <3> QED BY <1>4, <3>1
  <2>4. /\ t2[l] \in Seq(Fours(Plot, XBits[(4 * f) - 3], XBits[(4 * f) - 2]))
        /\ t2[r] \in Seq(Fours(Plot, XBits[(4 * f) - 1], XBits[4 * f]))
    BY <2>2, <2>3
  <2>5. T3Of(f) \in Seq(Eights(Plot, asked[2][f]))
    BY <2>4, T3Good DEF l, r
  <2> QED BY <1>1, <2>5
<1>6. TwoOK'
  BY <1>1, <1>2, <1>3, TwoKept
<1>7. EndOK'
  <2>1. Plot' = Plot /\ Fragments' = Fragments /\ asked' = asked
    BY <1>2 DEF SameCall
  <2> QED BY <1>1, <1>5, <2>1 DEF EndOK
<1> QED BY <1>1, <1>3, <1>6, <1>7, TwoKeeps

\* constructProofs: a proof of every fragment in its place.
LEMMA ConstructIInv ==
  ASSUME IInv, Construct
  PROVE  IInv'
<1> USE CallIs
<1>1. /\ phase = "construct" /\ phase' = "done" /\ proofs' = Chosen[Fragments]
      /\ UNCHANGED <<asked, listVars, matchVars, groups, right, next, t2, t3>>
  BY DEF Construct
<1>2. SameCall /\ mapping' = mapping
  BY <1>1, CallStays DEF listVars
<1>3. phase \in Late /\ phase' \in Late /\ phase' \notin Early
  BY <1>1 DEF Late, Early
<1>4. \A f \in 1 .. Fragments : t3[f] \in Seq(Eights(Plot, asked[2][f]))
  BY <1>1 DEF EndOK
<1>5. proofs' \in Seq(Full(Plot, asked[2], Fragments))
  BY <1>1, <1>4, ChosenGood
<1>6. TwoOK'
  BY <1>1, <1>2, <1>3, TwoKept
<1>7. EndOK'
  <2>1. Plot' = Plot /\ Fragments' = Fragments /\ asked' = asked
    BY <1>2 DEF SameCall
  <2> QED BY <1>1, <1>4, <1>5, <2>1 DEF EndOK
<1> QED BY <1>1, <1>3, <1>6, <1>7, TwoKeeps

-----------------------------------------------------------------------------
(* The theorems                                                            *)

\* A step that changes nothing.
LEMMA StutterIInv ==
  ASSUME IInv, UNCHANGED vars
  PROVE  IInv'
<1> USE CallIs
<1>1. /\ SameCall
      /\ UNCHANGED <<phase, asked, unique, mapping, x1s, found, failed, x2s, bounds, worker, t1, taken,
                     groups, right, next, t2, t3, proofs>>
  BY CallStays DEF vars, listVars, matchVars, pairVars
<1>2. CallOK'
  BY <1>1 DEF IInv, CallOK
<1>3. MappingOK'
  BY <1>1 DEF MappingOK, SameCall
<1>4. CandidatesOK' /\ SlotsOK' /\ GroupsOK' /\ TwoOK' /\ EndOK'
  BY <1>1, CandidatesKept, SlotsKept, GroupsKept, TwoKept, EndKept
<1>5. WorkersOK'
  <2>1. Plot' = Plot
    BY <1>1 DEF SameCall
  <2>2. \A w \in Workers : (BusyOK(w)' <=> BusyOK(w)) /\ (Held(w)' <=> Held(w))
    BY <1>1, <2>1 DEF BusyOK, Held
  <2> QED BY <1>1, <2>2 DEF WorkersOK
<1> QED BY <1>2, <1>3, <1>4, <1>5 DEF IInv

\* The invariant is inductive.
LEMMA NextIInv ==
  ASSUME IInv, [Next]_vars
  PROVE  IInv'
<1>1. CASE HashX1
  BY <1>1, HashX1IInv
<1>2. CASE JoinFilter
  BY <1>2, JoinFilterIInv
<1>3. CASE JoinMatch1
  BY <1>3, JoinMatch1IInv
<1>4. CASE Begin2
  BY <1>4, Begin2IInv
<1>5. CASE JoinMatch2
  BY <1>5, JoinMatch2IInv
<1>6. CASE MatchT3
  BY <1>6, MatchT3IInv
<1>7. CASE Construct
  BY <1>7, ConstructIInv
<1>8. ASSUME NEW w \in Workers, FilterChunk(w) \/ MatchWork(w) PROVE IInv'
  BY <1>8, FilterChunkIInv, EnterSectionIInv, ScanIInv, PairUpIInv, StoreIInv, EndRunIInv, MatchLeftIInv
     DEF MatchWork
<1>9. CASE UNCHANGED vars
  BY <1>9, StutterIInv
<1> QED BY <1>1, <1>2, <1>3, <1>4, <1>5, <1>6, <1>7, <1>8, <1>9 DEF Next, Coordinate

\* The invariant holds of every search, whatever the hashes, the filters, the
\* plot and the number of threads.
THEOREM SolverKeeps == Spec => []IInv
<1>1. Init => IInv
  BY InitIInv
<1>2. IInv /\ [Next]_vars => IInv'
  BY NextIInv
<1> QED BY <1>1, <1>2, PTL DEF Spec

\* What a search holds is of its type: in particular no thread's part and no
\* array of matches grows over its limit.
THEOREM SolverTypes == Spec => []TypeOK
<1>1. ASSUME IInv PROVE TypeOK
  <2> USE CallIs
  <2>1. asked[2] \in Seq(Blocks)
    BY <1>1, SolverAssumption
  <2>2. phase \in {"hash", "filter", "match1", "begin2", "match2", "construct", "done", "thrown", "exited"}
    <3>1. phase \in Early \cup Late
      BY <1>1
    <3> QED BY <3>1 DEF Early, Late
  <2>3. GoodX1(Plot) \subseteq Candidate /\ GoodX2(Plot) \subseteq Candidate
    BY DEF GoodX1, GoodX2
  <2>4. x1s \in Seq(Candidate) /\ x2s \in Seq(Candidate)
        /\ \A t \in Workers :
             found[t] # Blank => found[t] \in Seq(Candidate) /\ Len(found[t]) <= MaxPerThread
    <3>1. /\ x1s \in Seq(GoodX1(Plot)) /\ x2s \in Seq(GoodX2(Plot))
          /\ \A t \in Workers :
               found[t] # Blank => found[t] \in Seq(GoodX2(Plot)) /\ Len(found[t]) <= MaxPerThread
      BY <1>1 DEF CandidatesOK
    <3> QED BY <2>3, <3>1
  <2>5. GoodMatch(Plot) \subseteq Match
    BY DEF GoodMatch
  <2>6. /\ DOMAIN t1 \subseteq 0 .. MaxMatches - 1 /\ \A s \in DOMAIN t1 : t1[s] \in Match
        /\ phase # "exited" => taken <= MaxMatches
    BY <1>1, <2>5 DEF SlotsOK
  <2>7. \A g \in DOMAIN groups : groups[g] \in Seq(Match)
    <3>1. CASE phase \in Early
      BY <1>1, <3>1 DEF GroupsOK
    <3>2. CASE phase \in Late
      <4>1. \A g \in DOMAIN groups : groups[g] \in Seq(MatchesIn(Plot, unique[g]))
        BY <1>1, <3>2 DEF GroupsOK
      <4>2. ASSUME NEW b PROVE MatchesIn(Plot, b) \subseteq Match
        BY <2>5 DEF MatchesIn
      <4> QED BY <4>1, <4>2
    <3> QED BY <1>1, <3>1, <3>2
  <2>8. \A g \in DOMAIN t2 : \A i \in DOMAIN t2[g] : t2[g][i] \in [1 .. 4 -> Xs]
    <3>1. t2 \in Seq(Seq([1 .. 4 -> Xs]))
      BY <1>1 DEF TwoOK
    <3>2. ASSUME NEW g \in DOMAIN t2, NEW i \in DOMAIN t2[g] PROVE t2[g][i] \in [1 .. 4 -> Xs]
      <4> DEFINE E == [1 .. 4 -> Xs]
      <4> HIDE DEF E
      <4>1. t2[g] \in Seq(E)
        BY <3>1 DEF E
      <4>2. t2[g][i] \in E
        BY <4>1
      <4> QED BY <4>2 DEF E
    <3> QED BY <3>2
  <2>9. failed \in BOOLEAN /\ taken \in Nat
    BY <1>1
  <2> QED BY <2>1, <2>2, <2>4, <2>6, <2>7, <2>8, <2>9 DEF TypeOK
<1> QED BY <1>1, SolverKeeps, PTL

\* A proof the solver gives for a chain is one the validator accepts for it:
\* whatever the interleaving of its threads, and whatever the order in which
\* equal hashes are sorted.
THEOREM AnswersValidate == Spec => []AnswerValidates
<1>1. ASSUME IInv PROVE AnswerValidates
  <2> USE CallIs
  <2>1. SUFFICES ASSUME Answer # <<>>, ChainAccepts(Plot, asked[2])
                 PROVE  ValidateFullProof(Plot, Answer) = asked[2]
    BY DEF AnswerValidates
  <2>2. phase = "done" /\ proofs # <<>> /\ Answer = proofs[1]
    BY <2>1 DEF Answer
  <2>3. proofs \in Seq(Full(Plot, asked[2], Fragments))
    BY <1>1, <2>2 DEF EndOK
  <2>4. proofs[1] \in Full(Plot, asked[2], Fragments)
    BY <2>2, <2>3
  <2>5. asked[2] \in Seq(Blocks) /\ Fragments = Len(asked[2])
    BY <1>1, SolverAssumption DEF Fragments
  <2> QED BY <2>1, <2>2, <2>4, <2>5, FullValidates
<1> QED BY <1>1, SolverKeeps, PTL

\* What is stored in a slot of table 1 stays there.
SlotStaysStored == \A s \in DOMAIN t1 : s \in DOMAIN t1' /\ t1'[s] = t1[s]

\* The threads of table 1 take their slots from one counter: a slot that is
\* stored is never stored again, by the same thread or by another.
THEOREM SlotsStoredOnce == Spec => [][SlotStaysStored]_vars
<1>1. ASSUME IInv, [Next]_vars PROVE [SlotStaysStored]_vars
  <2>1. CASE t1' = t1
    BY <2>1 DEF SlotStaysStored
  <2>2. ASSUME NEW w \in Workers, Store(w) PROVE SlotStaysStored
    <3> DEFINE slot == worker[w].slot
    <3>1. /\ phase = "match1" /\ worker[w].at = "store"
          /\ DOMAIN t1' = DOMAIN t1 \cup {slot} /\ \A s \in DOMAIN t1 : s # slot => t1'[s] = t1[s]
      BY <2>2 DEF Store
    <3>2. slot \notin DOMAIN t1
      BY <1>1, <3>1 DEF IInv, WorkersOK, BusyOK
    <3> HIDE DEF slot
    <3> QED BY <3>1, <3>2 DEF SlotStaysStored
  <2>3. CASE Next
    BY <2>1, <2>2, <2>3
       DEF Next, Coordinate, MatchWork, HashX1, JoinFilter, JoinMatch1, Begin2, JoinMatch2, MatchT3, Construct,
           FilterChunk, EnterSection, Scan, PairUp, EndRun, MatchLeft, matchVars, vars
  <2>4. CASE UNCHANGED vars
    BY <2>4
  <2> QED BY <1>1, <2>3, <2>4
<1> QED BY <1>1, SolverKeeps, PTL DEF Spec

\* Once every thread of table 1 has ended, the stored slots are those below the
\* counter.
NoGaps ==
  phase = "match1" /\ (\A w \in Workers : worker[w].at = "done") => DOMAIN t1 = 0 .. taken - 1

\* No slot that was given out is left empty, whatever the threads' order: the
\* array that groupT1Matches reads has no gaps.
THEOREM SlotsWithoutGaps == Spec => []NoGaps
<1>1. ASSUME IInv PROVE NoGaps
  BY <1>1 DEF IInv, SlotsOK, WorkersOK, Held, NoGaps
<1> QED BY <1>1, SolverKeeps, PTL
=============================================================================
