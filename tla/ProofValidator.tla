--------------------------- MODULE ProofValidator ---------------------------
(***************************************************************************)
(* What makes a proof valid (pos/ProofValidator.hpp with the matching      *)
(* rules of pos/ProofCore.hpp and the fragment codec of                    *)
(* pos/ProofFragment.hpp).  Eight x values are a proof of one fragment     *)
(* when they pair by table 1, by table 2 and by table 3; a fragment keeps  *)
(* only the upper half of every second x value, so several proofs may      *)
(* belong to one fragment.  A full proof gives eight x values for every    *)
(* fragment of a chain.                                                    *)
(*                                                                         *)
(* The hashes are constants, each of a plot (its id) and x values.  The    *)
(* metadata of an entry of a table, k or 2k bits that the code hashes      *)
(* together, is taken to be the tuple of x values below it.                *)
(***************************************************************************)
EXTENDS Feistel

CONSTANTS
  HalfXs,              \* x1_range_size, 2^(k - k/2)
  MatchKeys,           \* get_num_match_keys of tables 1 to 3
  Info(_, _, _),       \* match_info of an entry: hashing.g for table 0, the pairing's after
  TargetOf(_, _, _, _),\* matching_target of a table, a left entry and a match key
  Passes(_, _, _),     \* does the pairing filter of a table let a pair through?
  ChainAccepts(_, _)   \* Chainer::validate: do these fragments make a chain?

ASSUME ValidatorAssumption ==
  /\ HalfXs \in Nat \ {0}
  /\ HalfXs * HalfXs = NumXs
  /\ MatchKeys \in [1 .. 3 -> Nat \ {0}]
  /\ \A t \in 1 .. 3 : NumXs % (4 * MatchKeys[t]) = 0

-----------------------------------------------------------------------------
(* Match infos of k bits: section, match key and target.  Two section bits *)
(* (k <= 28).                                                              *)

SectionSize   == NumXs \div 4
Targets(t)    == SectionSize \div MatchKeys[t]
SectionOf(mi) == mi \div SectionSize
KeyOf(t, mi)  == (mi \div Targets(t)) % MatchKeys[t]
TargetIn(t, mi) == mi % Targets(t)

\* Match infos have k bits, and matching_target as many as a target.
ASSUME HashAssumption ==
  \A plot \in Plots, x \in Xs :
    /\ Info(plot, 0, <<x>>) \in Xs
    /\ \A key \in 0 .. MatchKeys[1] - 1 : TargetOf(plot, 1, <<x>>, key) \in 0 .. Targets(1) - 1
    /\ \A y \in Xs :
         /\ Info(plot, 1, <<x, y>>) \in Xs
         /\ \A key \in 0 .. MatchKeys[2] - 1 :
              TargetOf(plot, 2, <<x, y>>, key) \in 0 .. Targets(2) - 1

\* matching_section: rotate the bits left, add one, rotate back.
Rotate(s)          == ((2 * s) % 4) + (s \div 2)
MatchingSection(s) == Rotate((Rotate(s) + 1) % 4)

\* validate_match_info_pairing
InfosMatch(plot, t, left, infoL, infoR) ==
  /\ SectionOf(infoR) = MatchingSection(SectionOf(infoL))
  /\ TargetIn(t, infoR) = TargetOf(plot, t, left, KeyOf(t, infoR))

-----------------------------------------------------------------------------
(* validate_table_1_pair, validate_table_2_pairs, validate_table_3_pairs:  *)
(* 2, 4 and 8 x values, the left half of them first.                       *)

LeftHalf(xs)  == SubSeq(xs, 1, Len(xs) \div 2)
RightHalf(xs) == SubSeq(xs, Len(xs) \div 2 + 1, Len(xs))

Pairs(plot, t, xs) ==
  /\ InfosMatch(plot, t, LeftHalf(xs), Info(plot, t - 1, LeftHalf(xs)),
                                       Info(plot, t - 1, RightHalf(xs)))
  /\ Passes(plot, t, xs)

ValidPair(plot, xs) == Pairs(plot, 1, xs)

ValidPairs2(plot, xs) ==
  /\ ValidPair(plot, LeftHalf(xs)) /\ ValidPair(plot, RightHalf(xs))
  /\ Pairs(plot, 2, xs)

ValidPairs3(plot, xs) ==
  /\ ValidPairs2(plot, LeftHalf(xs)) /\ ValidPairs2(plot, RightHalf(xs))
  /\ Pairs(plot, 3, xs)

-----------------------------------------------------------------------------
(* ProofFragmentCodec                                                      *)

Upper(x) == x \div HalfXs

\* Mutant of PackBits: the second and the third x value change places.
PackBitsSwapped(bits) ==
  ((bits[1] * HalfXs + bits[3]) * HalfXs + bits[2]) * HalfXs + bits[4]

\* The upper halves of x1, x3, x5 and x7, most significant first.
PackBits(bits) ==
  ((bits[1] * HalfXs + bits[2]) * HalfXs + bits[3]) * HalfXs + bits[4]

EncodeFragment(plot, xs) ==
  Encrypt(plot, PackBits([i \in 1 .. 4 |-> Upper(xs[2 * i - 1])]))

\* get_x_bits_from_proof_fragment
FragmentBits(plot, fragment) ==
  LET block == Decrypt(plot, fragment)
  IN  <<block \div (HalfXs * HalfXs * HalfXs), (block \div (HalfXs * HalfXs)) % HalfXs,
        (block \div HalfXs) % HalfXs, block % HalfXs>>

-----------------------------------------------------------------------------
(* validate_full_proof, its result <<>> when the proof is refused.         *)

EightOf(proof, i) == SubSeq(proof, 8 * i - 7, 8 * i)

\* fullProofXValuesToQualityString
QualityString(plot, proof) ==
  [i \in 1 .. Len(proof) \div 8 |-> EncodeFragment(plot, EightOf(proof, i))]

ValidateFullProof(plot, proof) ==
  IF /\ \A i \in 1 .. Len(proof) \div 8 : ValidPairs3(plot, EightOf(proof, i))
     /\ ChainAccepts(plot, QualityString(plot, proof))
    THEN QualityString(plot, proof) ELSE <<>>
=============================================================================
