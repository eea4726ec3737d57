---------------------------- MODULE MCQualities -----------------------------
(***************************************************************************)
(* Qualities on the plots of MCChainer: the buffer is guessed at 11 chains *)
(* or six a plot, which some challenges fill exactly, some leave half      *)
(* empty and some exceed; a replaced file may hold fewer or more chains    *)
(* than the first one.                                                     *)
(***************************************************************************)
EXTENDS Qualities, Bitwise

MCXors == [a, b \in 0..31 |-> a ^^ b]

MCXorOf(a, b) == MCXors[a, b]

MCHash == [x \in 0..31 |-> (13 * (x ^^ (x \div 4)) + 6) % 32]

MCRoundKeys ==
  [index \in 0..2 |-> [c \in 1..8 |-> [i \in 0..3 |-> (7 * index + 11 * c + 5 * i) % 32]]]

\* four second ranges with each of two first ones
MCRolls ==
  [c \in 1..8 |-> [s \in 0..1 |-> IF s = 0 THEN 4 * ((c - 1) \div 4) + 1 ELSE 2 * ((c - 1) % 4)]]

Every == [i \in 1..32 |-> i - 1]
Odd == [i \in 1..16 |-> 2 * i - 1]
\* 6, 11 and 31 appear twice; 7 and 11 end their ranges
Repeated == <<0, 3, 4, 6, 6, 7, 8, 11, 11, 15, 16, 20, 23, 27, 28, 31, 31>>

MCGroups == {<<Every>>, <<Odd, Repeated>>, <<Repeated, Every>>}
=============================================================================
