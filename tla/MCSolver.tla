------------------------------ MODULE MCSolver ------------------------------
(***************************************************************************)
(* Small instances of Solver: sixteen x values in four ranges, two match   *)
(* keys, chains of two fragments, two threads.  The hashes are             *)
(* arithmetic that leaves a table 1 of fifteen pairs in plot 1, whose      *)
(* ranges 0 and 2 hold seven of them and fragments with no, one and two    *)
(* proofs.  The other calls want ranges that fill a thread's part of the   *)
(* x2 candidates (0 and 1) or have a match too many (1 and 3).  In plot 2  *)
(* the sections of the candidates differ much in size.                     *)
(***************************************************************************)
EXTENDS Solver, Bitwise, SequencesExt

Hash(seed, factor, xs) == FoldLeft(LAMBDA h, x : (h * factor + x) % 97, seed, xs)

MCMatchKeys == [t \in 1 .. 3 |-> 2]

MCInfo(plot, t, xs) ==
  IF t = 0 THEN (5 * xs[1] + 2 * (plot - 1)) % 16 ELSE Hash(plot + t, 11, xs) % 16

MCTargetOf(plot, t, xs, key) == Hash(t + 3 * key, IF plot = 1 THEN 5 ELSE 3, xs) % 2
MCPasses(plot, t, xs)        == Hash(5 + t, IF plot = 1 THEN 13 ELSE 6, xs) % 2 = 0

MCTurns == <<3, 2, 2, 1>>
MCXor(a, b) == a ^^ b
MCRoundKey(plot, round) ==
  [b |-> (3 * round + plot) % 16, c |-> (5 + 7 * round) % 16, d |-> (11 * round + 9 * plot) % 16]

MCChainAccepts(plot, chain) == chain[1] # chain[2]

\* The call for a chain whose fragments have these bits.
FragmentWith(plot, b) == Encrypt(plot, 64 * b[1] + 16 * b[2] + 4 * b[3] + b[4])
Call(plot, bits1, bits2) == <<plot, <<FragmentWith(plot, bits1), FragmentWith(plot, bits2)>>>>

MCAsked ==
  { Call(1, <<0, 0, 2, 0>>, <<0, 2, 2, 2>>),   \* one proof and two
    Call(1, <<2, 2, 0, 0>>, <<0, 2, 2, 0>>),   \* none for the first fragment
    Call(1, <<0, 0, 0, 0>>, <<0, 0, 0, 0>>),   \* not a chain, one range throughout
    Call(1, <<0, 1, 1, 0>>, <<1, 0, 0, 1>>),   \* thrown
    Call(1, <<1, 3, 1, 3>>, <<3, 1, 3, 1>>) }  \* exited

MCUneven == { Call(2, <<0, 1, 1, 0>>, <<0, 1, 1, 1>>) }
=============================================================================
