------------------------------ MODULE MCCodecs ------------------------------
(***************************************************************************)
(* Codecs with bytes of four bits and words of sixteen, on values at both  *)
(* ends of every width, with and without a last byte that is full.         *)
(***************************************************************************)
EXTENDS Codecs

Jobs3(codec, width, from) == {[codec |-> codec, width |-> width, values |-> s] :
                                s \in UNION {[1 .. n -> from] : n \in 0 .. 3}}

\* Fragments: gaps of no, one, and a byte and a stub; also out of order, or too far apart
StubJobs ==
  UNION {Jobs3("stub", w, {0, 1, 2^w, 2^(w + 1) + 2^w - 1, 2^(w + 4) - 1, 2^(w + 4)}) : w \in {1, 3, 4, 6, 11}}
    \cup {[codec |-> "stub", width |-> w, values |-> <<1, 3, 2^w, 2^w + 2, 2^(w + 1) + 5, 2^(w + 2)>>] :
            w \in {5, 7, 11}}

\* Sizes around 235 and 471, as far away as a field of 16 bits takes them, and further
SizeJobs ==
  Jobs3("sizes", 1, {0, 60, 235, 250, 395, 396}) \cup Jobs3("sizes", 2, {160, 470, 471, 758})
    \cup Jobs3("sizes", 0, {0, 1, 2, 14, 15})

ProofJobs == UNION {Jobs3("proof", w, {0, 1, 2^(w - 1), 2^w - 1}) : w \in {4, 5, 6, 7, 9}}

MCJobs == StubJobs \cup SizeJobs \cup ProofJobs
=============================================================================
