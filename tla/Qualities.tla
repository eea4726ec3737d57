----------------------------- MODULE Qualities ------------------------------
(***************************************************************************)
(* A harvester's question through the library's border                     *)
(* (Prover::get_qualities_for_challenge of crates/chik-pos2/src/lib.rs and *)
(* qualities_for_challenge of src/api.cpp).  The Rust side guesses how     *)
(* many quality chains there are and lends a buffer of that capacity; the  *)
(* C side runs the whole search (Chainer), copies what fits and reports    *)
(* how many there were.  When the buffer was too short, Rust lets it grow  *)
(* and asks once more, which opens the file and searches it anew.          *)
(*                                                                         *)
(* Between the two passes the file may be replaced or removed; a pass      *)
(* itself reads the one file it has opened.                                *)
(***************************************************************************)
EXTENDS Chainer

CONSTANTS
  MinRoom,      \* the least capacity asked for (16)
  RoomPerPlot,  \* and how much for every plot of the group (5)
  Garbage       \* an entry of the buffer nothing was written to

\* A chain as it is returned, with the index of its plot.
Entries == [index : DOMAIN RoundKeys, chain : Seq(Fragments)]

ASSUME QualitiesAssumption ==
  /\ {MinRoom, RoomPerPlot} \subseteq Nat \ {0}
  /\ Garbage \notin Entries

VARIABLES
  pass,      \* 1 and 2: the loop over i
  capacity,  \* results.capacity()
  buffer,    \* the memory results.as_mut_ptr() points to
  reported,  \* num_results as the C side left it
  replaced,  \* was the file replaced since the first pass?
  outcome,   \* "asking", "called" (the C function returned), "ok" or "error"
  answer     \* the vector the caller gets

callVars == <<pass, capacity, buffer, reported, replaced, outcome, answer>>
allVars  == <<vars, callVars>>

LeastOf(a, b) == IF a <= b THEN a ELSE b
MostOf(a, b)  == IF a >= b THEN a ELSE b

Blanks(n) == [i \in 1 .. n |-> Garbage]

AskInit ==
  /\ Init
  /\ pass = 1 /\ capacity = MostOf(MinRoom, RoomPerPlot * Len(group))
  /\ buffer = Blanks(capacity) /\ reported = capacity
  /\ replaced = FALSE /\ outcome = "asking" /\ answer = <<>>

Search == outcome = "asking" /\ Step /\ UNCHANGED callVars

\* The C function refuses (an exception becomes false) or has copied what
\* the capacity holds and reports the count of all.
CallReturns ==
  /\ outcome = "asking" /\ ~Searching
  /\ IF Refused
       THEN outcome' = "error" /\ UNCHANGED <<buffer, reported>>
       ELSE /\ buffer' = [i \in 1 .. capacity |->
                            IF i <= Len(results) THEN results[i] ELSE buffer[i]]
            /\ reported' = Len(results)
            /\ outcome' = "called"
  /\ UNCHANGED <<vars, pass, capacity, replaced, answer>>

\* Mutant of Exposed: the length is what the C side reported.
ExposedAll == reported

\* The length the vector is given.
Exposed == LeastOf(reported, capacity)

\* Everything fitted, or this was the second pass.
Accept ==
  /\ outcome = "called" /\ (reported <= capacity \/ pass = 2)
  /\ answer' = [i \in 1 .. Exposed |-> IF i <= capacity THEN buffer[i] ELSE Garbage]
  /\ outcome' = "ok"
  /\ UNCHANGED <<vars, pass, capacity, buffer, reported, replaced>>

\* The second pass searches g from the beginning.
Again(g) ==
  /\ group' = g
  /\ plotIndex' = 1 /\ seeding' = 0 /\ stack' = <<>> /\ results' = <<>>
  /\ UNCHANGED <<challenge, base>>

\* Mutant of Growths: the answer is taken for what the buffer lacks.
GrowthsShort(n) == {n - capacity}

\* reserve makes room for n at least; the standard library doubles.
Growths(n) == {n, MostOf(2 * capacity, n)}

\* The buffer was too short: it grows, its contents are not kept, and the
\* question is put again, to a file that may be another one or gone.
Retry ==
  /\ outcome = "called" /\ reported > capacity /\ pass = 1
  /\ capacity' \in Growths(reported) /\ reported' = capacity' /\ buffer' = Blanks(capacity')
  /\ pass' = 2
  /\ \/ /\ Again(group) /\ outcome' = "asking" /\ UNCHANGED replaced
     \/ /\ \E g \in Groups \ {group} : Again(g)
        /\ outcome' = "asking" /\ replaced' = TRUE
     \/ /\ outcome' = "error" /\ replaced' = TRUE /\ UNCHANGED vars
  /\ UNCHANGED answer

Over == outcome \in {"ok", "error"}

AskNext ==
  \/ Search \/ CallReturns \/ Accept \/ Retry
  \/ Over /\ UNCHANGED allVars

Ask == AskInit /\ [][AskNext]_allVars

\* One thread asks, and is not suspended for ever.
FairAsk == Ask /\ WF_allVars(Search \/ CallReturns \/ Accept \/ Retry)

-----------------------------------------------------------------------------
(* Properties *)

\* Type correctness of the call, beside that of the search.
CallTypeOK ==
  /\ TypeOK
  /\ pass \in 1 .. 2 /\ capacity \in Nat \ {0} /\ reported \in Nat /\ replaced \in BOOLEAN
  /\ outcome \in {"asking", "called", "ok", "error"}
  /\ DOMAIN buffer = 1 .. capacity
  /\ \A i \in DOMAIN answer : answer[i] = Garbage \/ answer[i] \in Entries

\* The vector never shows memory that the pass before it did not write, nor
\* a chain of a file that is no longer there, nor one twice; and it holds
\* every chain of the file (EveryChainFound) unless a second, larger file
\* came between the passes.
AnswerExact ==
  outcome = "ok" =>
    /\ \A i \in DOMAIN answer :
         /\ answer[i] # Garbage
         /\ Validates(answer[i].chain, RoundKeys[answer[i].index][challenge])
         /\ ToSet(answer[i].chain) \subseteq ToSet(group[answer[i].index - base + 1])
         /\ \A j \in DOMAIN answer : j # i => answer[j] # answer[i]
    /\ ~replaced \/ reported <= capacity => Len(answer) = Len(results)

\* The call returns.
Answers == <>Over
=============================================================================
