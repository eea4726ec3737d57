---------------------------- MODULE Chainer ----------------------------
(***************************************************************************)
(* Quality chains (prove/Prover.hpp, pos/Chainer.hpp, pos/ProofCore.hpp).  *)
(*                                                                         *)
(* A challenge selects NumSets ranges of proof fragments.  The prover      *)
(* reads the fragments of each range from the plot and searches them depth *)
(* first for chains of Links fragments, the fragment of link i taken from  *)
(* set (start + i) modulo NumSets, every link passing a filter on a        *)
(* running hash.  The validator has only the chain: it must find the       *)
(* starting set from the first fragment and recompute the hashes.  The two *)
(* are written separately and have to agree on every chain.                *)
(*                                                                         *)
(* One behaviour is one call of GroupProver::prove (or Prover::prove when  *)
(* Grouped is FALSE: one plot, read through PlotFile).                     *)
(***************************************************************************)
EXTENDS Integers, Sequences, SequencesExt, FiniteSets

CONSTANTS
  NumSets,       \* NUM_CHALLENGE_SETS
  Links,         \* NUM_CHAIN_LINKS
  NumRanges,     \* get_num_chaining_sets()
  RangeSize,     \* fragments in one chaining set's range
  StarterBits,   \* CHAIN_STARTER_FILTER_BITS
  SetBits,       \* CHAIN_SET_BITS
  LoadBits,      \* CHAIN_FACTOR_FRONT_LOAD_BITS
  Threshold,     \* compute_last_link_extra_threshold()
  Words,         \* the number of hash values (2^64 in the code)
  ChainHash,     \* hashing.chain_hash, a function on 0..Words-1
  XorOf(_, _),   \* bitwise exclusive or
  RoundKeys,     \* [plot index -> challenge -> [0..Links-1 -> 0..Words-1]]
  Rolls,         \* [challenge -> [0..NumSets-1 -> 0..NumRanges-1]]: the hash words of
                 \* each challenge that pick the sets, already masked to a set index
  Groups,        \* plot groups: sequences of plots, each a sorted sequence of fragments
  Bases,         \* values of plot_index_base
  Grouped        \* TRUE: GroupProver over a PlotGroupFile; FALSE: Prover over a PlotFile

Sets == 0..(NumSets - 1)
Positions == 0..(Links - 1)
Fragments == 0..(NumRanges * RangeSize - 1)
Challenges == DOMAIN Rolls

ASSUME ChainerAssumption ==
  /\ {NumSets, Links, NumRanges, RangeSize, Words} \subseteq Nat \ {0}
  /\ NumRanges % NumSets = 0
  /\ NumRanges * RangeSize <= Words
  /\ {StarterBits, SetBits, LoadBits, Threshold} \subseteq Nat
  /\ ChainHash \in [0..(Words - 1) -> 0..(Words - 1)]
  /\ Grouped \in BOOLEAN
  /\ \A c \in Challenges : Rolls[c] \in [Sets -> 0..(NumRanges - 1)]

\* Exclusive or keeps to the words and may be bracketed as one likes.
ASSUME XorAssumption ==
  \A a, b \in 0..(Words - 1) :
    /\ XorOf(a, b) \in 0..(Words - 1)
    /\ \A c \in 0..(Words - 1) : XorOf(a, XorOf(b, c)) = XorOf(XorOf(b, a), c)

\* Plots are sorted, a plot file holds one, and each plot that is searched has round keys.
ASSUME GroupAssumption ==
  /\ \A group \in Groups :
       /\ group \in Seq(Seq(Fragments))
       /\ ~Grouped => Len(group) = 1
       /\ \A p \in DOMAIN group : \A i, j \in DOMAIN group[p] :
            i <= j => group[p][i] <= group[p][j]
  /\ Bases \subseteq Nat
  /\ \A base \in Bases, group \in Groups : base = 0 \/ Len(group) <= 1 =>
       \A p \in 1..Len(group) : base + p - 1 \in DOMAIN RoundKeys
  /\ \A index \in DOMAIN RoundKeys : \A c \in Challenges :
       RoundKeys[index][c] \in [Positions -> 0..(Words - 1)]

VARIABLES
  challenge,   \* the challenge being answered
  group,       \* the fragments of each plot of the file
  base,        \* plot_index_base
  plotIndex,   \* the plot being searched, counted from 1
  seeding,     \* the set whose starters are tried next; NumSets once seeded
  stack,       \* the explicit stack of find_links
  results      \* the chains recorded so far, with the plot index they are returned under

vars == <<challenge, group, base, plotIndex, seeding, stack, results>>

-----------------------------------------------------------------------------
(* The challenge's sets *)

\* (r[i] & high_bits_mask) | i
SetIndex(i) == (Rolls[challenge][i] \div NumSets) * NumSets + i

SetRange(i) == [start |-> SetIndex(i) * RangeSize,
                end   |-> SetIndex(i) * RangeSize + RangeSize - 1]

InRange(f, range) == range.start <= f /\ f <= range.end

\* The elements of s at the positions of K, in their order.
Kept(s, K) ==
  LET kept[j \in 0..Len(s)] ==
        IF j = 0 THEN <<>>
        ELSE IF j \in K THEN Append(kept[j - 1], s[j]) ELSE kept[j - 1]
  IN  kept[Len(s)]

\* PlotFile::getProofFragmentsInRange: every stored fragment, the range's end excluded.
PlotFileRead(plot, range) ==
  Kept(plot, {j \in DOMAIN plot : range.start <= plot[j] /\ plot[j] < range.end})

\* a plausible slip: duplicates survive
GroupFileReadAll(plot, range) == Kept(plot, {j \in DOMAIN plot : InRange(plot[j], range)})

\* PlotGroupFile::writeData keeps one of equal fragments (they are sorted), and readChunk
\* filters what it decodes with isInRange.
GroupFileRead(plot, range) ==
  Kept(plot, {j \in DOMAIN plot : /\ InRange(plot[j], range)
                                  /\ j = 1 \/ plot[j - 1] # plot[j]})

FragmentList(s) ==
  IF Grouped THEN GroupFileRead(group[plotIndex], SetRange(s))
             ELSE PlotFileRead(group[plotIndex], SetRange(s))

-----------------------------------------------------------------------------
(* The filter on the running hash *)

ZerosNeeded(i) ==
  IF i = 0 THEN StarterBits ELSE SetBits + IF i = Links - 1 THEN LoadBits ELSE 0

PassesFilter(hash, i) ==
  /\ hash % 2^ZerosNeeded(i) = 0
  /\ i = Links - 1 => hash \div 2^ZerosNeeded(i) < Threshold

-----------------------------------------------------------------------------
(* Chainer::validate *)

\* the running hash after each link, started from 0
RunningHash(chain, keys) ==
  LET hash[i \in Positions] ==
        ChainHash[XorOf(XorOf(IF i = 0 THEN 0 ELSE hash[i - 1], chain[i + 1]), keys[i])]
  IN  hash

StartSets(chain) == {s \in Sets : InRange(chain[1], SetRange(s))}

Validates(chain, keys) ==
  /\ Len(chain) = Links
  /\ StartSets(chain) # {}
  /\ LET start == CHOOSE s \in StartSets(chain) : \A t \in StartSets(chain) : s <= t
         hash  == RunningHash(chain, keys)
     IN  \A i \in Positions : /\ InRange(chain[i + 1], SetRange((start + i) % NumSets))
                              /\ PassesFilter(hash[i], i)

-----------------------------------------------------------------------------
(* GroupProver::prove and Chainer::find_links *)

ReportedIndex == base + plotIndex - 1

Keys == RoundKeys[ReportedIndex][challenge]

Init ==
  /\ challenge \in Challenges
  /\ group \in Groups
  /\ base \in Bases
  /\ plotIndex = 1
  /\ seeding = 0
  /\ stack = <<>>
  /\ results = <<>>

\* A base other than zero is an error for a group of several plots.
Refused == base # 0 /\ Len(group) > 1

Searching == ~Refused /\ plotIndex <= Len(group)

Mixed(hash, f, i) == ChainHash[XorOf(f, XorOf(hash, Keys[i]))]

Entry(f, hash, i, start, prefix) ==
  [hash      |-> Mixed(hash, f, i),
   iteration |-> i + 1,
   start     |-> start,
   fragments |-> Append(prefix, f)]

\* a plausible slip: the last link is held to the filter of the middle ones
PushedEasy(list, hash, i, start, prefix) ==
  Kept([j \in 1..Len(list) |-> Entry(list[j], hash, i, start, prefix)],
       {j \in 1..Len(list) : PassesFilter(Mixed(hash, list[j], i), i % (Links - 1))})

\* a plausible slip: the iteration is not advanced
PushedStuck(list, hash, i, start, prefix) ==
  Kept([j \in 1..Len(list) |->
          [Entry(list[j], hash, i, start, prefix) EXCEPT !.iteration = 1]],
       {j \in 1..Len(list) : PassesFilter(Mixed(hash, list[j], i), i)})

\* The stack entries for the fragments of list that pass link i after hash.
Pushed(list, hash, i, start, prefix) ==
  Kept([j \in 1..Len(list) |-> Entry(list[j], hash, i, start, prefix)],
       {j \in 1..Len(list) : PassesFilter(Mixed(hash, list[j], i), i)})

\* a plausible slip: only set 0 holds starters
SeedSetZero ==
  /\ Searching
  /\ seeding < NumSets
  /\ stack' = IF seeding = 0 THEN stack \o Pushed(FragmentList(0), 0, 0, 0, <<>>) ELSE stack
  /\ seeding' = seeding + 1
  /\ UNCHANGED <<challenge, group, base, plotIndex, results>>

\* Every fragment of every set is tried as a starter.
SeedSet ==
  /\ Searching
  /\ seeding < NumSets
  /\ \E list \in {FragmentList(seeding)} :
       stack' = stack \o Pushed(list, 0, 0, seeding, <<>>)
  /\ seeding' = seeding + 1
  /\ UNCHANGED <<challenge, group, base, plotIndex, results>>

Seeded == Searching /\ seeding = NumSets

RecordChain ==
  /\ Seeded
  /\ stack # <<>>
  /\ Last(stack).iteration = Links
  /\ results' = Append(results, [index |-> ReportedIndex, chain |-> Last(stack).fragments])
  /\ stack' = Front(stack)
  /\ UNCHANGED <<challenge, group, base, plotIndex, seeding>>

\* a plausible slip: the entry is read but never popped
ExtendChainUnpopped ==
  /\ Seeded
  /\ stack # <<>>
  /\ LET st == Last(stack) IN
       /\ st.iteration < Links
       /\ \E list \in {FragmentList((st.start + st.iteration) % NumSets)} :
            stack' = stack \o Pushed(list, st.hash, st.iteration, st.start, st.fragments)
  /\ UNCHANGED <<challenge, group, base, plotIndex, seeding, results>>

\* Pop an entry and push its extensions by each passing fragment of its next set.
ExtendChain ==
  /\ Seeded
  /\ stack # <<>>
  /\ LET st == Last(stack) IN
       /\ st.iteration < Links
       /\ \E list \in {FragmentList((st.start + st.iteration) % NumSets)} :
            stack' = Front(stack)
                       \o Pushed(list, st.hash, st.iteration, st.start, st.fragments)
  /\ UNCHANGED <<challenge, group, base, plotIndex, seeding, results>>

NextPlot ==
  /\ Seeded
  /\ stack = <<>>
  /\ plotIndex' = plotIndex + 1
  /\ seeding' = 0
  /\ UNCHANGED <<challenge, group, base, stack, results>>

Returned == ~Searching /\ UNCHANGED vars

Step == SeedSet \/ RecordChain \/ ExtendChain \/ NextPlot

Next == Step \/ Returned

Spec == Init /\ [][Next]_vars

-----------------------------------------------------------------------------
(* Properties *)

StackEntries ==
  [hash : 0..(Words - 1), iteration : 1..Links, start : Sets, fragments : Seq(Fragments)]

\* The type invariant: every stack entry holds one fragment per link it has taken.
TypeOK ==
  /\ challenge \in Challenges /\ group \in Groups /\ base \in Bases
  /\ plotIndex \in 1..(Len(group) + 1)
  /\ seeding \in 0..NumSets
  /\ \A j \in DOMAIN stack : /\ stack[j] \in StackEntries
                             /\ Len(stack[j].fragments) = stack[j].iteration
  /\ \A j \in DOMAIN results : /\ results[j].index \in DOMAIN RoundKeys
                               /\ results[j].chain \in Seq(Fragments)

\* What the prover returns, the validator accepts under the plot index it is returned
\* with: the set rotation, the filters and the hash agree, although the validator
\* has to recover the starting set from the first fragment alone.
FoundValidates ==
  \A j \in DOMAIN results :
    Validates(results[j].chain, RoundKeys[results[j].index][challenge])

\* the plot's fragments that lie in a selected range: no others can be validated
Eligible(p) == {f \in Fragments : /\ \E j \in DOMAIN group[p] : group[p][j] = f
                                  /\ \E s \in Sets : InRange(f, SetRange(s))}

ChainsOf(p) ==
  {chain \in [1..Links -> Eligible(p)] :
     Validates(chain, RoundKeys[base + p - 1][challenge])}

\* When the prover returns, it has found every chain over the plots' own fragments
\* that the validator would accept: a farmer misses no proof it holds.
EveryChainFound ==
  (~Searching /\ ~Refused) =>
     \A p \in DOMAIN group : \A chain \in ChainsOf(p) :
       \E j \in DOMAIN results : results[j] = [index |-> base + p - 1, chain |-> chain]

\* No chain is returned twice, and no two entries waiting on the stack lead to the
\* same chain: the search tree is walked without repetition.
NoChainTwice ==
  /\ \A i, j \in DOMAIN results : i # j => results[i] # results[j]
  /\ \A i, j \in DOMAIN stack :
       i # j => ~IsPrefix(stack[i].fragments, stack[j].fragments)
  /\ \A i \in DOMAIN stack : \A j \in DOMAIN results :
       results[j].index = ReportedIndex => ~IsPrefix(stack[i].fragments, results[j].chain)

==============================================================================
