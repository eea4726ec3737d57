CONSTANTS
  NumSets = 2
  Links = 4
  NumRanges = 8
  RangeSize = 4
  StarterBits = 1
  SetBits = 1
  LoadBits = 1
  Threshold = 6
  Words = 32
  ChainHash <- MCHash
  XorOf <- MCXorOf
  RoundKeys <- MCRoundKeys
  Rolls <- MCRolls
  Groups <- MCSingles
  Bases = {0}
  Grouped = FALSE
SPECIFICATION Spec
INVARIANT EveryChainFound
