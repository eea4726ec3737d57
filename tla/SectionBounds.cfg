SPECIFICATION Spec
CONSTANTS
  Plots = {1, 2}
  K = 4
  Turns <- MCTurns
  XorOf <- MCXor
  RoundKey <- MCRoundKey
  HalfXs = 4
  MatchKeys <- MCMatchKeys
  Info <- MCInfo
  TargetOf <- MCTargetOf
  Passes <- MCPasses
  ChainAccepts <- MCChainAccepts
  Threads = 2
  Granule = 3
  PrefetchDist = 4
  MaxPerThread = 16
  MaxMatches = 8
  Coarse = 1
  Reduce = 2
  Asked <- MCUneven
  Blank = Blank
INVARIANTS BoundsFindSections
