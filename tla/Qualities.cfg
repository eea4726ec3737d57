CONSTANTS
  NumSets = 2
  Links = 4
  NumRanges = 8
  RangeSize = 4
  StarterBits = 1
  SetBits = 1
  LoadBits = 1
  Threshold = 6
  Words = 32
  ChainHash <- MCHash
  XorOf <- MCXorOf
  RoundKeys <- MCRoundKeys
  Rolls <- MCRolls
  Groups <- MCGroups
  Bases = {0, 2}
  Grouped = TRUE
  MinRoom = 11
  RoomPerPlot = 6
  Garbage = Garbage
SPECIFICATION FairAsk
INVARIANTS CallTypeOK FoundValidates EveryChainFound NoChainTwice AnswerExact
PROPERTY Answers
