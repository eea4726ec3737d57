SPECIFICATION RunSpec
CONSTANTS
  MaxSection = 3
  PlanAlign = 1
  MatchKeys = 2
  NumXs = 10
  SectionSizes = {2, 3}
  Yields = {2, 3, 4}
  PassCounts <- MCPassCounts
  MinorSize = 7
  PrefixNeed = 2
  ThreadCounters = 2
  LeftPasses = 3
  SplitNeeds = {0, 1}
  MayCancel = TRUE
  AllocShare = 1
  Manners <- MCManners
  Blank = Blank
INVARIANTS RunTypeOK LiveInput LeftCopyKept ResultKept CancelledMeansEmpty ScratchReturned SnapshotTrue
PROPERTIES Ends BarAdvances
