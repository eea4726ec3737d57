SPECIFICATION FairSpec
CONSTANTS
  MatchKeys <- MCMatchKeys
  Targets <- MCTargets
  Metas <- MCMetas
  TargetOf <- MCTargetOf
  Pairable <- MCPairable
  Threads = 3
  Capacity = 7
  Tables <- MCTables
  NoPair = NoPair
INVARIANTS TypeOK SlotProtocol DenseOutput EveryMatchOnce
PROPERTIES StoredOnce ImplementsTableSpec Termination
