SPECIFICATION Spec
CONSTANTS
  Formats <- OnlyGroup
  Chunks = 3
  IndexParts = 2
  Nothing = Nothing
INVARIANT OpenedIndexed
