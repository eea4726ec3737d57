CONSTANTS
  FieldBits = 64
  LowBits = 10
  HighValues = 178
  MaxQuotient = 64
  RangePerChunk = 16777216
  ChunkIndexes = {0}
  Groups <- Sparse
  Targets <- ChunkOrAll
SPECIFICATION Spec
INVARIANT QuotientFits
