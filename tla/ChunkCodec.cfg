CONSTANTS
  FieldBits = 16
  LowBits = 2
  HighValues = 3
  MaxQuotient = 16
  RangePerChunk = 64
  ChunkIndexes = {0, 3}
  Groups <- MCGroups
  Targets <- ChunkOrAll
SPECIFICATION Spec
INVARIANTS TypeOK ReadsWhatWasWritten DecodesInStep NeverRefused
