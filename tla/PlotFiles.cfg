SPECIFICATION Spec
CONSTANTS
  Formats <- BothFormats
  Chunks = 3
  IndexParts = 2
  Nothing = Nothing
INVARIANTS TypeOK OnlyWrittenChunks CompleteReadable
