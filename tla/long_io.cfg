SPECIFICATION FairSpec
CONSTANTS
  ChunkMax = 3
  Wrap = 11
  Counts <- SomeCounts
  Words = {4, 11}
  ErrorCodes = {1, 2}
INVARIANTS
  BytesInPlace
  ChunksInBuffer
  CountTrue
PROPERTIES
  TransferSpec
  Ends
