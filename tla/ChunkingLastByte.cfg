\* Small files, read without an error.
SPECIFICATION Spec
CONSTANTS
  CHUNK_SIZE = 3
  IntRange = 32
  Sizes <- SmallSizes
  LineLengths <- Lengths
  Calls <- NumbersOfChunks
  Offsets <- FirstIds
INVARIANT
  EveryByteStored
CHECK_DEADLOCK FALSE
