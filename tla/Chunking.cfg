\* Every file size and every sequence of typed lines within the bounds.
SPECIFICATION Spec
CONSTANTS
  CHUNK_SIZE = 3
  IntRange = 32
  Sizes <- FileSizes
  LineLengths <- Lengths
  Calls <- NumbersOfChunks
  Offsets <- FirstIds
INVARIANTS
  TypeOK
  InsideTable
  ReadsInsideFile
  CutBeforeLastByte
  LinesAreChunks
CHECK_DEADLOCK FALSE
