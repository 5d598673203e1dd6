\* Two connections write at once.
SPECIFICATION Spec
CONSTANTS
  t1 = t1
  t2 = t2
  p = p
  q = q
  Blank = Blank
  Wild = Wild
  Garbled = Garbled
  Threads <- TwoThreads
  Writers <- TwoThreads
  MAX_FILES = 2
  MAX_CHUNKS = 2
  FileIds <- TwoFiles
  ChunkIds <- TwoChunks
  Payloads <- TwoPayloads
  Clean <- CleanPayload
  NoBytes <- EmptyPayload
  MaxRequests = 2
INVARIANT
  WritesKept
CHECK_DEADLOCK FALSE
