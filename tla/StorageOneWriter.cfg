\* One connection writes, two read.
SPECIFICATION FairSpec
CONSTANTS
  t1 = t1
  t2 = t2
  p = p
  q = q
  Blank = Blank
  Wild = Wild
  Garbled = Garbled
  Threads <- TwoThreads
  Writers <- OneWriter
  MAX_FILES = 2
  MAX_CHUNKS = 2
  FileIds <- ThreeFiles
  ChunkIds <- ThreeChunks
  Payloads <- TwoPayloads
  Clean <- CleanPayload
  NoBytes <- EmptyPayload
  MaxRequests = 3
INVARIANTS
  TypeOK
  OneEntryPerFile
  WritesKept
  ReadsReturnWrites
  DiesOnlyOnMisuse
PROPERTIES
  ImplementsStore
  RequestsEnd
CHECK_DEADLOCK FALSE
