\* Two connections at once ask for a new file.
SPECIFICATION Spec
CONSTANTS
  t1 = t1
  t2 = t2
  Threads <- TwoThreads
  MAX_NODES = 3
  MAX_NODES_ASSIGNED = 2
  MAX_NODE_FILES = 2
  MAX_FILES = 3
  FreshCounts <- ConcurrentFresh
  Unreliable <- ConcurrentUnreliable
  CodeTerminated <- EitherByte
  StaleIds <- NoIds
  MaxRequests = 2
INVARIANT
  FreshFileIds
CHECK_DEADLOCK FALSE
