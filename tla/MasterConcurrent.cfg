\* Two connections at once; the thread's instruction code may lack its NUL.
SPECIFICATION FairSpec
CONSTANTS
  t1 = t1
  t2 = t2
  Threads <- TwoThreads
  MAX_NODES = 3
  MAX_NODES_ASSIGNED = 2
  MAX_NODE_FILES = 2
  MAX_FILES = 3
  FreshCounts <- ConcurrentFresh
  Unreliable <- ConcurrentUnreliable
  CodeTerminated <- EitherByte
  StaleIds <- ErrorId
  MaxRequests = 3
INVARIANTS
  DistinctReplicas
PROPERTY
  RequestsEnd
CHECK_DEADLOCK FALSE
