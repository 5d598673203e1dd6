\* One connection at a time, the node counts of the source.
SPECIFICATION Spec
CONSTANTS
  t1 = t1
  t2 = t2
  Threads <- OneThread
  MAX_NODES = 5
  MAX_NODES_ASSIGNED = 3
  MAX_NODE_FILES = 2
  MAX_FILES = 4
  FreshCounts <- SerialFresh
  Unreliable <- SerialUnreliable
  CodeTerminated <- NulByte
  StaleIds <- NoIds
  MaxRequests = 5
INVARIANTS
  TypeOK
  FreshFileIds
  AnswersStayTrue
  NoNodeOverAssigned
  DiesOnlyShortOfNodes
PROPERTY
  ImplementsTable
CHECK_DEADLOCK FALSE
