\* Three nodes, two replicas, two files, three calls, one fault.
SPECIFICATION FairSpec
CONSTANTS
  c1 = c1
  c2 = c2
  Clients <- TwoClients
  Cleared <- FirstClient
  MAX_NODES = 3
  MAX_NODES_ASSIGNED = 2
  Unreliable <- SomeUnreliable
  MaxFiles = 2
  MaxChunks = 2
  MaxCalls = 3
  MaxFaults = 1
  EmptyLines <- FirstLine
INVARIANTS
  TypeOK
  ChunksInPlace
  ReadsAreRight
  SteadyReplicas
  CalmRunsHold
PROPERTIES
  CallsReturn
CHECK_DEADLOCK FALSE
