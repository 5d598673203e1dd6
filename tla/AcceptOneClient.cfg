\* One client, which connects again as soon as it has its answer.
SPECIFICATION Spec
CONSTANTS
  c1 = c1
  c2 = c2
  Clients <- OneClient
  MaxConnections = 6
INVARIANTS
  TypeOK
  OneThreadPerConnection
PROPERTIES
  ClosesOnlyLeft
  EveryRequestTaken
CHECK_DEADLOCK FALSE
