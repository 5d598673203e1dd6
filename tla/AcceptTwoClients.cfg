\* Two clients connect at once.
SPECIFICATION Spec
CONSTANTS
  c1 = c1
  c2 = c2
  Clients <- TwoClients
  MaxConnections = 2
INVARIANT
  OneThreadPerConnection
CHECK_DEADLOCK FALSE
