CONSTANTS
  s1 = s1
  s2 = s2
  m1 = m1
  m2 = m2
  Sockets <- TwoSockets
  Messages <- TwoMessages
  MaxConnections = 1
SPECIFICATION Spec
CHECK_DEADLOCK FALSE
INVARIANT BroadcastReachesAll
INVARIANT NoGhostConnection
INVARIANT CapUnlessOverlap
PROPERTY Delivers
