SPECIFICATION FairSpec
CONSTANTS
  c1 = c1
  c2 = c2
  c3 = c3
  NoConn = NoConn
  Conn <- ThreeConns
  MayRevoke = TRUE
INVARIANTS
  NoDeadRoute
PROPERTIES
  OnlineHeals
  RevocationCloses
CHECK_DEADLOCK FALSE
