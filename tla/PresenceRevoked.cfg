SPECIFICATION Spec
CONSTANTS
  c1 = c1
  c2 = c2
  c3 = c3
  NoConn = NoConn
  Conn <- TwoConns
  MayRevoke = TRUE
INVARIANT
  RevokedStaysOut
CHECK_DEADLOCK FALSE
