SPECIFICATION Spec
CONSTANTS
  c1 = c1
  c2 = c2
  c3 = c3
  NoConn = NoConn
  Conn <- TwoConns
  MayRevoke = FALSE
INVARIANT
  ReplacementStaysOnline
CHECK_DEADLOCK FALSE
