SPECIFICATION Spec
CONSTANTS
  s1 = s1
  s2 = s2
  Stream <- OneStream
  Cap = 2
  MaxOutput = 3
  MaxInput = 1
INVARIANT
  AttachAlwaysReleased
CHECK_DEADLOCK FALSE
