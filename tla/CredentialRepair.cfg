SPECIFICATION CredentialSpec
CONSTANTS
  Id = {i1, i2}
  Key = {k1, k2, k3}
  NoId = NoId
  NoKey = NoKey
  Exclusive = FALSE
  MaxFaults = 1
INVARIANT NeverLockedOut
CHECK_DEADLOCK FALSE
