SPECIFICATION FairSpec
CONSTANTS
  d1 = d1
  c1 = c1
  c2 = c2
  k1 = k1
  k2 = k2
  NoConn = NoConn
  Device <- MCDevice
  Conn <- MCConn
  Call <- OneCall
  DeviceOf <- MCDeviceOf
  TargetOf <- OneTargetOf
PROPERTIES
  RemovedCallsReturn
  RegisterReturns
CHECK_DEADLOCK FALSE
