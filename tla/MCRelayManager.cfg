SPECIFICATION Spec
CONSTANTS
  d1 = d1
  c1 = c1
  c2 = c2
  k1 = k1
  k2 = k2
  NoConn = NoConn
  Device <- MCDevice
  Conn <- MCConn
  Call <- MCCall
  DeviceOf <- MCDeviceOf
  TargetOf <- MCTargetOf
SYMMETRY Symmetric
INVARIANTS
  ChannelRoom
  NoLostCall
  NoOrphanPending
PROPERTIES
  ImplementsRemoteCall
CHECK_DEADLOCK FALSE
