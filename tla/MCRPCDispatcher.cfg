SPECIFICATION MCSpec
CONSTANTS
  r1 = r1
  r2 = r2
  r3 = r3
  r4 = r4
  Request <- MCRequest
  Slots = 2
  Queue = 1
  MaxGen = 2
  Notice = {"n1"}
  NoNotice = "none"
  Clearer = {"clear"}
  MaxChanges = 2
  MaxConnections = 2
  Prompt = TRUE
INVARIANTS
  TypesOK
  SlotAccounting
  AnsweredAtHome
  NoLostChange
PROPERTIES
  ImplementsRemoteCall
  ReconnectNotBlocked
  RequestsAnswered
  ChangesArrive
CHECK_DEADLOCK FALSE
