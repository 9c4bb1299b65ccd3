SPECIFICATION FairSpec
CONSTANTS
  s1 = s1
  s2 = s2
  Stream <- OneStream
  Cap = 2
  MaxOutput = 4
  MaxInput = 1
INVARIANTS
  TypeOK
  CloseIsLast
  NoAttachSurvives
  AttachHasBrowser
PROPERTIES
  EndReachesBrowser
  ImplementsTerminalOutput
CHECK_DEADLOCK FALSE
