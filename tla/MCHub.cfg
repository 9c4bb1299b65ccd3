SPECIFICATION MCSpec
CONSTANTS
  u1 = u1  u2 = u2  u3 = u3
  h1 = h1  h2 = h2  h3 = h3  team = team  lab = lab
  s1 = s1  s2 = s2  s3 = s3
  t1 = t1  t2 = t2
  d1 = d1  d2 = d2  d3 = d3
  p1 = p1  p2 = p2
  User = {u1, u2, u3}
  Space = {h1, h2, h3, team, lab}
  Session = {s1, s2, s3}
  Token = {t1, t2}
  Code = {p1, p2}
  Device = {d1, d2, d3}
  NoUser = NoUser  NoToken = NoToken  NoCode = NoCode
  Home <- MCHome
  Request = {1, 2, 3}
  World <- MCWorld
  Page <- MCPage
  MaxRestarts = 1
  MaxAttempts = 2
  Id = {i1, i2}
  Key = {k1, k2, k3}
  NoId = NoId  NoKey = NoKey
  Exclusive = TRUE
  MaxFaults = 2
INVARIANTS
  TypesOK
  OwnersStay
  SessionsDieWithToken
  LoginHasHome
  OneDevicePerCode
  RevokedIsCut
  OneSocket
  NeverLockedOut
PROPERTIES
  RequestsFinish
  NeverStuck
  RevokedTerminalsClose
CHECK_DEADLOCK FALSE
