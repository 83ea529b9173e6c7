SPECIFICATION Spec
CONSTANTS
  Request = {r1, r2, r3}
  Token = {k1, k2, k3}
  u1 = u1
  d1 = d1
  User = {u1}
  Device = {d1}
  UserOf <- OneUser
  DeviceOf <- OneDevice
  Key = {f1, f2}
  MaxSessions = 2
  MaxPerUser = 1
  MaxPerDevice = 1
  MaxInFlight = 2
  None = None
SYMMETRY Symmetry
INVARIANTS
  TokenSingleUse
  LimitOvershoot
  NoEarlyEnd
