SPECIFICATION SessionsSpec
CONSTANTS
  Session = {s1}
  MaxFaults = 2
  None = None
  Request = {r1, r2}
  Token = {k1, k2}
  User = {u1}
  Device = {v1}
  Key = {f1}
  MaxSessions = 2
  MaxPerUser = 1
  MaxPerDevice = 1
  MaxInFlight = 2
PROPERTIES
  OrphanReaped
  StaleRecordDropped
  CancelledLeaves
  IdleEnds
