SPECIFICATION ConsoleSpec
CONSTANTS
  MaxStaged = 3
  MaxApplies = 2
  MaxVisits = 2
  Behaviour <- PageFields
  Value = {"", "d", "v"}
  Blank = ""
  Default = "d"
  Keep = Keep
  MaxOutside = 1
  MaxSaves = 1
  Tenant = {t1, t2}
  NoTenant = NoTenant
  MAX_RETRIES = 2
  MaxLinks = 3
  MaxSwitches = 3
  MaxDrops = 3
  Request = {q1, q2, q3}
  NoRequest = NoRequest
  Fleet = 2
  MaxRuns = 2
  MaxMoves = 1
  MaxMounts = 2
  MaxFound = 3
  MaxAttempts = 2
  MaxImports = 2
  Screen <- Screens
  Record = {a}
  NewRecord = NewRecord
  MaxOpenings = 2
  MaxRequests = 2
INVARIANTS
  LostOnlyInRace
  RepeatedOnlyAfterFailure
  UntouchedNotSent
  OneStreamUnlessCrossed
  OneRefresh
  RunReported
  SwitchedOnce
PROPERTIES
  ImplementsLedger
  TableCatchesUp
  
  StreamComesBack
  RequestsSettle
  VerdictReached
  InputKept
  ListCatchesUp
CHECK_DEADLOCK FALSE
