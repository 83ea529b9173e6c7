SPECIFICATION PollerSpec
CONSTANTS
  Tunnel = {t1, t2}
  Port = {1, 2}
  Conn = {c1, c2}
  Nil = Nil
  Replica = {p1, p2}
  Caller <- Callers
  RepOf <- Rep
  Polls <- Loops
  MaxVer = 2
  Lossy = TRUE
  None = None
INVARIANTS
  PortsAccounted
  OneStraggler
  SourceSeparated
PROPERTIES
  IdleReclaimed
  StalenessHeals
