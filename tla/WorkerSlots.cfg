SPECIFICATION Spec
CONSTANTS
  Session = {s1, s2}
  Display = {d1, d2}
  WsPort = {p1, p2}
  MaxSessions = 2
  MaxGen = 0
  Faults = {"mkdir", "exit", "sigkill"}
  None = None
INVARIANTS
  SlotsAccounted
  CapacityGuardsPools
  LeakOnlyByEarlyTeardown
SYMMETRY Symmetry
