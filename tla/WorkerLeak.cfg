SPECIFICATION Spec
CONSTANTS
  Session = {s1}
  Display = {d1}
  WsPort = {p1}
  MaxSessions = 2
  MaxGen = 0
  Faults = {}
  None = None
INVARIANTS
  TornDownMeansDead
