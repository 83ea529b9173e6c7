SPECIFICATION FairSpec
CONSTANTS
  Session = {s1}
  Display = {d1, d2}
  WsPort = {p1}
  MaxSessions = 2
  MaxGen = 2
  Faults = {"mkdir", "start", "exit", "sigkill"}
  None = None
PROPERTIES
  NoResurrection
  TeardownCompletes
  LifetimeCapEnds
