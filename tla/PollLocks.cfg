SPECIFICATION Spec
CONSTANTS
  Replica = {p1, p2}
  Device = {d1}
  Loop <- TwoAndOne
  RepOf <- Rep
  DevOf <- Dev
  NoCollector = {}
  MaxFailures = 2
  FailureCap = 2
  None = None
  BaseSeconds = {1, 5, 30, 60, 512, 999}
  MaxSeconds = 900
  FailureBound = 70
INVARIANTS
  OverlapNeedsExpiry
  NoStrayLoop
  BackoffSound
