SPECIFICATION Spec
CONSTANTS
  Replica = {p1}
  Device = {d1}
  Loop <- OneEach
  RepOf <- Rep
  DevOf <- Dev
  NoCollector = {}
  MaxFailures = 5
  FailureCap = 55
  None = None
  BaseSeconds = {30}
  MaxSeconds = 900
  FailureBound = 55
INVARIANT BackoffCapped
