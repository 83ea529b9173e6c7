SPECIFICATION FairSpec
CONSTANTS
  Replica = {p1}
  Device = {d1, d2}
  Loop <- OneForNoCollector
  RepOf <- Rep
  DevOf <- Dev
  NoCollector = {d2}
  MaxFailures = 1
  FailureCap = 1
  None = None
  BaseSeconds = {30}
  MaxSeconds = 900
  FailureBound = 1
PROPERTIES
  CancelledStops
  PolledForever
