SPECIFICATION Spec
CONSTANTS
  Replica = {p1}
  Caller <- OnlyLoop
  RepOf <- Rep
  Polls <- Loops
  MaxVer = 2
  Lossy = FALSE
  None = None
INVARIANT FreshCredentials
