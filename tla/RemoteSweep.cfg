SPECIFICATION Spec
CONSTANTS
  Session = {s1, s2}
  MaxFaults = 1
  None = None
INVARIANTS
  MidCreateSpared
  LiveSessionRecorded
SYMMETRY Symmetry
