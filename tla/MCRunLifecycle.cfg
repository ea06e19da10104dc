SPECIFICATION Spec
CONSTANTS
  r1 = r1
  r2 = r2
  s1 = s1
  None = None
  Runs <- MCRuns
  Outer <- MCOuter
  Above <- MCAbove
  Unobserved <- MCUnobserved
  Sessions <- MCSessions
  Reserve = 2
  HardFloor = 6
  SoftThreshold = 4
  MaxFaults = 1
  MaxOps = 2
CHECK_DEADLOCK FALSE
INVARIANTS RunInv ReservesSound AttributionSound NoStandstill
PROPERTIES AdmissionHonoured
