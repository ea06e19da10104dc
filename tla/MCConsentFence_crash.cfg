SPECIFICATION Spec
CONSTANTS
  r1 = r1
  Roots = {r1}
  NoOrigin = NoOrigin
  NoRecord = NoRecord
  MaxSeq = 2
  MaxGen = 1
  MaxBatch = 2
  Modes = {"live", "passive"}
  Faults = {"write", "fsyncdir"}
  MaxFaults = 1
  MaxCrashes = 1
  MaxAside = 0
  MaxStray = 1
INVARIANTS FenceInv NoConflict
PROPERTIES ConsentRespected
