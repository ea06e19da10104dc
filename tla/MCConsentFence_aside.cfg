SPECIFICATION FairSpec
CONSTANTS
  r1 = r1
  Roots = {r1}
  NoOrigin = NoOrigin
  NoRecord = NoRecord
  MaxSeq = 2
  MaxGen = 2
  MaxBatch = 2
  Modes = {"live"}
  Faults = {}
  MaxFaults = 0
  MaxCrashes = 0
  MaxAside = 1
  MaxStray = 0
INVARIANTS OnlyWithdrawnWithheld
PROPERTIES ConsentRespected OwedDelivered
