SPECIFICATION Spec
CONSTANTS
  i1 = i1
  None = None
  Ids <- MCIds
  Named <- MCNamed
  MaxLife = 2
  MaxLen = 3
  MaxBytes = 2
  MaxGen = 2
  MaxAttempts = 1
  MaxFaults = 1
  MaxOps = 3
CHECK_DEADLOCK FALSE
INVARIANTS CutoffHonest
