SPECIFICATION Spec
CONSTANTS
  Locs <- MCLocs
  Matching = {"a", "b"}
  i1 = i1
  i2 = i2
  i3 = i3
  Inodes = {i1, i2, i3}
  None = None
  History <- MCHistory
  Edited <- MCEdited
  MaxLen = 3
  QuietActivation = TRUE
  MaxOps = 2
  MaxFaults = 1
SYMMETRY Symmetry
INVARIANTS SealInv SealHolds NothingSkipped
