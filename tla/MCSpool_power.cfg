SPECIFICATION Spec
SYMMETRY Symmetry
CONSTANTS
  p1 = p1
  p2 = p2
  Payloads = {p1, p2}
  NoPayload = NoPayload
  SequenceMax = 4
  AppendBound = 3
  SegFrames = 2
  Endings = {"stop", "power"}
  Faults = {"create"}
  MaxCrashes = 2
  MaxFaults = 1
INVARIANTS ReportedDurable RefusesOnlyUnreported SpoolInv
