SPECIFICATION FairSpec
CONSTANTS
  p1 = p1
  p2 = p2
  Payloads = {p1, p2}
  NoPayload = NoPayload
  SequenceMax = 3
  AppendBound = 4
  SegFrames = 2
  Endings = {"stop", "kill", "power"}
  Faults = {"write", "truncate"}
  MaxCrashes = 1
  MaxFaults = 1
PROPERTIES RotationResumes
