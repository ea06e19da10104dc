SPECIFICATION FairSpec
CONSTANTS
  p1 = p1
  p2 = p2
  Payloads = {p1, p2}
  NoPayload = NoPayload
  SequenceMax = 4
  AppendBound = 3
  SegFrames = 2
  Endings = {"stop", "kill"}
  Faults = {"write", "create"}
  MaxCrashes = 2
  MaxFaults = 2
INVARIANTS NeverReassigned
PROPERTIES AckFollowsCollector ReportedOnce ImplementsDurableLog StartsServing
