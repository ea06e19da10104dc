SPECIFICATION FairSpec
CONSTANTS
  Scripts <- MCScripts
  NoResp = NoResp
  NoSes = NoSes
  Down = Down
  NoState = NoState
  s1 = s1
  s2 = s2
  r1 = r1
  r2 = r2
  r3 = r3
  MaxPartial = 2
  MaxReadChunk = 3
  MaxOpen = 2
  UsageMemory = 2
  Releases = {"none", "pre91", "presession"}
  MaxCrashes = 1
  MaxFails = 1
  MaxRewrites = 1
  MaxLost = 1
  MaxFaults = 2
CHECK_DEADLOCK FALSE
INVARIANTS TailInv NoUsageLost UsageRight
PROPERTIES AllCounted
