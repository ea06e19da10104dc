SPECIFICATION Spec
CONSTANTS
  CLIs = {p1, p2}
  MaxCommands = 2
  MaxCredFaults = 1
  MaxLapses = 1
  minInterval = 1
  defaultInterval = 2
  maxInterval = 4
  slowDownStep = 1
  maxSeconds = 20
  defaultLifetime = 6
  maxLifetime = 8
  expiryGrace = 3
  requestTimeout = 1
  deviceLoginCap = 6
  ServerIntervals = {0, 1, 3, 5}
  ServerLifetimes = {0, 4, 9}
  MaxFlowFaults = 3
  mintChallengeTTLSecs = 4
  mintSessionMarginSecs = 3
  mintRedeemMarginSecs = 2
  MaxChallengeTTLSecs = 10
  mintTimeout = 1
  minPendingInterval = 1
  defaultPendingInterval = 2
  maxPendingInterval = 3
  MintWindows = {0, 3, 9, 20}
  MintIntervals = {0, 1, 5}
  SessionLives = {7, 8, 14}
  MaxMintFaults = 3
  MaxMintSignals = 2
CHECK_DEADLOCK FALSE
INVARIANTS CredInv CommandsHonest NothingStranded FlowInv ApprovalNotWasted MintInv KeyKept
