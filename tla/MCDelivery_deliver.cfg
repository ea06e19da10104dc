SPECIFICATION FairSpec
CONSTANTS
  MaxSeq = 3
  Sizes = {1, 3, 4}
  MaxObservations = 2
  MaxBatchBytes = 2
  MaxInFlight = 2
  ServerObservations = 2
  ServerBytes = 3
  MaxAttempts = 2
  Faulty = {"lost", "late", "refused", "corrupt"}
  MaxCrashes = 1
  MaxFaults = 1
INVARIANTS DeliveryInv
PROPERTIES OwedDelivered
