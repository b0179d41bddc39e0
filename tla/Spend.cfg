SPECIFICATION AdmissionSpec
CONSTANTS
  Dims <- OneDim
  Allocs <- Days
  AllocInfo <- DayWindows
  Keys <- BlockKeys
  MaxReservations = 4
  MaxRetained = 8
  MaxSeedAttempts = 2
  NumTenants = 1
  Authority <- NextDay
  MaxAge = 2
  Skew = 9
  Demand <- NoDemand
  AnonDemand = {}
  Observations = {}
  Proofs = {}
  Handoffs = {}
  AnonLimit = 1
  AnonWindow = 1
  MaxTransfers = 0
  StaleRetries = FALSE
  MaxTime = 2
  MaxGrants = 9
  Ops <- TwoOps
  OpAttempts = 2
  MaxRefills = 2
  MaxRecoveries = 2
  IdleMs = 1
  a1 = a1
  a2 = a2
  b = b
  Attempts <- ThreeAttempts
  OpOf <- RetryAndOther
  BlockSize = 2
  OpCost <- OneUnit
  ColdCost <- OneUnit
  RecoveryCost <- OneUnit
  MaxHolders = 2
  FaultPlans <- FewFaults
  Lifetime = 2
  Limit = 6
CHECK_DEADLOCK FALSE
SYMMETRY Alike
INVARIANTS AdmissionTypeOK ChargeCoversWork SealedIsQuiescent RefillsCoverBlocks
PROPERTIES NothingOlder
