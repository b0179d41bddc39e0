SPECIFICATION FairSpec
CONSTANTS
  Dims <- OneDim
  Allocs <- AllocIds
  AllocInfo <- AllocWindows
  Keys = {"a","b","r"}
  MaxReservations = 2
  MaxRetained = 4
  MaxSeedAttempts = 1
  NumTenants = 2
  Authority <- Steady
  MaxAge = 1
  Skew = 0
  Demand <- TwoTenants
  AnonDemand <- NoDemand
  Observations <- UpTo2
  Proofs = {"certified"}
  Handoffs = {}
  AnonLimit = 1
  AnonWindow = 2
  MaxTransfers = 1
  StaleRetries = FALSE
  MaxTime = 3
  MaxGrants = 2
  Width = 4
  Lifetime = 2
  OwnerLimit = 2
  TenantLimit = 2
INVARIANTS TypeOK SlotCeiling
PROPERTIES DefectFreezes ExpiredWorkFreesSlot
