SPECIFICATION AuditSpec
CONSTANTS
  Dims <- OneDim
  Allocs <- AllocIds
  AllocInfo <- AllocWindows
  Keys = {"a", "b"}
  MaxReservations = 3
  MaxRetained = 4
  MaxSeedAttempts = 2
  NumTenants = 1
  Authority <- Restocked
  MaxAge = 1
  Skew = 0
  Demand <- TwoTenantKeys
  AnonDemand <- NoDemand
  Observations <- UpTo1
  Proofs = {}
  Handoffs = {}
  AnonLimit = 1
  AnonWindow = 2
  MaxTransfers = 0
  StaleRetries = FALSE
  MaxTime = 3
  MaxGrants = 2
  Width = 4
  Lifetime = 2
  OwnerLimit = 1
  TenantLimit = 1
INVARIANT CeilingHolds
