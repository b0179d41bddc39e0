SPECIFICATION AuditSpec
CONSTANTS
  Dims <- OneDim
  Allocs <- AllocIds
  AllocInfo <- AllocWindows
  Keys = {"a", "b", "r"}
  MaxReservations = 3
  MaxRetained = 4
  MaxSeedAttempts = 1
  NumTenants = 1
  Authority <- NextDay
  MaxAge = 1
  Skew = 1
  Demand <- TwoUnits
  AnonDemand <- NoDemand
  Observations <- UpTo1
  Proofs = {"measured", "certified", "expired"}
  Handoffs = {}
  AnonLimit = 1
  AnonWindow = 2
  MaxTransfers = 0
  StaleRetries = FALSE
  MaxTime = 3
  MaxGrants = 2
  Width = 2
  Lifetime = 2
  OwnerLimit = 3
  TenantLimit = 2
INVARIANTS ChargesMatchAudit CeilingHolds OneGrantPerIdentity
  ReservedUnderCurrentTerms CompactionAvailable
