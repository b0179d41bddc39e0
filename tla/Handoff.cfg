SPECIFICATION AuditSpec
CONSTANTS
  Dims <- OneDim
  Allocs <- AllocIds
  AllocInfo <- AllocWindows
  Keys = {"a", "i", "x", "y"}
  MaxReservations = 4
  MaxRetained = 4
  MaxSeedAttempts = 2
  NumTenants = 1
  Authority <- NextStock
  MaxAge = 1
  Skew = 1
  Demand <- IngressBlocks
  AnonDemand <- UnevenAnonymous
  Observations <- UpTo1
  Proofs = {}
  Handoffs = {"single", "batch"}
  AnonLimit = 1
  AnonWindow = 2
  MaxTransfers = 2
  StaleRetries = FALSE
  MaxTime = 2
  MaxGrants = 2
  Width = 4
  Lifetime = 2
  OwnerLimit = 3
  TenantLimit = 3
INVARIANTS ChargesMatchAudit CeilingHolds AnonWithinLimit
