SPECIFICATION Spec
CONSTANTS
  Dims <- OneDim
  Allocs <- AllocIds
  AllocInfo <- AllocWindows
  Keys = {"a", "i", "x"}
  MaxReservations = 2
  MaxRetained = 4
  MaxSeedAttempts = 1
  NumTenants = 1
  Authority <- Suspended
  MaxAge = 1
  Skew = 1
  Demand <- NewWorkEach
  AnonDemand <- OneAnonymous
  Observations <- UpTo1
  Proofs = {}
  Handoffs = {"single", "batch"}
  AnonLimit = 1
  AnonWindow = 2
  MaxTransfers = 0
  StaleRetries = FALSE
  MaxTime = 3
  MaxGrants = 2
  Width = 4
  Lifetime = 2
  OwnerLimit = 2
  TenantLimit = 2
INVARIANT SlotCeiling
PROPERTIES RevocationSticks GrantsDieWithAuthority
