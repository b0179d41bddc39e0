SPECIFICATION FairLeaseSpec
CONSTANTS
  NumLeases = 3
  MaxSockets = 2
  MaxReceipts = 2
  Frames = 1
  LeaseTime = 2
  AlarmEvery = 2
  MaxFaults = 1
INVARIANTS TypeOK FramesPrepaid RegistryBounded
PROPERTY PendingSettles
