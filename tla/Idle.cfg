SPECIFICATION FairLeaseSpec
CONSTANTS
  NumLeases = 2
  MaxSockets = 2
  MaxReceipts = 2
  Frames = 1
  LeaseTime = 2
  AlarmEvery = 2
  MaxFaults = 0
PROPERTY ExpiredSocketsClose
