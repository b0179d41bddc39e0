SPECIFICATION Spec
CONSTANTS
  m = m
  a1 = a1
  a2 = a2
  b1 = b1
  x = x
  y = y
  Sources = {m}
  Raws = {x, y}
  NoRaw = NoRaw
  Envelopes = {"e", "f"}
  Parts = {"p"}
  Claims = {a1, a2, b1}
  ClaimInfo <- Deliveries
  Nobody = Nobody
  MaxAttempts = 2
  MaxReceipts = 1
  MaxRevision = 2
INVARIANTS TypeOK HistoryKept AppliedWhole
PROPERTIES Delivered
SYMMETRY EitherContent
