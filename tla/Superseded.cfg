SPECIFICATION KnowledgeSpec
CONSTANTS
  MaxVersion = 2
  MaxChunks = 2
  w1 = w1
  w2 = w2
  d1 = d1
  d2 = d2
  Indexers = {w1, w2}
  Deleters = {d1, d2}
  Scenarios <- Edited
CHECK_DEADLOCK FALSE
INVARIANT PublishedIsCurrent
