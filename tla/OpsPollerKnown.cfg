SPECIFICATION FairSpec
CONSTANTS
  e1 = e1
  e2 = e2
  Entity = {e1, e2}
  MaxTxn = 3
  MaxId = 3
  BatchLimit = 2
  GapSetLimit = 4
  OrderedIds = TRUE
  QuietSeed = TRUE
  KnownReplica = TRUE
  MaxFaults = 1
 
PROPERTY CursorPassesRows
