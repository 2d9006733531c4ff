SPECIFICATION Spec
CONSTANTS
  e1 = e1
  e2 = e2
  Entity = {e1, e2}
  MaxTxn = 3
  MaxId = 4
  BatchLimit = 2
  GapSetLimit = 1
  OrderedIds = TRUE
  QuietSeed = TRUE
  KnownReplica = FALSE
  MaxFaults = 1
SYMMETRY Symmetry
INVARIANT TypeOK
 
 
 
 
