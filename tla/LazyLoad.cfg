SPECIFICATION Spec
CONSTANTS
  Slot = {s1, s2}
  Kinds = {"value", "field", "layer"}
  Loader = {q1, q2}
  EarlyMerge = FALSE
  MaxBatches = 4
SYMMETRY Symmetry
INVARIANT TypeOK
 
 
 
 
CHECK_DEADLOCK FALSE
