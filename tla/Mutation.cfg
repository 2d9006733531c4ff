SPECIFICATION Spec
CONSTANTS
  Slots = {0}
  Keys = {1, 2}
  Bits = {0}
  Docs <- RunDocs
  Patches <- RunPatches
  Writers = {w1}
  Retry = 1
  MaxTime = 2
  MaxWrites = 3
  MaxErrors = 1
INVARIANTS
  TypeOK
  PublishedIsWanted
  OneActivationTime
  BelowHighWater
  
  
CHECK_DEADLOCK FALSE
