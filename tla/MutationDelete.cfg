SPECIFICATION Spec
CONSTANTS
  Slots = {0}
  Keys = {1, 2}
  Bits = {0}
  Docs <- RunDocs
  Patches <- LivePatches
  Writers = {w1}
  Retry = 1
  MaxTime = 1
  MaxWrites = 2
  MaxErrors = 0
INVARIANTS
  DeletedStaysDeleted
CHECK_DEADLOCK FALSE
