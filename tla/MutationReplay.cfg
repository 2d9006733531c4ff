SPECIFICATION Spec
CONSTANTS
  Slots = {0}
  Keys = {1, 2}
  Bits = {0}
  Docs <- LiveDocs
  Patches <- LivePatches
  Writers = {w1}
  Retry = 1
  MaxTime = 0
  MaxWrites = 2
  MaxErrors = 0
INVARIANTS
  FilterReplayMatchesMemory
CHECK_DEADLOCK FALSE
