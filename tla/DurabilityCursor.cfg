SPECIFICATION Spec
CONSTANTS
    OpKinds = {"filter"}
    MaxWal = 1
    MaxExt = 0
    MaxCrashes = 0
    MaxFaults = 0
INVARIANT
    CursorBehindLog
