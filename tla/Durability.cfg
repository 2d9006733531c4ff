SPECIFICATION Spec
CONSTANTS
    OpKinds = {"defer"}
    MaxWal = 2
    MaxExt = 1
    MaxCrashes = 1
    MaxFaults = 1
INVARIANTS
    TypeOK
    DeferralsDurable
    WatermarkConserved
    IInv
PROPERTY
    CursorMonotone
