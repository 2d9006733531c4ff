SPECIFICATION FairSpec
CONSTANTS
    RotationSize = 3
    MaxRecords = 2
    MaxOps = 3
    MaxCrashes = 1
    MaxOsCrashes = 1
    MaxTears = 1
    MaxDrops = 1
INVARIANTS
    TypeOK
    AckedNotPassed
    RetentionSafe
PROPERTIES
    ReaderDrains
