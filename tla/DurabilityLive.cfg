SPECIFICATION FairSpec
CONSTANTS
    OpKinds = {"defer"}
    MaxWal = 2
    MaxExt = 0
    MaxCrashes = 1
    MaxFaults = 1
PROPERTIES
    DeferralsReachDisk
    CursorCatchesUp
