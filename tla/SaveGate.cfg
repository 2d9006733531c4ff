SPECIFICATION SSpec
CONSTANTS
    OpKinds = {"defer"}
    MaxWal = 1
    MaxExt = 0
    MaxCrashes = 0
    MaxFaults = 0
    SaveModes = {"snapshot"}
    MaxSaves = 1
INVARIANT
    DeferralsDurable
