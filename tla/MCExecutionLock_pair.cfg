SPECIFICATION FairSpec
CONSTANTS
    p1 = p1
    p2 = p2
    p3 = p3
    Free = Free
    Procs <- TwoProcs
    Unprovable <- OneUnprovable
    MaxDeaths = 1
    MaxFaults = 2
INVARIANTS
    MutualExclusion
PROPERTIES
    LiveLockKept
    StaleLockRecovered
