SPECIFICATION FairSpec
CONSTANTS
    Procs <- TwoProcs
    NoOne = NoOne
    Dead = Dead
    MaxFaults = 2
    MaxCrashes = 1
    MaxEdits = 1
INVARIANTS
    ActiveIsOwned
    ClosedIsGone
PROPERTIES
    WorkKept
    LifecycleForward
    CreationResumes
    CleanupResumes
