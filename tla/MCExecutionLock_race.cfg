SPECIFICATION Spec
CONSTANTS
    p1 = p1
    p2 = p2
    p3 = p3
    Free = Free
    Procs <- ThreeProcs
    Unprovable <- Nobody
    MaxDeaths = 1
    MaxFaults = 0
PROPERTIES
    LiveLockKept
