SPECIFICATION Spec
CONSTANTS
    s1 = s1
    s2 = s2
    w1 = w1
    w2 = w2
    e1 = e1
    None = None
    Sessions <- TwoSessions
    Workspaces <- TwoWorkspaces
    Epics <- OneEpic
    MaxGeneration = 3
    MaxFaults = 1
    MaxCrashes = 1
    Faults <- EarlyFaults
INVARIANTS
    BindingsGrounded
PROPERTIES
    RefinesRegistry
