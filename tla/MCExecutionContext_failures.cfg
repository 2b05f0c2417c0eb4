SPECIFICATION FairSpec
CONSTANTS
    s1 = s1
    s2 = s2
    w1 = w1
    w2 = w2
    e1 = e1
    None = None
    Sessions <- TwoSessions
    Workspaces <- TwoWorkspaces
    Epics <- OneEpic
    MaxGeneration = 2
    MaxFaults = 2
    MaxCrashes = 2
    Faults <- AllFaults
INVARIANTS
    ContextsUnambiguous
    GrantsBacked
    BoundSessionsRouted
PROPERTIES
    TransactionsResolved
