SPECIFICATION Spec
CONSTANTS
    Ids <- TwoIds
    Types <- OneType
    Titles <- OneTitle
    Relationships <- Dependencies
    ArchiveFirst = TRUE
    Faults <- NoFaults
    MaxOps = 4
    MaxFaults = 0
    MaxCrashes = 0
INVARIANTS
    DependenciesAcyclic
