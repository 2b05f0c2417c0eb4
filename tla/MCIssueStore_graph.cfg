SPECIFICATION SparedSpec
CONSTANTS
    Ids <- ThreeIds
    Types <- TwoTypes
    Titles <- TwoTitles
    Relationships <- AllRelationships
    ArchiveFirst = TRUE
    Faults <- FileFaults
    MaxOps = 4
    MaxFaults = 2
    MaxCrashes = 1
INVARIANTS
    GraphValid
    FamiliesTogether
PROPERTIES
    RefinesIssueGraph
    NothingLost
