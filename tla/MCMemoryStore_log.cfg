SPECIFICATION OrderedSpec
CONSTANTS
    Ids <- FourIds
    Types <- TwoTypes
    MaxFiles = 3
    Imports <- SomeImports
    Contents <- TwoContents
    Invalid = "invalid"
    Garbled <- NoSuchRows
    Faults <- AllFaults
    MaxOps = 3
    MaxHarm = 1
    MaxEdits = 1
    MaxCrashes = 1
INVARIANTS
    MemoryValid
PROPERTIES
    RefinesMemoryLog
    AppendOnly
    TakesBackOnlyItsOwn
    AnswersTrue
    EvidenceTrue
    CacheCatchesUp
