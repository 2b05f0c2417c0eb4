SPECIFICATION SparedSpec
CONSTANTS
    d1 = d1
    d2 = d2
    NoJournal = NoJournal
    Docs <- TwoDocs
    Titles <- TwoTitles
    MaxVersion = 2
    MaxRevision = 3
    MaxFaults = 1
    MaxCrashes = 2
    MaxLinks = 0
    Faults <- EarlyFaults
INVARIANTS
    TypeOK
    JournalBacked
PROPERTIES
    RefinesLineageStore
    RecoveryCompletes
