SPECIFICATION Spec
CONSTANTS
    d1 = d1
    d2 = d2
    NoJournal = NoJournal
    Docs <- OneDoc
    Titles <- TwoTitles
    MaxVersion = 2
    MaxRevision = 2
    MaxFaults = 2
    MaxCrashes = 1
    MaxLinks = 1
    Faults <- AllFaults
INVARIANTS
    LinksResolve
    StartsClean
    ExpectationsHold
