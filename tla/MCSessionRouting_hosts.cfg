SPECIFICATION FairSpec
CONSTANTS
    None = None
    Primary = Primary
    Relative = Relative
    Restart = Restart
    Sessions = {p, o}
    PiSessions = {p}
    Workspaces = {w1, w2}
    Epics = {e1}
    Paths = {Relative, w1}
    MaxMissing = 1
    MaxGeneration = 3
INVARIANTS NeverFallsBack StaysInWorkspace RecoveryTrue
PROPERTIES ClaimsRespected RecoveryCatchesUp
