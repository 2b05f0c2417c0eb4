SPECIFICATION Spec
CONSTANTS
    None = None
    Primary = Primary
    Sessions = {s1, s2}
    Workspaces = {w1, w2}
    Epics = {e1}
    Targets = {t1, t2, None}
    Operations = {"bootstrap.install", "command.exceptional"}
    MaxMissing = 0
    MaxGeneration = 3
    MaxEvidence = 1
SYMMETRY Symmetry
INVARIANTS ConsentExact CompletionEarned
