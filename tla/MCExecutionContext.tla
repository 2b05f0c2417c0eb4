------------------------- MODULE MCExecutionContext -------------------------
(* Instances of ExecutionContext for TLC.  LateFaults are for the instance    *)
(* that the README describes, in which a late failure takes a record back.   *)
EXTENDS ExecutionContext

CONSTANTS s1, s2, w1, w2, e1

TwoSessions == {s1, s2}
OneWorkspace == {w1}
TwoWorkspaces == {w1, w2}
OneEpic == {e1}
EarlyFaults == {"before", "after"}
AllFaults == FaultKinds
LateFaults == {"unlink"}
=============================================================================
