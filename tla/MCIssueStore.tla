---------------------------- MODULE MCIssueStore ----------------------------
(* Instances of IssueStore for TLC. *)
EXTENDS IssueStore

TwoIds == {1, 2}
ThreeIds == {1, 2, 3}
OneTitle == {1}
TwoTitles == {1, 2}
TwoTypes == {"epic", "story"}
OneType == {"story"}
NoFaults == {}
FileFaults == FaultKinds \ {"release"}
Dependencies == {"depends_on", "blocks"}
AllRelationships == {"depends_on", "blocks", "relates_to", "supersedes"}

\* ULIDs start with the time of creation; titles differ after a change only.
CreatedInOrder ==
    stage = "idle" =>
        \A r \in pending' : \A f \in r.after : f.id \notin Named(files) =>
            f.title = 1 /\ \A g \in files : g.id < f.id

\* Nothing is promised after a failed roll-back, so nothing is explored.
WarnedStops == ops' # ops => ~warned

SparedSpec ==
    Init /\ [][/\ Next
               /\ BlocksSpareCycles /\ CrashesSpareIssues
               /\ CreatedInOrder /\ WarnedStops]_vars
=============================================================================
