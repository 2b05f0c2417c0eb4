-------------------------- MODULE MCDocumentStore --------------------------
(* Instances of DocumentStore for TLC.  What LateFaults and deaths inside a  *)
(* change of title do to RefinesLineageStore, the README says.               *)
EXTENDS DocumentStore

CONSTANTS d1, d2

OneDoc == {d1}
TwoDocs == {d1, d2}
OneTitle == {1}
TwoTitles == {1, 2}
EarlyFaults == {"before", "cache", "release"}
LateFaults == {"after"}
NoFaults == {}
AllFaults == FaultKinds
=============================================================================
