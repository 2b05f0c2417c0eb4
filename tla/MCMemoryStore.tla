---------------------------- MODULE MCMemoryStore ----------------------------
(* Instances of MemoryStore for TLC. *)
EXTENDS MemoryStore

FourIds == 1..4
TwoTypes == {"decision", "fact"}
TwoContents == {"first", "invalid"}
NoSuchRows == [memory |-> {}, others |-> "garbled"]
AllFaults == FaultKinds \ {"release"}

\* A decision that supersedes a fact of its own batch is written before it; a
\* cycle; a record and a tombstone for an old record; a record of the
\* identity that a concurrent call may have taken.
SomeImports ==
    {{Record(1, "decision", {2}), Record(2, "fact", {})},
     {Record(1, "fact", {2}), Record(2, "fact", {1})},
     {Record(3, "fact", {1}), Tombstone(4, 2)},
     {Record(2, "decision", {}), Record(3, "decision", {1, 2})}}

\* ULIDs start with the time of creation.  The order of paths, which the type
\* decides, matters to batches only: a single record is a fact.
SingleItems ==
    Ready => \A x \in pending' :
        \/ Cardinality(pending') > 1
        \/ x.kind \in {"fact", "tombstone"} /\ \A y \in files : y.id < x.id

\* One import at a time waits for the barrier.
OneImportWaits == Cardinality(prepared') <= 1

\* The cache is damaged between two calls or before it is synchronised.
HarmMatters == harm' # harm => stage \in {"idle", "sync"}

OrderedSpec ==
    Init /\ [][Next /\ SingleItems /\ OneImportWaits /\ HarmMatters]_vars /\ Fairness
=============================================================================
