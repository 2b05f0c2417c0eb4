----------------------------- MODULE MemoryRules -----------------------------
(***************************************************************************)
(* The rules of project memory, shared by MemoryLog and MemoryStore.       *)
(* Memory is a set of items: records of knowledge, which may supersede     *)
(* older records, and tombstones, which retire one record each.            *)
(***************************************************************************)
EXTENDS Naturals, FiniteSets

CONSTANTS
    Ids,       \* item identities (ULIDs), as numbers in their order
    Types,     \* the record types in use
    MaxFiles   \* MAX_MEMORY_FILES

RecordTypes == {"decision", "event", "fact", "lesson"}

ASSUME MemoryRulesAssumption ==
    Ids \subseteq Nat /\ Types \subseteq RecordTypes /\ MaxFiles \in Nat

\* The targets of a record are the records it supersedes.
Record(id, type, supersedes) == [id |-> id, kind |-> type, targets |-> supersedes]
Tombstone(id, target) == [id |-> id, kind |-> "tombstone", targets |-> {target}]

Item == [id : Ids, kind : Types \cup {"tombstone"}, targets : SUBSET Ids]

Records(m)    == {x \in m : x.kind # "tombstone"}
Named(m)      == {x.id : x \in m}
Retired(m)    == UNION {x.targets : x \in m}
ActiveIds(m)  == Named(Records(m)) \ Retired(m)

UniqueIds(m)  == \A x, y \in m : x.id = y.id => x = y
\* What is superseded or buried is a record.
References(m) == Retired(m) \subseteq Named(Records(m))

\* Supersession is acyclic iff no non-empty set of records is superseded from
\* within.
SupersededBy(m, S) == UNION {r.targets : r \in {x \in Records(m) : x.id \in S}}
NoCycle(m) ==
    \A S \in (SUBSET Named(Records(m))) \ {{}} : ~(S \subseteq SupersededBy(m, S))

Valid(m) == UniqueIds(m) /\ References(m) /\ NoCycle(m)

\* loadState, and loadMemories for the cache, read every file of the memory.
Loadable(m) == Cardinality(m) <= MaxFiles /\ Valid(m)

\* Mutant: the supersessions of the batch may be circular.
ImportableInCircles(m, batch) ==
    /\ UniqueIds(batch) /\ Named(batch) \cap Named(m) = {}
    /\ References(m \cup batch)

\* validateImportBatch and assertImportRelationships: the targets only have to
\* exist, active or not.
Importable(m, batch) ==
    /\ UniqueIds(batch) /\ Named(batch) \cap Named(m) = {}
    /\ References(m \cup batch) /\ NoCycle(m \cup batch)
=============================================================================
