----------------------------- MODULE MemoryStore -----------------------------
(***************************************************************************)
(* The canonical files of project memory (extensions/generic-tools/        *)
(* memory.ts) and the cache that mirrors them.  A call takes the project   *)
(* barrier, loads every file, checks the issue graph, brings the cache up  *)
(* to date, does its work and, if it changed files, loads them again and   *)
(* brings the cache up to date once more.  New files are published in path *)
(* order without a journal: a failure is rolled back from memory, a death  *)
(* is not.  An import is also checked before the barrier is taken.         *)
(***************************************************************************)
EXTENDS MemoryRules

CONSTANTS
    Imports,     \* the batches that callers try to import
    Contents,    \* contents of the issues and documents
    Invalid,     \* the contents that make the issue graph invalid
    Garbled,     \* cache rows that no snapshot has
    Faults,      \* the kinds of failure the environment may report
    MaxOps,      \* bound: changing calls in a behaviour
    MaxHarm,     \* bound: damages to the cache in a behaviour
    MaxEdits,    \* bound: changes of the other contents in a behaviour
    MaxCrashes   \* bound: process deaths in a behaviour

(***************************************************************************)
(* "before": a publication throws and has changed nothing.  "after": its   *)
(* rename took effect and the directory fsync throws.  "rollback": the     *)
(* removal of a published file throws, with or without effect.  "cache":   *)
(* the database cannot be written.  "activate": a rebuilt database was     *)
(* renamed and the directory fsync throws.  "release": the lock directory  *)
(* cannot be removed.                                                      *)
(***************************************************************************)
FaultKinds == {"before", "after", "rollback", "cache", "activate", "release"}

ASSUME MemoryStoreAssumption ==
    /\ Imports \subseteq SUBSET Item
    /\ Invalid \in Contents
    /\ Faults \subseteq FaultKinds
    /\ MaxOps \in Nat /\ MaxHarm \in Nat
    /\ MaxEdits \in Nat /\ MaxCrashes \in Nat

VARIABLES
    files,     \* the memory files
    others,    \* the contents of the issues and documents
    cache,     \* the SQLite cache
    prepared,  \* imports accepted by the check outside the barrier
    stage,     \* how far the call that holds the barrier is
    start,     \* the memory files when the call took the barrier
    pending,   \* files of the current batch not yet published
    applied,   \* files of the current batch published, or begun
    told,      \* the answer of the last call, "none" while one runs
    warned,    \* a caller was told that the files may be inconsistent
    ops, harm, edits, crashes

batch  == <<start, pending, applied>>
bounds == <<ops, harm, edits, crashes>>
vars   == <<files, others, cache, prepared, stage, batch, told, warned, bounds>>

Stages == {"idle", "ensure", "checked", "rebuilt", "publish", "undo",
           "sync", "repair", "left"}
\* "inconsistent": the roll-back failed.  "committed": the cache could not be
\* repaired after the files were written.
Answers == {"none", "ok", "error", "inconsistent", "committed", "skipped",
            "checked", "rebuilt"}

Snapshot == [memory |-> files, others |-> others]
Cache == INSTANCE LocalCache WITH
             Snapshots <- [memory : SUBSET Item, others : Contents]

-----------------------------------------------------------------------------
(* Paths, failures and answers *)

FolderOrder == [decision |-> 1, event |-> 2, fact |-> 3, lesson |-> 4, tombstone |-> 5]
PathLess(x, y) ==
    \/ FolderOrder[x.kind] < FolderOrder[y.kind]
    \/ x.kind = y.kind /\ x.id < y.id
IsFirst(x, S) == \A y \in S \ {x} : PathLess(x, y)
IsLast(x, S)  == \A y \in S \ {x} : PathLess(y, x)

Fault(kind) == kind \in Faults

\* The end of a call: the barrier is released.
Answer(answer) ==
    /\ told' = answer
    /\ stage' \in {"idle"} \cup (IF Fault("release") THEN {"left"} ELSE {})
    /\ start' = {} /\ pending' = {} /\ applied' = {}

Continue(next) == stage' = next /\ told' = "none"

-----------------------------------------------------------------------------
Init ==
    /\ files = {} /\ others \in Contents \ {Invalid} /\ cache = Cache!Missing
    /\ prepared = {}
    /\ stage = "idle" /\ start = {} /\ pending = {} /\ applied = {}
    /\ told = "none" /\ warned = FALSE
    /\ ops = 0 /\ harm = 0 /\ edits = 0 /\ crashes = 0

OperatorRemovesLock ==
    /\ stage = "left" /\ stage' = "idle"
    /\ UNCHANGED <<files, others, cache, prepared, batch, told, bounds, warned>>

\* A call of another tool, or somebody at an editor, changes what else the
\* cache mirrors, between two memory calls.
EditOthers ==
    /\ stage = "idle" /\ edits < MaxEdits /\ edits' = edits + 1
    /\ others' \in Contents \ {others}
    /\ UNCHANGED <<files, cache, prepared, stage, batch, told, ops, harm, crashes, warned>>

HarmCache ==
    /\ harm < MaxHarm /\ harm' = harm + 1
    /\ Cache!Lose \/ Cache!Garble
    /\ UNCHANGED <<files, others, prepared, stage, batch, told, ops, edits, crashes, warned>>

Readable == Loadable(files) /\ others # Invalid

\* importMemory reads and checks before it takes the barrier, perhaps in the
\* middle of another call.
CheckImport ==
    \E b \in Imports \ prepared :
        /\ Readable /\ Importable(files, b)
        /\ prepared' = prepared \cup {b}
        /\ UNCHANGED <<files, others, cache, stage, batch, told, bounds, warned>>

\* A preview ends there; so does an import whose caller dies.
ForgetImport ==
    \E b \in prepared :
        /\ prepared' = prepared \ {b}
        /\ UNCHANGED <<files, others, cache, stage, batch, told, bounds, warned>>

-----------------------------------------------------------------------------
(* Every call: the files are loaded and the cache is brought up to date *)

Begin ==
    /\ stage = "idle"
    /\ IF Readable
       THEN Continue("ensure") /\ start' = files /\ UNCHANGED <<pending, applied>>
       ELSE \E answer \in {"error", "skipped"} : Answer(answer)
    /\ UNCHANGED <<files, others, cache, prepared, bounds, warned>>

\* ensureLocalCache: a healthy cache is kept, any other is rebuilt.
Ensure ==
    /\ stage = "ensure"
    /\ IF Cache!Healthy(Snapshot)
       THEN Continue("checked") /\ UNCHANGED <<cache, batch>>
       ELSE \/ Cache!Replace(Snapshot) /\ Continue("rebuilt") /\ UNCHANGED batch
            \/ Fault("cache") /\ UNCHANGED cache /\ Answer("error")
            \/ Fault("activate") /\ Cache!Replace(Snapshot) /\ Answer("error")
    /\ UNCHANGED <<files, others, prepared, bounds, warned>>

Ready == stage \in {"checked", "rebuilt"}

\* get, list, search and export; validate says what became of the cache; a
\* change is refused.
Read ==
    /\ Ready
    /\ Answer("ok") \/ Answer(stage) \/ Answer("error")
    /\ UNCHANGED <<files, others, cache, prepared, bounds, warned>>

Submit(items) ==
    /\ Ready /\ ops < MaxOps /\ ops' = ops + 1
    /\ pending' = items /\ Continue("publish")
    /\ UNCHANGED <<files, others, cache, start, applied, harm, edits, crashes, warned>>

Store(id, type) ==
    id \notin Named(files) /\ Submit({Record(id, type, {})}) /\ UNCHANGED prepared

Supersede(id, type, target) ==
    /\ target \in ActiveIds(files)
    /\ id \notin Named(files)
    /\ Submit({Record(id, type, {target})}) /\ UNCHANGED prepared

\* Mutant: the file of the record is deleted.
DeleteFile(id, target) ==
    /\ Ready /\ ops < MaxOps /\ ops' = ops + 1
    /\ target \in ActiveIds(files)
    /\ files' = {x \in files : x.id # target}
    /\ Continue("publish")
    /\ UNCHANGED <<others, cache, prepared, batch, warned, harm, edits, crashes>>

Delete(id, target) ==
    /\ target \in ActiveIds(files)
    /\ id \notin Named(files)
    /\ Submit({Tombstone(id, target)}) /\ UNCHANGED prepared

\* Mutant: the check before the barrier is trusted.
ImportTrusting(b) == Submit(b) /\ prepared' = prepared \ {b}
\* The batch is checked once more, against what the files have become.
Import(b) ==
    /\ Importable(files, b)
    /\ Submit(b) /\ prepared' = prepared \ {b}

Change ==
    \/ \E id \in Ids, type \in Types :
           \/ Store(id, type)
           \/ \E target \in Ids : Supersede(id, type, target)
    \/ \E id, target \in Ids : Delete(id, target)
    \/ \E b \in prepared : Import(b)

-----------------------------------------------------------------------------
(* applyBatch: every path is new, so a before-image is no file *)

PublishNext ==
    /\ stage = "publish"
    /\ \E x \in pending :
        /\ IsFirst(x, pending)
        /\ files' = files \cup {x}
        /\ pending' = pending \ {x} /\ applied' = applied \cup {x}
    /\ UNCHANGED <<others, cache, prepared, stage, start, told, bounds, warned>>

\* Mutant: a file counts as applied once it was published.
PublishFailsUnrecorded ==
    /\ stage = "publish"
    /\ \E x \in pending :
        /\ IsFirst(x, pending)
        /\ \/ Fault("before") /\ UNCHANGED files
           \/ Fault("after") /\ files' = files \cup {x}
    /\ stage' = "undo" /\ pending' = {}
    /\ UNCHANGED <<others, cache, prepared, start, applied, told, bounds, warned>>

\* A file counts as applied before it is published: whatever the failure left
\* is removed.
PublishFails ==
    /\ stage = "publish"
    /\ \E x \in pending :
        /\ IsFirst(x, pending)
        /\ \/ Fault("before") /\ UNCHANGED files
           \/ Fault("after") /\ files' = files \cup {x}
        /\ applied' = applied \cup {x}
    /\ stage' = "undo" /\ pending' = {}
    /\ UNCHANGED <<others, cache, prepared, start, told, bounds, warned>>

\* One removal that fails does not keep the others from being tried.
RollBackNext ==
    /\ stage = "undo"
    /\ \E x \in applied :
        /\ IsLast(x, applied)
        /\ applied' = applied \ {x}
        /\ \/ files' = files \ {x} /\ UNCHANGED <<told, warned>>
           \/ /\ Fault("rollback") /\ told' = "inconsistent" /\ warned' = TRUE
              /\ files' \in {files, files \ {x}}
    /\ UNCHANGED <<others, cache, prepared, stage, start, pending, bounds>>

RolledBack ==
    /\ stage = "undo" /\ applied = {}
    /\ Answer(IF told = "none" THEN "error" ELSE told)
    /\ UNCHANGED <<files, others, cache, prepared, bounds, warned>>

\* The files are loaded again before the cache is synchronised: one more than
\* MAX_MEMORY_FILES have been written by then, and the answer is an error.
Reload ==
    /\ stage = "publish" /\ pending = {}
    /\ IF Readable
       THEN Continue("sync") /\ UNCHANGED batch
       ELSE Answer("error")
    /\ UNCHANGED <<files, others, cache, prepared, bounds, warned>>

\* synchronizeLocalCache: the rows are replaced in a transaction ...
Synchronize ==
    /\ stage = "sync"
    /\ \/ cache.file = "filled" /\ Cache!Replace(Snapshot) /\ Answer("ok")
       \/ /\ Fault("cache") \/ cache.file # "filled"
          /\ Cache!Reopen /\ Continue("repair") /\ UNCHANGED batch
    /\ UNCHANGED <<files, others, prepared, bounds, warned>>

\* ... or the database is rebuilt.
Repair ==
    /\ stage = "repair"
    /\ \/ Cache!Replace(Snapshot) /\ Answer("ok")
       \/ Fault("cache") /\ UNCHANGED cache /\ Answer("committed")
       \/ Fault("activate") /\ Cache!Replace(Snapshot) /\ Answer("committed")
    /\ UNCHANGED <<files, others, prepared, bounds, warned>>

\* The process dies; what it wrote stays, and so does the lock directory.  A
\* transaction or a rename on the database happens or does not.
Crash ==
    /\ stage \notin {"idle", "left"} /\ crashes < MaxCrashes
    /\ crashes' = crashes + 1
    /\ stage' = "left" /\ told' = "none"
    /\ start' = {} /\ pending' = {} /\ applied' = {}
    /\ UNCHANGED <<files, others, cache, prepared, ops, harm, edits, warned>>

Step ==
    \/ Begin \/ Ensure \/ Read \/ Change
    \/ PublishNext \/ PublishFails \/ RollBackNext \/ RolledBack
    \/ Reload \/ Synchronize \/ Repair

Next ==
    \/ Step \/ CheckImport \/ ForgetImport
    \/ OperatorRemovesLock \/ EditOthers \/ HarmCache \/ Crash

Spec == Init /\ [][Next]_vars

\* Calls keep coming and run to their end, the operator removes a lock that
\* was left, and the cache can be rebuilt at some time or other.
Fairness ==
    /\ WF_vars(Step) /\ WF_vars(OperatorRemovesLock)
    /\ SF_vars(Ensure /\ Ready')

FairSpec == Spec /\ Fairness
-----------------------------------------------------------------------------
(* Properties *)

TypeOK ==
    /\ files \subseteq Item /\ others \in Contents /\ cache \in Cache!Database
    /\ prepared \subseteq Imports
    /\ stage \in Stages /\ told \in Answers /\ warned \in BOOLEAN
    /\ start \subseteq Item /\ pending \subseteq Item /\ applied \subseteq Item
    /\ stage \in {"idle", "left"} => start = {} /\ pending = {} /\ applied = {}
    /\ crashes \in Nat

\* A call takes effect with the last file of its batch; what a failed
\* roll-back or a dying process leaves counts from then on.
Committed ==
    IF stage = "undo" \/ (stage = "publish" /\ pending # {}) THEN start ELSE files

\* Later calls refuse the files, after a death, a failed roll-back, or when
\* there is one file too many: the limit is checked by the load that follows
\* the publication, and deleting a record would write one file more.
Refused ==
    /\ crashes > 0 \/ warned \/ Cardinality(Committed) > MaxFiles
    /\ ~Loadable(Committed)

\* Every step of the store is a step of MemoryLog, or none.
Log == INSTANCE MemoryLog
    WITH log    <- IF Refused THEN {} ELSE Committed,
         health <- IF Refused THEN "refused" ELSE "sound"
RefinesMemoryLog == Log!Spec

\* Whatever was imported, superseded and deleted, in whatever order the
\* checks outside the barrier ran, the memory can be loaded.
MemoryValid == Log!MemoryValid

\* No item is lost and no retired record becomes active again, whatever fails.
AppendOnly == Log!AppendOnly

\* A call takes back only what it has written itself: what was in the files
\* before it began stays there through a failing batch, its roll-back, also
\* one that fails, and a death, and also while the files are refused, where
\* AppendOnly promises nothing.
Earlier == IF stage \in {"idle", "left"} THEN files ELSE start
TakesBackOnlyItsOwn == [][Earlier \subseteq files']_vars

\* What a call that ends tells its caller.  An error means that nothing was
\* written, unless there is one file too many; "ok" and "committed" mean that
\* the whole batch was, and "ok" that the cache mirrors it.
Answered == stage \notin {"idle", "left"} /\ stage' \in {"idle", "left"}
AnswersTrue ==
    [][Answered =>
          /\ told' = "error" => files' = start \/ Cardinality(files') > MaxFiles
          /\ told' \in {"ok", "committed"} => files' = start \cup applied
          /\ told' = "ok" /\ applied # {} => Cache!Mirrors(Snapshot)']_vars

\* The evidence that validate reports is true: when ensureLocalCache lets a
\* call go on, the rows are those of the canonical files.
EvidenceTrue ==
    [][stage = "ensure" /\ Ready' => Cache!Mirrors(Snapshot)']_vars

\* "The next initialization will retry": the cache catches up with readable
\* files again and again, after every failed repair, damage and death.
CacheCatchesUp == []<>(~Readable \/ Cache!Mirrors(Snapshot))
=============================================================================
