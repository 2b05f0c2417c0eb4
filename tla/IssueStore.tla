----------------------------- MODULE IssueStore -----------------------------
(***************************************************************************)
(* The canonical issue files of extensions/generic-tools/issues.ts and     *)
(* issues-storage.ts.  One public call runs at a time, because it holds    *)
(* the project barrier.  It validates the whole graph, reads it, and       *)
(* publishes a batch of files in path order, without a journal: a failure  *)
(* is rolled back from memory, a death is not.                             *)
(***************************************************************************)
EXTENDS IssueRules

CONSTANTS
    Titles,         \* titles, as numbers in the order of their slugs
    Relationships,  \* the relationships that callers use
    ArchiveFirst,   \* does "archived/" sort before the issue prefix?
    Faults,         \* the kinds of failure the environment may report
    MaxOps,         \* bound: changing calls in a behaviour
    MaxFaults,      \* bound: reported file-system failures in a call
    MaxCrashes      \* bound: process deaths in a behaviour

(***************************************************************************)
(* "before": a publication throws and has changed nothing.  "after": its   *)
(* rename or unlink took effect and the directory fsync throws.            *)
(* "rollback": restoring a before-image throws, with or without effect.    *)
(* "release": the lock directory cannot be removed.                        *)
(***************************************************************************)
FaultKinds == {"before", "after", "rollback", "release"}

ASSUME IssueStoreAssumption ==
    /\ Titles \subseteq Nat
    /\ Relationships \subseteq
           {"depends_on", "blocks", "relates_to", "supersedes"}
    /\ ArchiveFirst \in BOOLEAN
    /\ Faults \subseteq FaultKinds
    /\ MaxOps \in Nat /\ MaxFaults \in Nat /\ MaxCrashes \in Nat

File == [id : Ids, title : Titles, loc : {"active", "archived"}, type : Types,
         parent : Parents, depends : SUBSET Ids, relates : SUBSET Ids,
         supersedes : SUBSET Ids, comments : Nat]

\* A replacement carries its before-image: {} is the absence of the file.
Replacement == [before : SUBSET File, after : SUBSET File]

VARIABLES
    files,    \* the issue files, active and archived
    temp,     \* a publisher temporary is left in an issue directory
    stage,    \* "idle", "publish", "undo", or "left": the barrier has no owner
    pending,  \* replacements of the current batch not yet published
    applied,  \* replacements of the current batch published, or begun
    warned,   \* a caller was told that the files may be inconsistent
    ops, faults, crashes

batch  == <<pending, applied>>
bounds == <<ops, faults, crashes>>
vars   == <<files, temp, stage, batch, warned, bounds>>

-----------------------------------------------------------------------------
(* Paths and batches *)

SamePath(f, g) == f.loc = g.loc /\ f.id = g.id /\ f.title = g.title

PathLess(f, g) ==
    \/ f.loc # g.loc /\ (f.loc = "archived" <=> ArchiveFirst)
    \/ f.loc = g.loc /\ f.id < g.id
    \/ f.loc = g.loc /\ f.id = g.id /\ f.title < g.title

Write(f)  == [before |-> {g \in files : SamePath(f, g)}, after |-> {f}]
Delete(f) == [before |-> {f}, after |-> {}]

IsFirst(r, batchSet) ==
    \A q \in batchSet \ {r} : \A f \in r.before \cup r.after,
        g \in q.before \cup q.after : PathLess(f, g)
IsLast(r, batchSet) ==
    \A q \in batchSet \ {r} : \A f \in r.before \cup r.after,
        g \in q.before \cup q.after : PathLess(g, f)

Fault(kind) == kind \in Faults /\ faults < MaxFaults /\ faults' = faults + 1

\* The end of a call, successful or not.
Release ==
    /\ stage' \in {"idle"} \cup (IF "release" \in Faults THEN {"left"} ELSE {})
    /\ pending' = {} /\ applied' = {} /\ faults' = 0

-----------------------------------------------------------------------------
Init ==
    /\ files = {} /\ temp = FALSE
    /\ stage = "idle" /\ pending = {} /\ applied = {}
    /\ warned = FALSE
    /\ ops = 0 /\ faults = 0 /\ crashes = 0

OperatorRemovesLock ==
    /\ stage = "left" /\ stage' = "idle"
    /\ UNCHANGED <<files, temp, batch, warned, bounds>>

\* Discovery reports a leftover temporary; the graph has to be valid even for
\* a call that only reads.
Refused == temp \/ ~Valid(files)

\* get, list, validate, or a call that is refused.
Read ==
    /\ stage = "idle"
    /\ Release
    /\ UNCHANGED <<files, temp, warned, ops, crashes>>

Submit(replacements) ==
    /\ ops < MaxOps /\ ops' = ops + 1
    /\ pending' = replacements /\ stage' = "publish"
    /\ UNCHANGED <<files, temp, applied, warned, faults, crashes>>

-----------------------------------------------------------------------------
(* The operations *)

Create(id, title, type, parent, depends) ==
    /\ depends \subseteq Named(Active(files))
    /\ \A p \in parent : HasParent(Active(files), p, type)
    /\ id \notin Named(files)
    /\ Submit({Write([id |-> id, title |-> title, loc |-> "active",
                      type |-> type, parent |-> parent, depends |-> depends,
                      relates |-> {}, supersedes |-> {}, comments |-> 0])})

\* A new title is a new path: the new file is written and the old one is
\* deleted, in path order.
Update(f, title, type, parent) ==
    /\ \A p \in parent :
          /\ p # f.id
          /\ HasParent(Active(files), p, type)
          /\ ~Above(files, p, f.id)
    /\ \A c \in Active(files) :
          f.id \in c.parent => type \in AllowedParents[c.type]
    /\ LET next == [f EXCEPT !.title = title, !.type = type, !.parent = parent]
       IN  Submit({Write(next)} \cup (IF SamePath(f, next) THEN {} ELSE {Delete(f)}))

Comment(f) == Submit({Write([f EXCEPT !.comments = @ + 1])})

\* Adds or removes a reference, unless there is nothing to do.
SetDepends(f, id, add) ==
    /\ add # (id \in f.depends)
    /\ Submit({Write([f EXCEPT !.depends = IF add THEN @ \cup {id} ELSE @ \ {id}])})
SetRelates(f, id, add) ==
    /\ add # (id \in f.relates)
    /\ Submit({Write([f EXCEPT !.relates = IF add THEN @ \cup {id} ELSE @ \ {id}])})
SetSupersedes(f, id, add) ==
    /\ add # (id \in f.supersedes)
    /\ Submit({Write([f EXCEPT !.supersedes = IF add THEN @ \cup {id} ELSE @ \ {id}])})

\* relate and unrelate; blocks is stored at the target, a symmetric relation
\* at the smaller identity.
Relationship(f, relationship, g, add) ==
    /\ f.id # g.id
    /\ \/ relationship = "blocks" /\ SetDepends(g, f.id, add)
       \/ /\ relationship = "relates_to"
          /\ IF f.id < g.id THEN SetRelates(f, g.id, add)
                            ELSE SetRelates(g, f.id, add)
       \/ /\ relationship = "depends_on"
          /\ ~(add /\ DependsOn(files, g.id, f.id))
          /\ SetDepends(f, g.id, add)
       \/ relationship = "supersedes" /\ SetSupersedes(f, g.id, add)

\* Mutant: the descendants stay where they are.
ArchiveAlone(f) ==
    Submit({Write([f EXCEPT !.loc = "archived", !.parent = {}]), Delete(f)})

\* The active issues of a subtree, each written to the archive and deleted;
\* an archived root is skipped (Read).
Archive(f) ==
    LET S == Subtree(files, f.id) \cap Named(Active(files))
        moved == {g \in files : g.id \in S}
    IN  Submit({Write([g EXCEPT !.loc = "archived", !.parent = @ \cap S]) : g \in moved}
                   \cup {Delete(g) : g \in moved})

Operation ==
    /\ stage = "idle" /\ ~Refused
    /\ \/ \E id \in Ids, title \in Titles, type \in Types, parent \in Parents,
             depends \in SUBSET Ids : Create(id, title, type, parent, depends)
       \/ \E f \in Active(files) :
             \/ \E title \in Titles, type \in Types, parent \in Parents :
                    Update(f, title, type, parent)
             \/ Comment(f) \/ Archive(f)
             \/ \E relationship \in Relationships, g \in Active(files),
                   add \in BOOLEAN : Relationship(f, relationship, g, add)

-----------------------------------------------------------------------------
(* applyIssueFileBatch and publishReplacement *)

Apply(r)   == files' = (files \ r.before) \cup r.after
\* Mutant: what was published goes, the before-image is forgotten.
UnapplyPublished(r) == files' = files \ r.after
Unapply(r) == files' = (files \ r.after) \cup r.before

PublishNext ==
    /\ stage = "publish"
    /\ \E r \in pending :
        /\ IsFirst(r, pending)
        /\ Apply(r)
        /\ pending' = pending \ {r}
        /\ applied' = applied \cup {r}
    /\ UNCHANGED <<temp, stage, warned, bounds>>

\* Mutant: a replacement counts as applied once it was published.
PublishFailsUnrecorded ==
    /\ stage = "publish"
    /\ \E r \in pending :
        /\ IsFirst(r, pending)
        /\ \/ Fault("before") /\ UNCHANGED files
           \/ Fault("after") /\ Apply(r)
    /\ stage' = "undo" /\ pending' = {}
    /\ UNCHANGED <<temp, applied, warned, ops, crashes>>

\* A replacement counts as applied before it is published: whatever it did
\* before it failed is rolled back.
PublishFails ==
    /\ stage = "publish"
    /\ \E r \in pending :
        /\ IsFirst(r, pending)
        /\ \/ Fault("before") /\ UNCHANGED files
           \/ Fault("after") /\ Apply(r)
        /\ applied' = applied \cup {r}
    /\ stage' = "undo" /\ pending' = {}
    /\ UNCHANGED <<temp, warned, ops, crashes>>

RollBackNext ==
    /\ stage = "undo"
    /\ \E r \in applied :
        /\ IsLast(r, applied)
        /\ applied' = applied \ {r}
        /\ \/ Unapply(r) /\ UNCHANGED <<warned, faults>>
           \/ /\ Fault("rollback") /\ warned' = TRUE
              /\ UNCHANGED files \/ Unapply(r)
    /\ UNCHANGED <<temp, stage, pending, ops, crashes>>

\* The files are read back and the cache is synchronised, which may fail
\* without a consequence for the files; the barrier is released.
Finish ==
    /\ \/ stage = "publish" /\ pending = {}
       \/ stage = "undo" /\ applied = {}
    /\ Release
    /\ UNCHANGED <<files, temp, warned, ops, crashes>>

\* The process dies inside a batch; the lock directory stays behind, and
\* perhaps the temporary of the file that was being written.
Writing ==
    \/ stage = "publish" /\ \E r \in pending : IsFirst(r, pending) /\ r.after # {}
    \/ stage = "undo" /\ \E r \in applied : IsLast(r, applied) /\ r.before # {}
Crash ==
    /\ stage \in {"publish", "undo"} /\ crashes < MaxCrashes
    /\ crashes' = crashes + 1
    /\ stage' = "left" /\ pending' = {} /\ applied' = {} /\ faults' = 0
    /\ temp' \in {temp, temp \/ Writing}
    /\ UNCHANGED <<files, warned, ops>>

Next ==
    \/ OperatorRemovesLock \/ Read \/ Operation
    \/ PublishNext \/ PublishFails \/ RollBackNext \/ Finish
    \/ Crash

Spec == Init /\ [][Next]_vars
-----------------------------------------------------------------------------
(* Properties *)

TypeOK ==
    /\ files \subseteq File
    /\ temp \in BOOLEAN /\ warned \in BOOLEAN
    /\ stage \in {"idle", "publish", "undo", "left"}
    /\ pending \subseteq Replacement /\ applied \subseteq Replacement
    /\ stage \in {"idle", "left"} => pending = {} /\ applied = {}
    /\ ops \in Nat /\ faults \in Nat /\ crashes \in Nat

\* A call takes effect with the last file of its batch; until then, and when
\* it fails, what counts are the before-images.
Committed ==
    IF stage = "publish" /\ pending = {} THEN files
    ELSE (files \ UNION {r.after : r \in applied})
             \cup UNION {r.before : r \in applied}

\* blocks is used only where depends_on would be accepted.
BlocksSpareCycles ==
    stage = "idle" =>
        \A r \in pending' : \A f \in r.before, next \in r.after :
            \A id \in next.depends \ f.depends : ~DependsOn(files, id, f.id)

\* A process dies anywhere but where an issue is deleted and not yet written
\* again: such a death loses the issue (see README).
CrashesSpareIssues ==
    crashes' # crashes => Named(Committed) \subseteq Named(files)

\* A failed roll-back tells its caller; partial files of a dead call are
\* reported by every later call.
Reported == warned \/ (crashes > 0 /\ (temp \/ ~Valid(Committed)))

IssueOf(f) ==
    [id |-> f.id, loc |-> f.loc, type |-> f.type, parent |-> f.parent,
     depends |-> f.depends, relates |-> f.relates,
     supersedes |-> f.supersedes, comments |-> f.comments]

\* Every step of the store is a step of IssueGraph, or none.
Graph == INSTANCE IssueGraph
    WITH issues <- IF Reported THEN {} ELSE {IssueOf(f) : f \in Committed},
         health <- IF Reported THEN "reported"
                   ELSE IF crashes > 0 THEN "harmed" ELSE "sound"
RefinesIssueGraph == Graph!Spec

\* The state is well typed, and no sequence of calls, failures and deaths makes
\* the graph invalid without a report: every later call would refuse it, the repairing ones included.
GraphValid == TypeOK /\ Graph!GraphValid

\* No sequence of calls stores a dependency cycle.
DependenciesAcyclic == Graph!DependenciesAcyclic

\* An archived issue has no active descendants, so that archive may skip it.
FamiliesTogether == Graph!FamiliesTogether

\* Whatever fails or dies, no issue and no comment is lost unreported.
NothingLost == Graph!NothingLost
=============================================================================
