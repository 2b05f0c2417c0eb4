--------------------------- MODULE DocumentStore ---------------------------
(***************************************************************************)
(* The canonical document store of extensions/generic-tools/documents.ts,  *)
(* with the batch publisher of local-persistence.ts it is built on: the    *)
(* Markdown files of every lineage, the move journal and its backups, the  *)
(* publisher's temporary files, the project barrier and the links issues   *)
(* hold to active documents.                                               *)
(*                                                                         *)
(* One public call runs at a time, because it holds the barrier.  The call *)
(* is split at every durable effect, so that it can die (Crash) or see a   *)
(* reported file-system failure (see Faults) between any two of them.      *)
(***************************************************************************)
EXTENDS DocumentRules, FiniteSets

CONSTANTS
    MaxFaults,    \* bound: reported file-system failures in a behaviour
    MaxCrashes,   \* bound: process deaths inside a call
    MaxLinks,     \* bound: document links added to issues
    Faults,       \* the kinds of failure the environment may report
    NoJournal     \* the absence of a journal

(***************************************************************************)
(* The kinds of reported failure.  "before": a publication throws and has  *)
(* changed nothing.  "after": the rename or the unlink took effect and the *)
(* directory fsync that follows it throws.  "rollback": restoring a        *)
(* before-image throws and has changed nothing.  "cache": the SQLite       *)
(* synchronisation and the rebuild both fail.  "release": the lock         *)
(* directory cannot be removed.                                            *)
(***************************************************************************)
FaultKinds == {"before", "after", "rollback", "cache", "release"}

File    == [loc : Locations \cup {"backup"}, doc : Docs, ver : Versions,
            title : Titles, rev : Revisions]
Entry   == [ver : Versions, title : Titles, rev : Revisions]
Journal == [doc : Docs, source : Locations, destination : Locations,
            entries : SUBSET Entry]
Link    == [doc : Docs, ver : Versions, title : Titles]

\* A replacement carries its before-image: {} is the absence of the file.
Replacement == [before : SUBSET File, after : SUBSET File]

ASSUME DocumentStoreAssumption ==
    /\ MaxFaults \in Nat /\ MaxCrashes \in Nat /\ MaxLinks \in Nat
    /\ Faults \subseteq FaultKinds
    /\ NoJournal \notin Journal

VARIABLES
    files,       \* the Markdown files: active, archive and journal backups
    temps,       \* directories that hold a leftover publisher temporary
    journal,     \* .control/transaction.json
    links,       \* active document paths that canonical issues link
    cacheFresh,  \* the SQLite cache mirrors the canonical files
    barrier,     \* the lock directory: "free", "held", "left" behind
    stage,       \* where the running call is; "idle" when there is none
    mode,        \* why a stage runs: "recovery", "operation", "failure"
    plan,        \* the journal value the running call has in memory
    pending,     \* replacements of the current batch not yet published
    applied,     \* replacements of the current batch already published
    undoing,     \* the current batch is being rolled back
    nextRev,     \* the next content to be written
    faults, crashes

disk    == <<files, temps, journal>>
batch   == <<pending, applied, undoing>>
control == <<barrier, stage, mode, plan>>
bounds  == <<nextRev, faults, crashes>>
vars    == <<disk, links, cacheFresh, control, batch, bounds>>

BatchStages == {"orphans", "restore", "backups", "move", "unbackup",
                "discard", "mutate"}
Stages == BatchStages \cup
          {"idle", "recover", "temps", "ready", "journal", "unjournal", "sync"}
Directories == {"active", "archive", "control", "backup"}

-----------------------------------------------------------------------------
(* Paths, lineages and the snapshot *)

At(e, d, l) == [loc |-> l, doc |-> d, ver |-> e.ver,
                title |-> e.title, rev |-> e.rev]
EntryOf(f)  == [ver |-> f.ver, title |-> f.title, rev |-> f.rev]
LinkOf(f)   == [doc |-> f.doc, ver |-> f.ver, title |-> f.title]

\* A backup is named by its position in the lineage, a document by identity,
\* title and version.
SamePath(f, g) ==
    /\ f.loc = g.loc
    /\ f.ver = g.ver
    /\ f.loc = "backup" \/ (f.doc = g.doc /\ f.title = g.title)

\* Batches are sorted by path; "archive/..." sorts before "doc-...".
Rank(l) == CASE l = "archive" -> 0 [] l = "active" -> 1 [] OTHER -> 2
PathLess(f, g) ==
    \/ Rank(f.loc) < Rank(g.loc)
    \/ f.loc = g.loc /\ f.title < g.title
    \/ f.loc = g.loc /\ f.title = g.title /\ f.ver < g.ver

Backups(fs)    == {f \in fs : f.loc = "backup"}
Documents(fs)  == {f \in fs : f.loc \in Locations}
Lineage(fs, d) == {f \in Documents(fs) : f.doc = d}

\* validateLineage: one location, versions 1..n, each of them once.
Coherent(lineage) ==
    /\ \A f, g \in lineage : f.loc = g.loc /\ (f.ver = g.ver => f = g)
    /\ \A f \in lineage : \A v \in 1..f.ver : \E g \in lineage : g.ver = v
SnapshotValid(fs) == \A d \in Docs : Coherent(Lineage(fs, d))

\* The part of the issue graph that speaks of documents.
LinksValid(fs) ==
    \A l \in links : \E f \in fs : f.loc = "active" /\ LinkOf(f) = l

\* The newest version of a lineage.
Current(lineage, f) == f \in lineage /\ \A g \in lineage : g.ver <= f.ver

\* The files once the journaled move j is rolled back.
Recovered(j, fs) ==
    (fs \ {At(e, j.doc, j.destination) : e \in j.entries})
        \cup {At(e, j.doc, j.source) : e \in j.entries}

\* Mutant: recovery expects the move not to have begun.
JournalUnmoved(j) ==
    \A e \in j.entries :
        /\ At(e, j.doc, "backup") \in files
        /\ \A f \in files : ~SamePath(f, At(e, j.doc, j.destination))

\* Every backup is present with the journaled bytes; source and destination
\* are absent or still hold the journaled bytes.
JournalVerified(j) ==
    \A e \in j.entries :
        /\ At(e, j.doc, "backup") \in files
        /\ \A l \in {j.source, j.destination}, f \in files :
               SamePath(f, At(e, j.doc, l)) => f.rev = e.rev

-----------------------------------------------------------------------------
(* Replacements *)

Write(f)  == [before |-> {g \in files : SamePath(f, g)}, after |-> {f}]
Delete(f) == [before |-> {f}, after |-> {}]

IsFirst(r, batchSet) ==
    \A q \in batchSet \ {r} : \A f \in r.before \cup r.after,
        g \in q.before \cup q.after : PathLess(f, g)
IsLast(r, batchSet) ==
    \A q \in batchSet \ {r} : \A f \in r.before \cup r.after,
        g \in q.before \cup q.after : PathLess(g, f)

TouchesDocuments(r) == Documents(r.before) # Documents(r.after)

BackupDeletes(j) == {Delete(At(e, j.doc, "backup")) : e \in j.entries}
BackupWrites(j)  == {Write(At(e, j.doc, "backup")) : e \in j.entries}
MoveReplacements(j) ==
    {Write(At(e, j.doc, j.destination)) : e \in j.entries}
        \cup {Delete(At(e, j.doc, j.source)) : e \in j.entries}
\* Mutants: what the move published stays; a source is expected to be absent.
RestoreSourcesOnly(j) == {Write(At(e, j.doc, j.source)) : e \in j.entries}
RestoreAbsentSources(j) ==
    {[before |-> {}, after |-> {At(e, j.doc, j.source)}] : e \in j.entries}
        \cup {Delete(f) : f \in {At(e, j.doc, j.destination) : e \in j.entries}
                                  \cap files}

RestoreReplacements(j) ==
    {Write(At(e, j.doc, j.source)) : e \in j.entries}
        \cup {Delete(f) : f \in {At(e, j.doc, j.destination) : e \in j.entries}
                                  \cap files}

-----------------------------------------------------------------------------
(* Failures *)

Fault(kind) == kind \in Faults /\ faults < MaxFaults /\ faults' = faults + 1

\* synchronizeLocalCache and ensureLocalCache
SyncOutcomes == {TRUE} \cup (IF "cache" \in Faults THEN {FALSE} ELSE {})

\* The end of a call, successful or not: the barrier is released and the
\* values the call held in memory are gone.
EndCall ==
    /\ stage' = "idle"
    /\ mode' = "recovery"
    /\ plan' = NoJournal
    /\ pending' = {} /\ applied' = {} /\ undoing' = FALSE
Release ==
    /\ EndCall
    /\ barrier' \in {"free"} \cup (IF "release" \in Faults THEN {"left"} ELSE {})

-----------------------------------------------------------------------------
Init ==
    /\ files = {} /\ temps = {} /\ journal = NoJournal
    /\ links = {}
    /\ cacheFresh = FALSE
    /\ barrier = "free" /\ stage = "idle" /\ mode = "recovery"
    /\ plan = NoJournal
    /\ pending = {} /\ applied = {} /\ undoing = FALSE
    /\ nextRev = 1 /\ faults = 0 /\ crashes = 0

\* A public document call acquires the barrier; recovery comes first.
Begin ==
    /\ stage = "idle" /\ barrier = "free"
    /\ barrier' = "held" /\ stage' = "recover"
    /\ UNCHANGED <<disk, links, cacheFresh, mode, plan, batch, bounds>>

\* The lock directory has no owner metadata: an operator removes it, having
\* made sure that no live call owns it.
OperatorRemovesLock ==
    /\ barrier = "left" /\ stage = "idle"
    /\ barrier' = "free"
    /\ UNCHANGED <<disk, links, cacheFresh, stage, mode, plan, batch, bounds>>

-----------------------------------------------------------------------------
(* recoverDocumentTransaction *)

RecoverNothing ==
    /\ stage = "recover" /\ journal = NoJournal
    /\ LinksValid(files)
    /\ temps = {} /\ Backups(files) = {}
    /\ stage' = "ready" /\ mode' = "operation"
    /\ UNCHANGED <<disk, links, cacheFresh, barrier, plan, batch, bounds>>

\* Mutant: orphaned backups are left alone.
RecoverTempsOnly ==
    /\ stage = "recover" /\ journal = NoJournal
    /\ LinksValid(files) /\ SnapshotValid(files)
    /\ temps # {} \/ Backups(files) # {}
    /\ stage' = "temps"
    /\ pending' = {}
    /\ UNCHANGED <<disk, links, cacheFresh, barrier, mode, plan, applied,
                   undoing, bounds>>

RecoverLeftovers ==
    /\ stage = "recover" /\ journal = NoJournal
    /\ LinksValid(files) /\ SnapshotValid(files)
    /\ temps # {} \/ Backups(files) # {}
    /\ stage' = "temps"
    /\ pending' = {Delete(b) : b \in Backups(files)}
    /\ UNCHANGED <<disk, links, cacheFresh, barrier, mode, plan, applied,
                   undoing, bounds>>

RecoverMove ==
    /\ stage = "recover" /\ journal # NoJournal
    /\ JournalVerified(journal)
    /\ LinksValid(Recovered(journal, files))
    /\ SnapshotValid(Recovered(journal, files))
    /\ stage' = "temps"
    /\ plan' = journal
    /\ pending' = RestoreReplacements(journal)
    /\ UNCHANGED <<disk, links, cacheFresh, barrier, mode, applied, undoing,
                   bounds>>

\* The checks of recovery refuse the state on disk: the call fails.
RecoveryRefused ==
    /\ stage = "recover"
    /\ \/ journal = NoJournal /\ ~LinksValid(files)
       \/ /\ journal = NoJournal /\ (temps # {} \/ Backups(files) # {})
          /\ ~SnapshotValid(files)
       \/ journal # NoJournal /\ ~JournalVerified(journal)
       \/ journal # NoJournal /\ ~LinksValid(Recovered(journal, files))
       \/ journal # NoJournal /\ ~SnapshotValid(Recovered(journal, files))
    /\ Release
    /\ UNCHANGED <<disk, links, cacheFresh, bounds>>

\* Deleting the temporaries is a batch of its own, taken as one step: a
\* failure rolls it back, except for the deletion that failed after unlink.
RemoveTemps ==
    /\ stage = "temps"
    /\ temps' = {}
    /\ stage' = IF journal = NoJournal THEN "orphans" ELSE "restore"
    /\ UNCHANGED <<files, journal, links, cacheFresh, barrier, mode, plan,
                   batch, bounds>>

RemoveTempsFails ==
    /\ stage = "temps" /\ temps # {}
    /\ \/ Fault("before") /\ UNCHANGED temps
       \/ Fault("after") /\ \E t \in temps : temps' = temps \ {t}
    /\ Release
    /\ UNCHANGED <<files, journal, links, cacheFresh, nextRev, crashes>>

-----------------------------------------------------------------------------
(* applyCanonicalFileBatch and publishCanonicalFile *)

Apply(r) == files' = (files \ r.before) \cup r.after
Unapply(r) == files' = (files \ r.after) \cup r.before

PublishNext ==
    /\ stage \in BatchStages /\ ~undoing
    /\ \E r \in pending :
        /\ IsFirst(r, pending)
        /\ Apply(r)
        /\ pending' = pending \ {r}
        /\ applied' = applied \cup {r}
        /\ cacheFresh' = (cacheFresh /\ ~TouchesDocuments(r))
    /\ UNCHANGED <<temps, journal, links, control, undoing, bounds>>

\* The failed replacement is not among the applied ones: a failure after the
\* effect is not rolled back.
PublishFails ==
    /\ stage \in BatchStages /\ ~undoing
    /\ \E r \in pending :
        /\ IsFirst(r, pending)
        /\ \/ Fault("before") /\ UNCHANGED <<files, cacheFresh>>
           \/ /\ Fault("after") /\ Apply(r)
              /\ cacheFresh' = (cacheFresh /\ ~TouchesDocuments(r))
    /\ undoing' = TRUE /\ pending' = {}
    /\ UNCHANGED <<temps, journal, links, control, applied, nextRev, crashes>>

RollBackNext ==
    /\ undoing
    /\ \E r \in applied :
        /\ IsLast(r, applied)
        /\ applied' = applied \ {r}
        /\ \/ Unapply(r) /\ UNCHANGED faults
           \/ Fault("rollback") /\ UNCHANGED files
    /\ UNCHANGED <<temps, journal, links, cacheFresh, control, pending,
                   undoing, nextRev, crashes>>

\* A failed batch fails its call; a failed move removes its journal first,
\* whether or not the rollback worked.
RollBackDone ==
    /\ undoing /\ applied = {}
    /\ \/ /\ stage = "move"
          /\ stage' = "unjournal" /\ mode' = "failure" /\ undoing' = FALSE
          /\ UNCHANGED <<barrier, plan, pending, applied>>
       \/ stage # "move" /\ Release
    /\ UNCHANGED <<disk, links, cacheFresh, bounds>>

BatchDone ==
    /\ stage \in BatchStages /\ ~undoing /\ pending = {}
    /\ applied' = {}
    /\ UNCHANGED <<disk, links, cacheFresh, pending, undoing, bounds>>

-----------------------------------------------------------------------------
(* What follows a completed batch *)

RecoveryDone ==
    /\ BatchDone
    /\ stage = "orphans" \/ (stage = "unbackup" /\ mode = "recovery")
    /\ stage' = "ready" /\ mode' = "operation" /\ plan' = NoJournal
    /\ UNCHANGED barrier

BackupsDone ==
    /\ BatchDone /\ stage = "backups"
    /\ stage' = "journal"
    /\ UNCHANGED <<barrier, mode, plan>>

MoveDone ==
    /\ BatchDone /\ stage \in {"move", "restore"}
    /\ stage' = "unjournal"
    /\ UNCHANGED <<barrier, mode, plan>>

MutationDone ==
    /\ BatchDone
    /\ stage = "mutate" \/ (stage = "unbackup" /\ mode = "operation")
    /\ stage' = "sync"
    /\ UNCHANGED <<barrier, mode, plan>>

FailureDone ==
    /\ stage = "discard" \/ (stage = "unbackup" /\ mode = "failure")
    /\ ~undoing /\ pending = {}
    /\ Release
    /\ UNCHANGED <<disk, links, cacheFresh, bounds>>

-----------------------------------------------------------------------------
(* startMoveJournal and cleanupMoveJournal *)

WriteJournal ==
    /\ stage = "journal"
    /\ journal' = plan
    /\ pending' = MoveReplacements(plan)
    /\ stage' = "move"
    /\ UNCHANGED <<files, temps, links, cacheFresh, barrier, mode, plan,
                   applied, undoing, bounds>>

\* The backups are discarded, even when the journal was renamed into place.
WriteJournalFails ==
    /\ stage = "journal"
    /\ \/ Fault("before") /\ UNCHANGED journal
       \/ Fault("after") /\ journal' = plan
    /\ pending' = BackupDeletes(plan)
    /\ stage' = "discard" /\ mode' = "failure"
    /\ UNCHANGED <<files, temps, links, cacheFresh, barrier, plan, applied,
                   undoing, nextRev, crashes>>

\* Mutant: the backups are deleted while the journal still names them.
RemoveBackupsFirst ==
    /\ stage = "unjournal"
    /\ pending' = BackupDeletes(plan)
    /\ stage' = "discard" /\ mode' = "failure"
    /\ UNCHANGED <<disk, links, cacheFresh, barrier, plan, applied, undoing,
                   bounds>>

RemoveJournal ==
    /\ stage = "unjournal"
    /\ journal' = NoJournal
    /\ pending' = BackupDeletes(plan)
    /\ stage' = "unbackup"
    /\ UNCHANGED <<files, temps, links, cacheFresh, barrier, mode, plan,
                   applied, undoing, bounds>>

RemoveJournalFails ==
    /\ stage = "unjournal"
    /\ \/ Fault("before") /\ UNCHANGED journal
       \/ Fault("after") /\ journal' = NoJournal
    /\ Release
    /\ UNCHANGED <<files, temps, links, cacheFresh, nextRev, crashes>>

-----------------------------------------------------------------------------
(* The operations, once recovery is done *)

Ready == stage = "ready" /\ SnapshotValid(files)

\* The arguments are refused (unknown identity, stale revision, a limit), or
\* the snapshot is invalid.
Reject ==
    /\ stage = "ready"
    /\ Release
    /\ UNCHANGED <<disk, links, cacheFresh, bounds>>

Get ==
    /\ Ready
    /\ Release
    /\ cacheFresh' \in IF cacheFresh THEN {TRUE} ELSE SyncOutcomes
    /\ UNCHANGED <<disk, links, bounds>>

Mutate(replacements) ==
    /\ nextRev <= MaxRevision
    /\ nextRev' = nextRev + 1
    /\ pending' = replacements
    /\ stage' = "mutate"
    /\ UNCHANGED <<disk, links, cacheFresh, barrier, mode, plan, applied,
                   undoing, faults, crashes>>

Create(d, t) ==
    /\ Ready
    /\ Lineage(files, d) = {}
    /\ Mutate({Write([loc |-> "active", doc |-> d, ver |-> 1, title |-> t,
                      rev |-> nextRev])})

\* Same title: the file is overwritten.  New title: the new path is written
\* and the old one deleted, in path order.
Update(f, t) ==
    /\ Ready
    /\ f.loc = "active" /\ Current(Lineage(files, f.doc), f)
    /\ t # f.title => LinkOf(f) \notin links /\ LinksValid(files)
    /\ Mutate({Write([f EXCEPT !.title = t, !.rev = nextRev])}
              \cup (IF t = f.title THEN {} ELSE {Delete(f)}))

\* Mutant: the limit on versions is not enforced.
VersionUnlimited(f, t) ==
    /\ Ready
    /\ f.loc = "active" /\ Current(Lineage(files, f.doc), f)
    /\ Mutate({Write([f EXCEPT !.ver = @ + 1, !.title = t, !.rev = nextRev])})

Version(f, t) ==
    /\ Ready
    /\ f.loc = "active" /\ Current(Lineage(files, f.doc), f)
    /\ f.ver < MaxVersion
    /\ Mutate({Write([f EXCEPT !.ver = @ + 1, !.title = t, !.rev = nextRev])})

\* Mutant: links of active issues are not looked at.
MoveLinked(d, source, destination) ==
    /\ Ready /\ source # destination
    /\ Lineage(files, d) # {}
    /\ \A f \in Lineage(files, d) : f.loc = source
    /\ LET move == [doc |-> d, source |-> source, destination |-> destination,
                    entries |-> {EntryOf(f) : f \in Lineage(files, d)}]
       IN  plan' = move /\ pending' = BackupWrites(move)
    /\ stage' = "backups"
    /\ UNCHANGED <<disk, links, cacheFresh, barrier, mode, applied, undoing,
                   bounds>>

Move(d, source, destination) ==
    /\ Ready /\ source # destination
    /\ Lineage(files, d) # {}
    /\ \A f \in Lineage(files, d) : f.loc = source
    /\ destination = "archive" =>
           LinksValid(files) /\ \A f \in Lineage(files, d) : LinkOf(f) \notin links
    /\ LET move == [doc |-> d, source |-> source, destination |-> destination,
                    entries |-> {EntryOf(f) : f \in Lineage(files, d)}]
       IN  plan' = move /\ pending' = BackupWrites(move)
    /\ stage' = "backups"
    /\ UNCHANGED <<disk, links, cacheFresh, barrier, mode, applied, undoing,
                   bounds>>

Operation ==
    \/ Get \/ Reject
    \/ \E d \in Docs, t \in Titles : Create(d, t)
    \/ \E f \in Documents(files), t \in Titles : Update(f, t) \/ Version(f, t)
    \/ \E d \in Docs, s, l \in Locations : Move(d, s, l)

\* synchronizeLocalCache: its failure is reported, the canonical files stay.
Synchronize ==
    /\ stage = "sync"
    /\ cacheFresh' \in SyncOutcomes
    /\ Release
    /\ UNCHANGED <<disk, links, bounds>>

-----------------------------------------------------------------------------
(* The other actors *)

\* issue_link_document: a whole issue call under the same barrier.  It needs
\* a loadable snapshot, not the absence of a journal.
IssueLink(f) ==
    /\ stage = "idle" /\ barrier = "free"
    /\ Cardinality(links) < MaxLinks
    /\ LinksValid(files) /\ SnapshotValid(files)
    /\ temps \cap Locations = {}
    /\ f.loc = "active"
    /\ links' = links \cup {LinkOf(f)}
    /\ cacheFresh' \in SyncOutcomes
    /\ UNCHANGED <<disk, control, batch, bounds>>

\* Where a publisher temporary may be left: the directory of the file the
\* call is about to write.
TempCandidates ==
    LET written  == UNION {r.after : r \in pending}
        restored == UNION {r.before : r \in {q \in applied : undoing}}
    IN  {f.loc : f \in written \cup restored}
            \cup {l \in {"control"} : stage = "journal"}

\* The process dies inside a call; the lock directory stays behind.
Crash ==
    /\ stage # "idle" /\ crashes < MaxCrashes
    /\ crashes' = crashes + 1
    /\ EndCall /\ barrier' = "left"
    /\ IF stage = "temps" THEN temps' \in SUBSET temps
       ELSE \/ UNCHANGED temps
            \/ \E t \in TempCandidates : temps' = temps \cup {t}
    /\ UNCHANGED <<files, journal, links, cacheFresh, nextRev, faults>>

Recovery == RecoverNothing \/ RecoverLeftovers \/ RecoverMove
            \/ RecoveryRefused \/ RemoveTemps \/ RecoveryDone
Batch    == PublishNext \/ RollBackNext \/ RollBackDone
Progress == BackupsDone \/ MoveDone \/ MutationDone \/ FailureDone
            \/ WriteJournal \/ RemoveJournal \/ Operation \/ Synchronize
Failing  == PublishFails \/ RemoveTempsFails \/ WriteJournalFails
            \/ RemoveJournalFails

Next ==
    \/ Begin \/ OperatorRemovesLock
    \/ Recovery \/ Batch \/ Progress \/ Failing
    \/ \E f \in Documents(files) : IssueLink(f)
    \/ Crash

Spec == Init /\ [][Next]_vars

(***************************************************************************)
(* A call is straight-line synchronous code, so a live process takes its   *)
(* next step; document calls keep coming, and an operator removes a lock   *)
(* that a dead call left behind.                                           *)
(***************************************************************************)
Fairness ==
    /\ WF_vars(Recovery) /\ WF_vars(Batch) /\ WF_vars(Progress)
    /\ WF_vars(Begin) /\ WF_vars(OperatorRemovesLock)
FairSpec == Spec /\ Fairness

\* A process dies anywhere but within a batch that changes a title: that batch
\* has no journal, and such a death loses its atomicity (see README).
CrashesSpareRenames ==
    crashes' # crashes =>
        (stage = "mutate" /\ applied # {} => pending = {} /\ ~undoing)
SparedSpec == Init /\ [][Next /\ CrashesSpareRenames]_vars /\ Fairness
-----------------------------------------------------------------------------
(* Properties *)

TypeOK ==
    /\ files \subseteq File
    /\ temps \subseteq Directories
    /\ journal \in Journal \cup {NoJournal}
    /\ links \subseteq Link
    /\ cacheFresh \in BOOLEAN
    /\ barrier \in {"free", "held", "left"}
    /\ stage \in Stages
    /\ mode \in {"recovery", "operation", "failure"}
    /\ plan \in Journal \cup {NoJournal}
    /\ pending \subseteq Replacement /\ applied \subseteq Replacement
    /\ undoing \in BOOLEAN
    /\ nextRev \in Nat \ {0} /\ faults \in Nat /\ crashes \in Nat

\* The lineages a caller may rely on: a journaled move has not happened until
\* its journal is removed, and a mutation has not until its last file is out.
Committed ==
    LET uncommitted == IF stage = "mutate" /\ (undoing \/ pending # {})
                       THEN applied ELSE {}
        settled == (Documents(files) \ UNION {r.after : r \in uncommitted})
                       \cup UNION {r.before : r \in uncommitted}
    IN  IF journal = NoJournal THEN settled
        ELSE (settled \ Lineage(settled, journal.doc))
                 \cup {At(e, journal.doc, journal.source) : e \in journal.entries}

\* As long as a journal is on disk, its backups and both locations agree with
\* it, so recovery never refuses it for what the store itself did.
JournalBacked == journal # NoJournal => JournalVerified(journal)

\* When no call runs and no move is interrupted, every document an issue
\* links is an active document.
LinksResolve == stage = "idle" /\ journal = NoJournal => LinksValid(files)

\* An operation runs on a recovered store: no journal, backup or temporary is
\* left.  (startMoveJournal would take a leftover backup for its own.)
StartsClean ==
    stage = "ready" => journal = NoJournal /\ temps = {} /\ Backups(files) = {}

\* What a batch assumed of a file when it was built holds until the file is
\* published: a multi-file batch does not trip over its own expectations.
ExpectationsHold ==
    \A r \in pending : \A f \in r.before \cup r.after :
        {g \in files : SamePath(f, g)} = r.before

\* Every step of the store is a step of LineageStore on the committed
\* documents, or none.
Lineages == INSTANCE LineageStore WITH documents <- Committed
RefinesLineageStore == Lineages!Spec

\* A move that was interrupted is resolved, one way or the other.
RecoveryCompletes == journal # NoJournal ~> journal = NoJournal
=============================================================================
