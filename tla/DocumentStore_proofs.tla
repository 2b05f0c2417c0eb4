------------------------ MODULE DocumentStore_proofs ------------------------
(***************************************************************************)
(* Proofs about DocumentStore.  Under every failure and death: its         *)
(* variables keep their types, every operation starts on a store that      *)
(* recovery has left clean, a batch finds the files it expects, and links  *)
(* stay resolved.  Short of the failures that the code does not undo: a    *)
(* journal on disk is backed by its files, and the store implements        *)
(* LineageStore, whose own promises the last section proves.               *)
(***************************************************************************)
EXTENDS DocumentStore, TLAPS

(* The backups that journal value j names. *)
BackupsOf(j) == {At(e, j.doc, "backup") : e \in j.entries}

(* Stages at which the call holds a journal value, and stages at which no  *)
(* journal can be on disk.                                                 *)
Planned     == {"restore", "backups", "journal", "move", "unjournal", "discard"}
Unjournaled == {"orphans", "unbackup", "ready", "backups", "journal",
                "mutate", "sync"}

(* A stage that works on a journal value has one. *)
PlanHeld ==
    stage \in Planned \/ (stage = "temps" /\ journal # NoJournal) => plan # NoJournal

TempsGone == stage \notin {"idle", "recover", "temps"} => temps = {}

NoneApplied == stage \notin BatchStages => applied = {}

JournalGone == stage \in Unjournaled => journal = NoJournal

(* A backup on disk belongs to the journal on disk. *)
BackupsJournaled == journal # NoJournal => Backups(files) \subseteq BackupsOf(journal)

(* ... and to the journal value in memory. *)
BackupsPlanned ==
    stage \in Planned => Backups(files) \subseteq BackupsOf(plan)

PlanIsJournal ==
    /\ stage \in {"restore", "move", "unjournal"} => journal = plan
    /\ stage = "temps" => plan = journal
    /\ stage \in {"idle", "recover"} => plan = NoJournal
    /\ stage = "discard" => journal \in {NoJournal, plan}

(* Batches on documents leave the backups alone. *)
DocumentBatch ==
    stage \in {"restore", "move"} \/ (stage = "temps" /\ journal # NoJournal) =>
        \A r \in pending \cup applied : Backups(r.before \cup r.after) = {}

(* Batches on backups stay within the journal value. *)
BackupBatch ==
    stage \in {"backups", "discard"} =>
        \A r \in pending \cup applied : r.before \cup r.after \subseteq BackupsOf(plan)

(* Cleaning batches delete, and what is left of them covers every backup. *)
CleaningBatch ==
    /\ stage \in {"orphans", "unbackup"} \/ (stage = "temps" /\ journal = NoJournal)
    /\ ~undoing
    => /\ \A r \in pending : r.after = {}
       /\ \A b \in Backups(files) : Delete(b) \in pending

CleanInv ==
    /\ TempsGone /\ NoneApplied /\ JournalGone
    /\ BackupsJournaled /\ BackupsPlanned /\ PlanIsJournal
    /\ DocumentBatch /\ BackupBatch /\ CleaningBatch
    /\ StartsClean

-----------------------------------------------------------------------------
(* Types *)

(* The file an entry names at a location is a file. *)
LEMMA AtType ==
    ASSUME NEW e \in Entry, NEW d \in Docs, NEW l \in Locations \cup {"backup"}
    PROVE  At(e, d, l) \in File
  BY DEF At, Entry, File

(* What a journal value names is well typed, and the null value is no journal. *)
LEMMA JournalType ==
    ASSUME NEW j \in Journal
    PROVE  /\ j # NoJournal
           /\ \A e \in j.entries, l \in Locations \cup {"backup"} :
                  At(e, j.doc, l) \in File
           /\ j.source \in Locations /\ j.destination \in Locations
<1>1. j.entries \subseteq Entry /\ j.doc \in Docs
  BY DEF Journal
<1>2. j # NoJournal /\ j.source \in Locations /\ j.destination \in Locations
  BY DocumentStoreAssumption DEF Journal
<1> QED
  BY <1>1, <1>2, AtType

(* Replacements of files are replacements. *)
LEMMA ReplacementType ==
    ASSUME files \subseteq File, NEW f \in File
    PROVE  Write(f) \in Replacement /\ Delete(f) \in Replacement
  BY DEF Write, Delete, Replacement

(* The batches of a move are made of replacements. *)
LEMMA MoveBatchesType ==
    ASSUME files \subseteq File, NEW j \in Journal
    PROVE  /\ BackupDeletes(j) \subseteq Replacement
           /\ BackupWrites(j) \subseteq Replacement
           /\ MoveReplacements(j) \subseteq Replacement
           /\ RestoreReplacements(j) \subseteq Replacement
<1>1. \A e \in j.entries, l \in {j.source, j.destination, "backup"} :
         /\ Write(At(e, j.doc, l)) \in Replacement
         /\ Delete(At(e, j.doc, l)) \in Replacement
  BY JournalType, ReplacementType
<1>2. BackupDeletes(j) \subseteq Replacement /\ BackupWrites(j) \subseteq Replacement
  BY <1>1 DEF BackupDeletes, BackupWrites
<1>3. MoveReplacements(j) \subseteq Replacement
  BY <1>1 DEF MoveReplacements
<1>4. RestoreReplacements(j) \subseteq Replacement
  BY <1>1 DEF RestoreReplacements
<1> QED
  BY <1>2, <1>3, <1>4

(* The end of a call leaves well-typed control variables. *)
LEMMA ReleaseType ==
    ASSUME Release
    PROVE  /\ barrier' \in {"free", "held", "left"} /\ stage' \in Stages
           /\ mode' \in {"recovery", "operation", "failure"}
           /\ plan' \in Journal \cup {NoJournal}
           /\ pending' \subseteq Replacement /\ applied' \subseteq Replacement
           /\ undoing' \in BOOLEAN
  BY DEF Release, EndCall, Stages

(* A fault is counted. *)
LEMMA FaultType ==
    ASSUME TypeOK, NEW k, Fault(k)
    PROVE  faults' \in Nat
  BY DEF TypeOK, Fault

(* A mutation starts a batch of replacements with a new content. *)
LEMMA MutateType ==
    ASSUME TypeOK, NEW rs \in SUBSET Replacement, Mutate(rs)
    PROVE  TypeOK'
  BY DEF TypeOK, Mutate, disk, Stages, BatchStages

(* The content a mutation writes is within the bound. *)
LEMMA NextRevType ==
    ASSUME TypeOK, nextRev <= MaxRevision
    PROVE  nextRev \in Revisions
  BY DocumentRulesAssumption DEF TypeOK, Revisions

(* What follows recovery (getUnlocked to moveLineage) keeps the types. *)
LEMMA OperationType ==
    ASSUME TypeOK, Operation
    PROVE  TypeOK'
<1> USE DEF TypeOK
<1>1. CASE Get
  BY <1>1, ReleaseType DEF Get, SyncOutcomes, disk, bounds
<1>2. CASE Reject
  BY <1>2, ReleaseType DEF Reject, disk, bounds
<1>3. ASSUME NEW d \in Docs, NEW t \in Titles, Create(d, t)
      PROVE  TypeOK'
  <2> DEFINE f == [loc |-> "active", doc |-> d, ver |-> 1, title |-> t, rev |-> nextRev]
  <2>1. nextRev \in Revisions
    BY <1>3, NextRevType DEF Create, Mutate
  <2>2. f \in File
    BY <2>1, DocumentRulesAssumption DEF File, Locations, Versions
  <2>3. {Write(f)} \subseteq Replacement
    BY <2>2, ReplacementType
  <2> QED
    BY <1>3, <2>3, MutateType DEF Create
<1>4. ASSUME NEW f \in Documents(files), NEW t \in Titles, Update(f, t)
      PROVE  TypeOK'
  <2> DEFINE g == [f EXCEPT !.title = t, !.rev = nextRev]
             rs == {Write(g)} \cup (IF t = f.title THEN {} ELSE {Delete(f)})
  <2>1. nextRev \in Revisions
    BY <1>4, NextRevType DEF Update, Mutate
  <2>2. f \in File
    BY DEF Documents
  <2>3. g \in File
    BY <2>1, <2>2 DEF File
  <2>4. rs \in SUBSET Replacement
    BY <2>2, <2>3, ReplacementType
  <2> HIDE DEF rs
  <2>5. Mutate(rs)
    BY <1>4 DEF Update, rs
  <2> QED
    BY <2>4, <2>5, MutateType
<1>5. ASSUME NEW f \in Documents(files), NEW t \in Titles, Version(f, t)
      PROVE  TypeOK'
  <2> DEFINE g == [f EXCEPT !.ver = @ + 1, !.title = t, !.rev = nextRev]
  <2>1. nextRev \in Revisions
    BY <1>5, NextRevType DEF Version, Mutate
  <2>2. f \in File /\ f.ver < MaxVersion
    BY <1>5 DEF Documents, Version
  <2>3. f.ver + 1 \in Versions
    BY <2>2, DocumentRulesAssumption DEF File, Versions
  <2>4. g \in File
    BY <2>1, <2>2, <2>3 DEF File
  <2>5. {Write(g)} \in SUBSET Replacement
    BY <2>4, ReplacementType
  <2>6. Mutate({Write(g)})
    BY <1>5 DEF Version
  <2> QED
    BY <2>5, <2>6, MutateType
<1>6. ASSUME NEW d \in Docs, NEW s \in Locations, NEW l \in Locations, Move(d, s, l)
      PROVE  TypeOK'
  <2> DEFINE j == [doc |-> d, source |-> s, destination |-> l,
                   entries |-> {EntryOf(f) : f \in Lineage(files, d)}]
  <2>1. \A f \in Lineage(files, d) : EntryOf(f) \in Entry
    BY DEF Lineage, Documents, EntryOf, Entry, File
  <2>2. j \in Journal
    BY <2>1 DEF Journal
  <2>3. BackupWrites(j) \subseteq Replacement
    BY <2>2, MoveBatchesType
  <2>4. plan' = j /\ pending' = BackupWrites(j)
    BY <1>6 DEF Move
  <2> HIDE DEF j
  <2> QED
    BY <1>6, <2>2, <2>3, <2>4 DEF Move, disk, bounds, Stages, BatchStages
<1> QED
  BY <1>1, <1>2, <1>3, <1>4, <1>5, <1>6 DEF Operation

(* The initial state is well typed. *)
LEMMA TypeInit == Init => TypeOK
<1> SUFFICES ASSUME Init PROVE TypeOK
  OBVIOUS
<1>1. cacheFresh \in BOOLEAN /\ undoing \in BOOLEAN
  BY DEF Init
<1>2. stage \in Stages
  BY DEF Init, Stages
<1> QED
  BY <1>1, <1>2 DEF Init, TypeOK

(* Every step of a call, and of the other actors, keeps the types. *)
LEMMA TypeStep == TypeOK /\ PlanHeld /\ [Next]_vars => TypeOK'
<1> SUFFICES ASSUME TypeOK, PlanHeld, [Next]_vars PROVE TypeOK'
  OBVIOUS
<1> USE DEF TypeOK
<1>1. CASE Begin
  BY <1>1 DEF Begin, disk, batch, bounds, Stages
<1>2. CASE OperatorRemovesLock
  BY <1>2 DEF OperatorRemovesLock, disk, batch, bounds
<1>3. CASE RecoverNothing
  BY <1>3 DEF RecoverNothing, disk, batch, bounds, Stages
<1>4. CASE RecoverLeftovers
  <2>1. \A b \in Backups(files) : Delete(b) \in Replacement
    BY ReplacementType DEF Backups
  <2> QED
    BY <1>4, <2>1 DEF RecoverLeftovers, disk, bounds, Stages
<1>5. CASE RecoverMove
  <2>1. journal \in Journal
    BY <1>5 DEF RecoverMove
  <2>2. RestoreReplacements(journal) \subseteq Replacement
    BY <2>1, MoveBatchesType
  <2> QED
    BY <1>5, <2>2 DEF RecoverMove, disk, bounds, Stages
<1>6. CASE RecoveryRefused
  BY <1>6, ReleaseType DEF RecoveryRefused, disk, bounds
<1>7. CASE RemoveTemps
  BY <1>7 DEF RemoveTemps, batch, bounds, Stages, BatchStages
<1>8. CASE RecoveryDone
  BY <1>8 DEF RecoveryDone, BatchDone, disk, bounds, Stages
<1>9. CASE PublishNext
  BY <1>9 DEF PublishNext, Apply, Replacement, control, bounds
<1>10. CASE RollBackNext
  <2>1. files' \subseteq File
    BY <1>10 DEF RollBackNext, Unapply, Replacement
  <2>2. faults' \in Nat
    BY <1>10, FaultType DEF RollBackNext
  <2> QED
    BY <1>10, <2>1, <2>2 DEF RollBackNext, control
<1>11. CASE RollBackDone
  BY <1>11, ReleaseType DEF RollBackDone, disk, bounds, Stages
<1>12. CASE BackupsDone
  BY <1>12 DEF BackupsDone, BatchDone, disk, bounds, Stages
<1>13. CASE MoveDone
  BY <1>13 DEF MoveDone, BatchDone, disk, bounds, Stages
<1>14. CASE MutationDone
  BY <1>14 DEF MutationDone, BatchDone, disk, bounds, Stages
<1>15. CASE FailureDone
  BY <1>15, ReleaseType DEF FailureDone, disk, bounds
<1>16. CASE WriteJournal
  <2>1. plan \in Journal
    BY <1>16 DEF WriteJournal, PlanHeld, Planned
  <2>2. MoveReplacements(plan) \subseteq Replacement
    BY <2>1, MoveBatchesType
  <2> QED
    BY <1>16, <2>1, <2>2 DEF WriteJournal, bounds, Stages, BatchStages
<1>17. CASE RemoveJournal
  <2>1. plan \in Journal
    BY <1>17 DEF RemoveJournal, PlanHeld, Planned
  <2>2. BackupDeletes(plan) \subseteq Replacement
    BY <2>1, MoveBatchesType
  <2> QED
    BY <1>17, <2>2 DEF RemoveJournal, bounds, Stages, BatchStages
<1>18. CASE Operation
  BY <1>18, OperationType
<1>19. CASE Synchronize
  BY <1>19, ReleaseType DEF Synchronize, SyncOutcomes, disk, bounds
<1>20. CASE PublishFails
  <2>1. files' \subseteq File /\ cacheFresh' \in BOOLEAN
    BY <1>20 DEF PublishFails, Apply, Replacement
  <2>2. faults' \in Nat
    BY <1>20, FaultType DEF PublishFails
  <2> QED
    BY <1>20, <2>1, <2>2 DEF PublishFails, control
<1>21. CASE RemoveTempsFails
  BY <1>21, ReleaseType, FaultType DEF RemoveTempsFails
<1>22. CASE WriteJournalFails
  <2>1. plan \in Journal
    BY <1>22 DEF WriteJournalFails, PlanHeld, Planned
  <2>2. BackupDeletes(plan) \subseteq Replacement
    BY <2>1, MoveBatchesType
  <2>3. faults' \in Nat
    BY <1>22, FaultType DEF WriteJournalFails
  <2> QED
    BY <1>22, <2>1, <2>2, <2>3 DEF WriteJournalFails, Stages, BatchStages
<1>23. CASE RemoveJournalFails
  BY <1>23, ReleaseType, FaultType DEF RemoveJournalFails
<1>24. CASE \E f \in Documents(files) : IssueLink(f)
  <2>1. PICK f \in Documents(files) : IssueLink(f)
    BY <1>24
  <2>2. LinkOf(f) \in Link
    BY DEF Documents, LinkOf, Link, File
  <2> QED
    BY <2>1, <2>2 DEF IssueLink, SyncOutcomes, disk, control, batch, bounds
<1>25. CASE Crash
  <2>1. TempCandidates \subseteq Directories
    <3>1. \A f \in File : f.loc \in Directories
      BY DEF File, Locations, Directories
    <3>2. UNION {r.after : r \in pending} \subseteq File
      BY DEF Replacement
    <3>3. UNION {r.before : r \in {q \in applied : undoing}} \subseteq File
      BY DEF Replacement
    <3>4. "control" \in Directories
      BY DEF Directories
    <3> QED
      BY <3>1, <3>2, <3>3, <3>4 DEF TempCandidates
  <2>2. temps' \subseteq Directories
    BY <1>25, <2>1 DEF Crash
  <2>3. undoing' \in BOOLEAN /\ stage' \in Stages
    BY <1>25 DEF Crash, EndCall, Stages
  <2>4. crashes' \in Nat
    BY <1>25 DEF Crash
  <2> QED
    BY <1>25, <2>2, <2>3, <2>4 DEF Crash, EndCall
<1>26. CASE UNCHANGED vars
  BY <1>26 DEF vars, disk, control, batch, bounds
<1> QED
  BY <1>1, <1>2, <1>3, <1>4, <1>5, <1>6, <1>7, <1>8, <1>9, <1>10, <1>11, <1>12,
     <1>13, <1>14, <1>15, <1>16, <1>17, <1>18, <1>19, <1>20, <1>21, <1>22,
     <1>23, <1>24, <1>25, <1>26 DEF Next, Recovery, Batch, Progress, Failing

(* A stage that needs the journal value in memory always has it. *)
LEMMA PlanStep == TypeOK /\ PlanHeld /\ [Next]_vars => PlanHeld'
<1> SUFFICES ASSUME TypeOK, PlanHeld, [Next]_vars PROVE PlanHeld'
  OBVIOUS
<1> USE DEF PlanHeld, Planned
<1>1. CASE Begin
  BY <1>1 DEF Begin
<1>2. CASE OperatorRemovesLock
  BY <1>2 DEF OperatorRemovesLock
<1>3. CASE RecoverNothing
  BY <1>3 DEF RecoverNothing
<1>4. CASE RecoverLeftovers
  BY <1>4 DEF RecoverLeftovers, disk
<1>5. CASE RecoverMove
  BY <1>5 DEF RecoverMove
<1>6. CASE RecoveryRefused \/ RollBackDone \/ FailureDone \/ Synchronize
           \/ RemoveTempsFails \/ RemoveJournalFails \/ Crash
  BY <1>6 DEF RecoveryRefused, RollBackDone, FailureDone, Synchronize,
       RemoveTempsFails, RemoveJournalFails, Crash, Release, EndCall
<1>7. CASE RemoveTemps
  BY <1>7 DEF RemoveTemps
<1>8. CASE RecoveryDone \/ BackupsDone \/ MoveDone \/ MutationDone
  BY <1>8 DEF RecoveryDone, BackupsDone, MoveDone, MutationDone
<1>9. CASE PublishNext \/ PublishFails \/ RollBackNext
  BY <1>9 DEF PublishNext, PublishFails, RollBackNext, control, BatchStages
<1>10. CASE WriteJournal \/ WriteJournalFails \/ RemoveJournal
  BY <1>10 DEF WriteJournal, WriteJournalFails, RemoveJournal
<1>11. CASE Operation
  <2>1. ASSUME NEW d \in Docs, NEW s \in Locations, NEW l \in Locations, Move(d, s, l)
        PROVE  plan' # NoJournal
    <3> DEFINE j == [doc |-> d, source |-> s, destination |-> l,
                     entries |-> {EntryOf(f) : f \in Lineage(files, d)}]
    <3>1. \A f \in Lineage(files, d) : EntryOf(f) \in Entry
      BY DEF Lineage, Documents, EntryOf, Entry, File, TypeOK
    <3>2. j \in Journal
      BY <3>1 DEF Journal
    <3>3. plan' = j
      BY <2>1 DEF Move
    <3> QED
      BY <3>2, <3>3, JournalType
  <2>2. CASE Get \/ Reject
    BY <2>2 DEF Get, Reject, Release, EndCall
  <2>3. CASE \E d \in Docs, t \in Titles : Create(d, t)
    BY <2>3 DEF Create, Mutate
  <2>4. CASE \E f \in Documents(files), t \in Titles : Update(f, t) \/ Version(f, t)
    BY <2>4 DEF Update, Version, Mutate
  <2> QED
    BY <1>11, <2>1, <2>2, <2>3, <2>4 DEF Operation
<1>12. CASE \E f \in Documents(files) : IssueLink(f)
  BY <1>12 DEF IssueLink, disk, control
<1>13. CASE UNCHANGED vars
  BY <1>13 DEF vars, control, disk
<1> QED
  BY <1>1, <1>2, <1>3, <1>4, <1>5, <1>6, <1>7, <1>8, <1>9, <1>10, <1>11, <1>12,
     <1>13 DEF Next, Recovery, Batch, Progress, Failing

(* The variables keep their types, for every value of the constants. *)
THEOREM TypeCorrect == Spec => []TypeOK
<1>1. Init => TypeOK /\ PlanHeld
  BY TypeInit DEF Init, PlanHeld, Planned
<1>2. TypeOK /\ PlanHeld /\ [Next]_vars => (TypeOK /\ PlanHeld)'
  BY TypeStep, PlanStep
<1> QED
  BY <1>1, <1>2, PTL DEF Spec

-----------------------------------------------------------------------------
(* The store an operation starts on *)

(* Publishing or undoing a replacement without backups leaves the backups      *)
(* alone.                                                                      *)
LEMMA BackupsUntouched ==
    ASSUME NEW r, Backups(r.before \cup r.after) = {}, Apply(r) \/ Unapply(r)
    PROVE  Backups(files') = Backups(files)
  BY DEF Backups, Apply, Unapply

(* Publishing or undoing a replacement adds only its own files. *)
LEMMA BackupsWithin ==
    ASSUME NEW r, NEW S, r.before \cup r.after \subseteq S,
           Backups(files) \subseteq S, Apply(r) \/ Unapply(r)
    PROVE  Backups(files') \subseteq S
  BY DEF Backups, Apply, Unapply

(* The batches that move documents do not touch the backups. *)
LEMMA MoveBatchesAvoidBackups ==
    ASSUME NEW j \in Journal, NEW r \in MoveReplacements(j) \cup RestoreReplacements(j)
    PROVE  Backups(r.before \cup r.after) = {}
<1>1. j.source # "backup" /\ j.destination # "backup"
  BY JournalType DEF Locations
<1>2. \A e, l : l # "backup" =>
          /\ \A f \in Write(At(e, j.doc, l)).before \cup Write(At(e, j.doc, l)).after : f.loc # "backup"
          /\ \A f \in Delete(At(e, j.doc, l)).before \cup Delete(At(e, j.doc, l)).after : f.loc # "backup"
  BY DEF Write, Delete, At, SamePath
<1>3. \E e \in j.entries, l \in {j.source, j.destination} :
          r = Write(At(e, j.doc, l)) \/ r = Delete(At(e, j.doc, l))
  BY DEF MoveReplacements, RestoreReplacements
<1> QED
  BY <1>1, <1>2, <1>3 DEF Backups

(* Deleting the backups of a journal value covers every backup it names. *)
LEMMA BackupDeletesCover ==
    ASSUME NEW j, Backups(files) \subseteq BackupsOf(j)
    PROVE  /\ \A r \in BackupDeletes(j) : r.after = {} /\ r.before \subseteq BackupsOf(j)
           /\ \A b \in Backups(files) : Delete(b) \in BackupDeletes(j)
<1>1. \A r \in BackupDeletes(j) : r.after = {} /\ r.before \subseteq BackupsOf(j)
  BY DEF BackupDeletes, BackupsOf, Delete
<1>2. \A b \in BackupsOf(j) : Delete(b) \in BackupDeletes(j)
  BY DEF BackupDeletes, BackupsOf
<1> QED
  BY <1>1, <1>2

(* The backups are written where there was none. *)
LEMMA BackupWritesFresh ==
    ASSUME NEW j, Backups(files) = {}
    PROVE  \A r \in BackupWrites(j) : r.before \cup r.after \subseteq BackupsOf(j)
<1> SUFFICES ASSUME NEW e \in j.entries
             PROVE  Write(At(e, j.doc, "backup")).before \cup Write(At(e, j.doc, "backup")).after
                        \subseteq BackupsOf(j)
  BY DEF BackupWrites
<1>1. Write(At(e, j.doc, "backup")).before = {}
  BY DEF Write, At, SamePath, Backups
<1>2. Write(At(e, j.doc, "backup")).after = {At(e, j.doc, "backup")}
  BY DEF Write
<1> QED
  BY <1>1, <1>2 DEF BackupsOf

(* The end of a call, and its start, keep the invariant. *)
LEMMA IdleClean ==
    ASSUME CleanInv, stage' \in {"idle", "recover"}, applied' = {}, plan' = NoJournal,
           files' = files, journal' = journal \/ journal' = NoJournal
    PROVE  CleanInv'
<1> USE DEF CleanInv
<1>1. TempsGone' /\ NoneApplied' /\ JournalGone' /\ StartsClean'
  BY DEF TempsGone, NoneApplied, JournalGone, StartsClean, Unjournaled
<1>2. BackupsJournaled'
  BY DEF BackupsJournaled, BackupsOf, Backups
<1>3. BackupsPlanned' /\ PlanIsJournal' /\ DocumentBatch' /\ BackupBatch' /\ CleaningBatch'
  BY DEF BackupsPlanned, PlanIsJournal, DocumentBatch, BackupBatch, CleaningBatch, Planned
<1> QED
  BY <1>1, <1>2, <1>3

(* A step of a batch keeps the backups within the journal value, and changes   *)
(* neither the journal nor the shape of the batch.                             *)
LEMMA BatchClean ==
    ASSUME CleanInv, stage \in BatchStages,
           NEW r \in pending \cup applied, Apply(r) \/ Unapply(r) \/ files' = files,
           UNCHANGED <<temps, journal, control>>,
           pending' \cup applied' \subseteq pending \cup applied
    PROVE  /\ TempsGone' /\ NoneApplied' /\ JournalGone' /\ StartsClean'
           /\ BackupsJournaled' /\ BackupsPlanned' /\ PlanIsJournal'
           /\ DocumentBatch' /\ BackupBatch'
<1> USE DEF CleanInv, BatchStages, control
<1>1. TempsGone' /\ NoneApplied' /\ JournalGone' /\ StartsClean' /\ PlanIsJournal'
  BY DEF TempsGone, NoneApplied, JournalGone, StartsClean, PlanIsJournal, Unjournaled
<1>2. DocumentBatch' /\ BackupBatch'
  BY DEF DocumentBatch, BackupBatch, BackupsOf
<1>3. stage \in {"restore", "move"} => Backups(files') = Backups(files)
  BY BackupsUntouched DEF DocumentBatch
<1>4. stage \in {"backups", "discard"} => Backups(files') \subseteq BackupsOf(plan)
  <2> SUFFICES ASSUME stage \in {"backups", "discard"}
               PROVE  Backups(files') \subseteq BackupsOf(plan)
    OBVIOUS
  <2>1. r.before \cup r.after \subseteq BackupsOf(plan)
    BY DEF BackupBatch
  <2>2. Backups(files) \subseteq BackupsOf(plan)
    BY DEF BackupsPlanned, Planned
  <2> QED
    BY <2>1, <2>2, BackupsWithin
<1>5. BackupsPlanned'
  BY <1>3, <1>4 DEF BackupsPlanned, BackupsOf, Backups, Planned
<1>6. BackupsJournaled'
  BY <1>3, <1>4 DEF BackupsJournaled, JournalGone, PlanIsJournal, BackupsOf, Backups,
       Unjournaled
<1> QED
  BY <1>1, <1>2, <1>5, <1>6

(* Every step keeps the invariant that accounts for leftover files. *)
LEMMA CleanStep == TypeOK /\ PlanHeld /\ CleanInv /\ [Next]_vars => CleanInv'
<1> SUFFICES ASSUME TypeOK, PlanHeld, CleanInv, [Next]_vars PROVE CleanInv'
  OBVIOUS
<1> USE DEF BatchStages, CleanInv, Planned, Unjournaled
<1>1. CASE Begin
  BY <1>1, IdleClean DEF Begin, disk, batch, NoneApplied, PlanIsJournal
<1>2. CASE RecoveryRefused \/ FailureDone \/ Synchronize
           \/ RemoveTempsFails \/ RemoveJournalFails \/ Crash
  BY <1>2, IdleClean DEF RecoveryRefused, FailureDone, Synchronize, RemoveTempsFails,
       RemoveJournalFails, Crash, Release, EndCall, disk
<1>3. CASE RecoverNothing
  BY <1>3 DEF RecoverNothing, disk, batch, TempsGone, NoneApplied, JournalGone,
       BackupsJournaled, BackupsPlanned, PlanIsJournal, DocumentBatch, BackupBatch,
       CleaningBatch, StartsClean
<1>4. CASE RecoverLeftovers
  <2>1. CleaningBatch'
    <3>1. \A r \in pending' : r.after = {}
      BY <1>4 DEF RecoverLeftovers, Delete
    <3>2. \A b \in Backups(files') : Delete(b) \in pending'
      BY <1>4 DEF RecoverLeftovers, disk
    <3> QED
      BY <3>1, <3>2 DEF CleaningBatch
  <2>2. stage' = "temps" /\ journal' = NoJournal /\ plan' = plan /\ applied' = applied
    BY <1>4 DEF RecoverLeftovers, disk
  <2>3. stage = "recover" => plan = NoJournal
    BY DEF PlanIsJournal
  <2> QED
    BY <1>4, <2>1, <2>2, <2>3 DEF RecoverLeftovers, TempsGone, NoneApplied, JournalGone,
         BackupsJournaled, BackupsPlanned, PlanIsJournal, DocumentBatch, BackupBatch,
         StartsClean
<1>5. CASE RecoverMove
  <2>1. journal \in Journal
    BY <1>5 DEF RecoverMove, TypeOK
  <2>2. DocumentBatch'
    <3>1. \A r \in RestoreReplacements(journal) : Backups(r.before \cup r.after) = {}
      BY <2>1, MoveBatchesAvoidBackups
    <3>2. applied' = {} /\ pending' = RestoreReplacements(journal)
      BY <1>5 DEF RecoverMove, NoneApplied
    <3> QED
      BY <3>1, <3>2 DEF DocumentBatch
  <2> QED
    BY <1>5, <2>2 DEF RecoverMove, disk, TempsGone, NoneApplied, JournalGone,
         BackupsJournaled, BackupsPlanned, PlanIsJournal, BackupBatch, CleaningBatch,
         StartsClean
<1>6. CASE RemoveTemps
  <2>1. CASE journal = NoJournal
    BY <1>6, <2>1 DEF RemoveTemps, batch, TempsGone, NoneApplied, JournalGone,
         BackupsJournaled, BackupsPlanned, PlanIsJournal, DocumentBatch, BackupBatch,
         CleaningBatch, StartsClean
  <2>2. CASE journal # NoJournal
    BY <1>6, <2>2 DEF RemoveTemps, batch, TempsGone, NoneApplied, JournalGone,
         BackupsJournaled, BackupsPlanned, PlanIsJournal, DocumentBatch, BackupBatch,
         CleaningBatch, StartsClean
  <2> QED
    BY <2>1, <2>2
<1>7. CASE RecoveryDone
  <2>1. Backups(files) = {}
    BY <1>7 DEF RecoveryDone, BatchDone, CleaningBatch
  <2> QED
    BY <1>7, <2>1 DEF RecoveryDone, BatchDone, disk, TempsGone, NoneApplied, JournalGone,
         BackupsJournaled, BackupsPlanned, PlanIsJournal, DocumentBatch, BackupBatch,
         CleaningBatch, StartsClean
<1>8. CASE PublishNext
  <2>1. PICK r \in pending : /\ Apply(r)
                             /\ pending' = pending \ {r}
                             /\ applied' = applied \cup {r}
    BY <1>8 DEF PublishNext
  <2>2. UNCHANGED <<temps, journal, control, undoing>> /\ stage' = stage
    BY <1>8 DEF PublishNext, control
  <2>3. CleaningBatch'
    <3> SUFFICES ASSUME stage \in {"orphans", "unbackup"}, ~undoing
                 PROVE  /\ \A q \in pending' : q.after = {}
                        /\ \A b \in Backups(files') : Delete(b) \in pending'
      BY <1>8, <2>2 DEF CleaningBatch, PublishNext, Delete, Backups
    <3>1. \A q \in pending : q.after = {}
      BY DEF CleaningBatch
    <3>2. Backups(files') \subseteq Backups(files) \ r.before
      BY <2>1, <3>1 DEF Apply, Backups
    <3>3. \A b \in Backups(files') : Delete(b) \in pending /\ Delete(b) # r
      BY <3>2 DEF CleaningBatch, Delete
    <3> QED
      BY <2>1, <3>1, <3>3
  <2>4. stage \in BatchStages
    BY <1>8 DEF PublishNext
  <2> QED
    BY <2>1, <2>2, <2>3, <2>4, BatchClean
<1>9. CASE PublishFails
  <2>1. PICK r \in pending : Apply(r) \/ files' = files
    BY <1>9 DEF PublishFails
  <2>2. CleaningBatch' /\ stage \in BatchStages
    BY <1>9 DEF PublishFails, CleaningBatch, control
  <2>3. UNCHANGED <<temps, journal, control>> /\ pending' = {} /\ applied' = applied
    BY <1>9 DEF PublishFails
  <2> QED
    BY <2>1, <2>2, <2>3, BatchClean
<1>10. CASE RollBackNext
  <2>1. PICK r \in applied : /\ Unapply(r) \/ files' = files
                             /\ applied' = applied \ {r}
    BY <1>10 DEF RollBackNext
  <2>2. CleaningBatch'
    BY <1>10 DEF RollBackNext, CleaningBatch, control
  <2>3. stage \in BatchStages
    BY <2>1 DEF NoneApplied
  <2>4. UNCHANGED <<temps, journal, control>> /\ pending' = pending
    BY <1>10 DEF RollBackNext
  <2> QED
    BY <2>1, <2>2, <2>3, <2>4, BatchClean
<1>11. CASE RollBackDone
  <2>1. CASE stage # "move"
    BY <1>11, <2>1, IdleClean DEF RollBackDone, Release, EndCall, disk
  <2>2. CASE stage = "move"
    BY <1>11, <2>2 DEF RollBackDone, disk, TempsGone, NoneApplied, JournalGone,
         BackupsJournaled, BackupsPlanned, PlanIsJournal, DocumentBatch, BackupBatch,
         CleaningBatch, StartsClean
  <2> QED
    BY <2>1, <2>2
<1>12. CASE BackupsDone
  BY <1>12 DEF BackupsDone, BatchDone, disk, TempsGone, NoneApplied, JournalGone,
       BackupsJournaled, BackupsPlanned, PlanIsJournal, DocumentBatch, BackupBatch,
       CleaningBatch, StartsClean
<1>13. CASE MoveDone
  BY <1>13 DEF MoveDone, BatchDone, disk, TempsGone, NoneApplied, JournalGone,
       BackupsJournaled, BackupsPlanned, PlanIsJournal, DocumentBatch, BackupBatch,
       CleaningBatch, StartsClean
<1>14. CASE MutationDone
  BY <1>14 DEF MutationDone, BatchDone, disk, TempsGone, NoneApplied, JournalGone,
       BackupsJournaled, BackupsPlanned, PlanIsJournal, DocumentBatch, BackupBatch,
       CleaningBatch, StartsClean
<1>15. CASE WriteJournal
  <2>1. plan \in Journal
    BY <1>15 DEF WriteJournal, PlanHeld, TypeOK
  <2>2. DocumentBatch'
    <3>1. \A r \in MoveReplacements(plan) : Backups(r.before \cup r.after) = {}
      BY <2>1, MoveBatchesAvoidBackups
    <3>2. applied' = {} /\ pending' = MoveReplacements(plan)
      BY <1>15 DEF WriteJournal, NoneApplied
    <3> QED
      BY <3>1, <3>2 DEF DocumentBatch
  <2> QED
    BY <1>15, <2>2 DEF WriteJournal, TempsGone, NoneApplied, JournalGone,
         BackupsJournaled, BackupsPlanned, PlanIsJournal, BackupBatch, CleaningBatch,
         StartsClean
<1>16. CASE WriteJournalFails
  <2>1. BackupBatch'
    <3>1. \A r \in BackupDeletes(plan) : r.after = {} /\ r.before \subseteq BackupsOf(plan)
      BY <1>16, BackupDeletesCover DEF WriteJournalFails, BackupsPlanned
    <3>2. applied' = {} /\ pending' = BackupDeletes(plan) /\ plan' = plan
      BY <1>16 DEF WriteJournalFails, NoneApplied
    <3> QED
      BY <3>1, <3>2 DEF BackupBatch, BackupsOf
  <2> QED
    BY <1>16, <2>1 DEF WriteJournalFails, TempsGone, NoneApplied, JournalGone,
         BackupsJournaled, BackupsPlanned, PlanIsJournal, DocumentBatch, CleaningBatch,
         StartsClean
<1>17. CASE RemoveJournal
  <2>1. CleaningBatch'
    <3>1. /\ \A r \in BackupDeletes(plan) : r.after = {}
          /\ \A b \in Backups(files) : Delete(b) \in BackupDeletes(plan)
      BY <1>17, BackupDeletesCover DEF RemoveJournal, BackupsPlanned
    <3>2. pending' = BackupDeletes(plan) /\ files' = files
      BY <1>17 DEF RemoveJournal
    <3> QED
      BY <3>1, <3>2 DEF CleaningBatch, Delete, Backups
  <2> QED
    BY <1>17, <2>1 DEF RemoveJournal, TempsGone, NoneApplied, JournalGone,
         BackupsJournaled, BackupsPlanned, PlanIsJournal, DocumentBatch, BackupBatch,
         StartsClean
<1>19. CASE OperatorRemovesLock \/ (\E f \in Documents(files) : IssueLink(f)) \/ UNCHANGED vars
  BY <1>19 DEF OperatorRemovesLock, IssueLink, vars, disk, batch, control, CleanInv,
       TempsGone, NoneApplied, JournalGone, BackupsJournaled, BackupsPlanned,
       PlanIsJournal, DocumentBatch, BackupBatch, CleaningBatch, StartsClean
<1>18. CASE Operation
  <2>1. CASE Get \/ Reject
    BY <2>1, IdleClean DEF Get, Reject, Release, EndCall, disk
  <2>2. ASSUME NEW rs, stage = "ready", Mutate(rs)
        PROVE  CleanInv'
    BY <2>2 DEF Mutate, disk, TempsGone, NoneApplied, JournalGone,
         BackupsJournaled, BackupsPlanned, PlanIsJournal, DocumentBatch, BackupBatch,
         CleaningBatch, StartsClean
  <2>3. CASE \E d \in Docs, t \in Titles : Create(d, t)
    BY <2>2, <2>3 DEF Create, Ready
  <2>4. CASE \E f \in Documents(files), t \in Titles : Update(f, t) \/ Version(f, t)
    BY <2>2, <2>4 DEF Update, Version, Ready
  <2>5. CASE \E d \in Docs, s, l \in Locations : Move(d, s, l)
    <3>1. stage = "ready" /\ stage' = "backups" /\ applied' = applied
          /\ pending' = BackupWrites(plan') /\ UNCHANGED disk
      BY <2>5 DEF Move, Ready
    <3>2. \A r \in BackupWrites(plan') : r.before \cup r.after \subseteq BackupsOf(plan')
      BY <3>1, BackupWritesFresh DEF StartsClean
    <3>3. BackupBatch'
      BY <3>1, <3>2 DEF BackupBatch, NoneApplied, BackupsOf
    <3> QED
      BY <3>1, <3>3 DEF disk, TempsGone, NoneApplied, JournalGone,
           BackupsJournaled, BackupsPlanned, PlanIsJournal, DocumentBatch,
           CleaningBatch, StartsClean
  <2> QED
    BY <1>18, <2>1, <2>3, <2>4, <2>5 DEF Operation
<1> QED
  BY <1>1, <1>2, <1>3, <1>4, <1>5, <1>6, <1>7, <1>8, <1>9, <1>10, <1>11, <1>12,
     <1>13, <1>14, <1>15, <1>16, <1>17, <1>18, <1>19
     DEF Next, Recovery, Batch, Progress, Failing

(* Recovery leaves no journal, backup or temporary to the operation that       *)
(* follows it, whatever failures and deaths came before.                       *)
THEOREM OperationsStartClean == Spec => []StartsClean
<1>1. Init => TypeOK /\ PlanHeld /\ CleanInv
  <2>1. Init => TypeOK
    BY TypeInit
  <2>2. Init => PlanHeld /\ CleanInv
    BY DEF Init, PlanHeld, CleanInv, TempsGone, NoneApplied, JournalGone, StartsClean,
         BackupsJournaled, BackupsPlanned, PlanIsJournal, DocumentBatch, BackupBatch,
         CleaningBatch, Planned, Unjournaled
  <2> QED
    BY <2>1, <2>2
<1>2. TypeOK /\ PlanHeld /\ CleanInv /\ [Next]_vars => (TypeOK /\ PlanHeld /\ CleanInv)'
  BY TypeStep, PlanStep, CleanStep
<1>3. CleanInv => StartsClean
  BY DEF CleanInv
<1> QED
  BY <1>1, <1>2, <1>3, PTL DEF Spec

-----------------------------------------------------------------------------
(* What a batch assumes, and what it leaves linked *)

Touched(r) == r.before \cup r.after
There(f)   == {g \in files : SamePath(f, g)}

\* A replacement is of one file, and replacements of a batch are of different
\* files.
OneFile(r) ==
    /\ \A f, g \in Touched(r) : SamePath(f, g)
    /\ \A f, g \in r.before : f = g
    /\ \A f, g \in r.after : f = g
Apart(r, q) == \A f \in Touched(r), g \in Touched(q) : ~SamePath(f, g)

PathsUnique == \A f, g \in files : SamePath(f, g) => f = g

\* What was published is there, and what is to be published finds what it
\* expects.
BatchExact ==
    /\ PathsUnique
    /\ \A r \in pending \cup applied : OneFile(r)
    /\ \A r, q \in pending \cup applied : r # q => Apart(r, q)
    /\ pending \cap applied = {}
    /\ \A r \in pending : \A f \in Touched(r) : There(f) = r.before
    /\ \A r \in applied : \A f \in Touched(r) : There(f) = r.after

\* A move is to the other location, of one entry for each version.
MoveOK(j) ==
    /\ j.source # j.destination
    /\ \A e, h \in j.entries : e.ver = h.ver => e = h
MovesOK ==
    /\ journal # NoJournal => MoveOK(journal)
    /\ plan # NoJournal => MoveOK(plan)

\* The backups are complete when the journal is written, and until it is removed.
BackedUp ==
    /\ stage \in {"journal", "move", "unjournal", "restore"} => BackupsOf(plan) \subseteq files
    /\ stage = "temps" /\ journal # NoJournal => BackupsOf(journal) \subseteq files
    /\ stage = "backups" =>
           /\ ~undoing => BackupsOf(plan) \subseteq files \cup UNION {r.after : r \in pending}
           /\ \A r \in pending : r.before = {}

\* Until the journal is written, the lineage is what the journal value says.
LineagePlanned ==
    stage \in {"backups", "journal"} =>
        /\ Lineage(files, plan.doc) = {At(e, plan.doc, plan.source) : e \in plan.entries}
        /\ plan.source = "active" =>
               \A e \in plan.entries : LinkOf(At(e, plan.doc, plan.source)) \notin links

\* A link resolves in every state, because no replacement takes its document away.
Names(fs) == {LinkOf(f) : f \in {g \in fs : g.loc = "active"}}
KeepsLinks(r) == Names(r.before) \cap links = Names(r.after) \cap links
LinksKept == links \subseteq Names(files) /\ \A r \in pending \cup applied : KeepsLinks(r)

\* Between calls there is no batch.
IdleEmpty == stage \in {"idle", "recover"} => pending = {}

BatchInv ==
    /\ BatchExact /\ MovesOK /\ BackedUp /\ LineagePlanned /\ LinksKept
    /\ IdleEmpty

(* Being of the same path is an equivalence. *)
LEMMA SamePathEquivalence ==
    /\ \A f : SamePath(f, f)
    /\ \A f, g : SamePath(f, g) => SamePath(g, f)
    /\ \A f, g, h : SamePath(f, g) /\ SamePath(g, h) => SamePath(f, h)
  BY DEF SamePath

(* Two entries of a move are of the same path at one location only if they *)
(* are the same entry.                                                     *)
LEMMA EntriesApart ==
    ASSUME NEW j, MoveOK(j), NEW e \in j.entries, NEW h \in j.entries,
           NEW k, NEW l, SamePath(At(e, j.doc, k), At(h, j.doc, l))
    PROVE  k = l /\ e = h
  BY DEF SamePath, At, MoveOK

(* A written file is of one path, and finds there what it expects. *)
LEMMA WriteShape ==
    ASSUME PathsUnique, NEW f
    PROVE  /\ f \in Touched(Write(f)) /\ OneFile(Write(f))
           /\ Write(f).before \subseteq files /\ Write(f).after = {f}
           /\ \A g \in Touched(Write(f)) : SamePath(f, g) /\ There(g) = Write(f).before
<1>1. Write(f).before = There(f) /\ Write(f).after = {f}
  BY DEF Write, There
<1>2. \A g \in Touched(Write(f)) : SamePath(f, g)
  BY <1>1, SamePathEquivalence DEF There, Touched
<1>3. \A g : SamePath(f, g) => There(g) = There(f)
  BY SamePathEquivalence DEF There
<1>4. OneFile(Write(f))
  <2>1. \A g, h \in Write(f).before : g = h
    BY <1>1, SamePathEquivalence DEF There, PathsUnique
  <2> QED
    BY <1>1, <1>2, <2>1, SamePathEquivalence DEF OneFile
<1> QED
  BY <1>1, <1>2, <1>3, <1>4 DEF There, Touched

(* A deleted file is of one path, and is what its deletion expects. *)
LEMMA DeleteShape ==
    ASSUME PathsUnique, NEW f
    PROVE  /\ Touched(Delete(f)) = {f} /\ OneFile(Delete(f))
           /\ Delete(f).before = {f} /\ Delete(f).after = {}
           /\ f \in files => There(f) = {f}
<1>1. Delete(f).before = {f} /\ Delete(f).after = {}
  BY DEF Delete
<1>2. f \in files => There(f) = {f}
  BY SamePathEquivalence DEF There, PathsUnique
<1> QED
  BY <1>1, <1>2, SamePathEquivalence DEF Touched, OneFile

(* A batch that is made of what is on disk is exact. *)
LEMMA NewBatch ==
    ASSUME PathsUnique, files' = files, applied' = {},
           \A r \in pending' : \E f : r = Write(f) \/ (f \in files /\ r = Delete(f)),
           \A r, q \in pending' : r # q => Apart(r, q)
    PROVE  BatchExact'
<1>1. \A r \in pending' : OneFile(r) /\ \A f \in Touched(r) : There(f) = r.before
  <2> SUFFICES ASSUME NEW r \in pending'
               PROVE  OneFile(r) /\ \A f \in Touched(r) : There(f) = r.before
    OBVIOUS
  <2>1. PICK f : r = Write(f) \/ (f \in files /\ r = Delete(f))
    OBVIOUS
  <2>2. CASE r = Write(f)
    BY <2>2, WriteShape
  <2>3. CASE f \in files /\ r = Delete(f)
    <3>1. Touched(r) = {f} /\ OneFile(r) /\ r.before = {f} /\ There(f) = {f}
      BY <2>3, DeleteShape
    <3> QED
      BY <3>1
  <2> QED
    BY <2>1, <2>2, <2>3
<1>2. PathsUnique' /\ \A f : There(f)' = There(f)
  BY DEF PathsUnique, There
<1> QED
  BY <1>1, <1>2 DEF BatchExact

(* What remains of an exact batch is exact. *)
LEMMA SameBatch ==
    ASSUME BatchExact, files' = files, pending' \subseteq pending, applied' \subseteq applied
    PROVE  BatchExact'
<1>1. PathsUnique' /\ \A f : There(f)' = There(f)
  BY DEF BatchExact, PathsUnique, There
<1>2. /\ \A r \in pending' \cup applied' : OneFile(r)
      /\ \A r, q \in pending' \cup applied' : r # q => Apart(r, q)
      /\ pending' \cap applied' = {}
  BY DEF BatchExact
<1>3. /\ \A r \in pending' : \A f \in Touched(r) : There(f) = r.before
      /\ \A r \in applied' : \A f \in Touched(r) : There(f) = r.after
  BY DEF BatchExact
<1> QED
  BY <1>1, <1>2, <1>3 DEF BatchExact

(* Exchanging what a replacement has on disk for its other side changes one path. *)
LEMMA Exchanged ==
    ASSUME PathsUnique, NEW r, OneFile(r), NEW old, NEW new,
           \/ old = r.before /\ new = r.after
           \/ old = r.after /\ new = r.before,
           \A f \in Touched(r) : There(f) = old,
           files' = (files \ old) \cup new
    PROVE  /\ PathsUnique'
           /\ \A f \in Touched(r) : There(f)' = new
           /\ \A f : (\A g \in Touched(r) : ~SamePath(f, g)) => There(f)' = There(f)
<1>1. old \subseteq Touched(r) /\ new \subseteq Touched(r)
  BY DEF Touched
<1>2. \A f, g \in Touched(r) : SamePath(f, g)
  BY DEF OneFile
<1>3. \A f, g \in new : f = g
  BY DEF OneFile
<1>4. \A f \in Touched(r) : There(f)' = new
  <2> SUFFICES ASSUME NEW f \in Touched(r), NEW g
               PROVE  g \in files' /\ SamePath(f, g) <=> g \in new
    BY DEF There
  <2>1. g \in files /\ SamePath(f, g) <=> g \in old
    BY DEF There
  <2> QED
    BY <1>1, <1>2, <2>1
<1>5. \A f : (\A g \in Touched(r) : ~SamePath(f, g)) => There(f)' = There(f)
  BY <1>1 DEF There
<1>6. PathsUnique'
  <2> SUFFICES ASSUME NEW f \in files', NEW g \in files', SamePath(f, g)
               PROVE  f = g
    BY DEF PathsUnique
  <2>1. CASE f \in new
    BY <1>1, <1>3, <1>4, <2>1 DEF There
  <2>2. CASE g \in new
    BY <1>1, <1>3, <1>4, <2>2, SamePathEquivalence DEF There
  <2>3. CASE f \in files /\ g \in files
    BY <2>3 DEF PathsUnique
  <2> QED
    BY <2>1, <2>2, <2>3
<1> QED
  BY <1>4, <1>5, <1>6

(* Publishing a replacement, whether or not it is recorded as applied. *)
LEMMA Published ==
    ASSUME BatchExact, NEW r \in pending, Apply(r),
           pending' \subseteq pending \ {r}, applied' \subseteq applied \cup {r}
    PROVE  BatchExact'
<1> DEFINE batches == pending \cup applied
<1>1. /\ PathsUnique'
      /\ \A f \in Touched(r) : There(f)' = r.after
      /\ \A f : (\A g \in Touched(r) : ~SamePath(f, g)) => There(f)' = There(f)
  <2>1. PathsUnique /\ OneFile(r) /\ \A f \in Touched(r) : There(f) = r.before
    BY DEF BatchExact
  <2>2. files' = (files \ r.before) \cup r.after
    BY DEF Apply
  <2> QED
    BY <2>1, <2>2, Exchanged
<1>2. \A q \in batches : q # r => \A f \in Touched(q) : There(f)' = There(f)
  <2>1. \A q \in batches : q # r => Apart(q, r)
    BY DEF BatchExact
  <2> QED
    BY <1>1, <2>1 DEF Apart
<1>3. r \notin applied /\ pending \cap applied = {}
  BY DEF BatchExact
<1>4. /\ \A q \in pending' \cup applied' : OneFile(q)
      /\ \A q, t \in pending' \cup applied' : q # t => Apart(q, t)
  BY DEF BatchExact
<1>5. \A q \in pending' : \A f \in Touched(q) : There(f)' = q.before
  BY <1>2 DEF BatchExact
<1>6. \A q \in applied' : \A f \in Touched(q) : There(f)' = q.after
  BY <1>1, <1>2, <1>3 DEF BatchExact
<1> QED
  BY <1>1, <1>3, <1>4, <1>5, <1>6 DEF BatchExact

(* Restoring a before-image. *)
LEMMA Unpublished ==
    ASSUME BatchExact, NEW r \in applied, Unapply(r),
           pending' = pending, applied' = applied \ {r}
    PROVE  BatchExact'
<1> DEFINE batches == pending \cup applied
<1>1. /\ PathsUnique'
      /\ \A f : (\A g \in Touched(r) : ~SamePath(f, g)) => There(f)' = There(f)
  <2>1. PathsUnique /\ OneFile(r) /\ \A f \in Touched(r) : There(f) = r.after
    BY DEF BatchExact
  <2>2. files' = (files \ r.after) \cup r.before
    BY DEF Unapply
  <2> QED
    BY <2>1, <2>2, Exchanged
<1>2. \A q \in batches : q # r => \A f \in Touched(q) : There(f)' = There(f)
  <2>1. \A q \in batches : q # r => Apart(q, r)
    BY DEF BatchExact
  <2> QED
    BY <1>1, <2>1 DEF Apart
<1>3. pending \cap applied = {}
  BY DEF BatchExact
<1>4. /\ \A q \in pending' \cup applied' : OneFile(q)
      /\ \A q, t \in pending' \cup applied' : q # t => Apart(q, t)
  BY DEF BatchExact
<1>5. \A q \in pending' : \A f \in Touched(q) : There(f)' = q.before
  BY <1>2, <1>3 DEF BatchExact
<1>6. \A q \in applied' : \A f \in Touched(q) : There(f)' = q.after
  BY <1>2 DEF BatchExact
<1> QED
  BY <1>1, <1>3, <1>4, <1>5, <1>6 DEF BatchExact

\* A replacement that overwrites or creates a file, or deletes one that nobody links.
Grounded(r) ==
    \E f : \/ r = Write(f)
           \/ f \in files /\ r = Delete(f) /\ (f.loc = "active" => LinkOf(f) \notin links)

(* A written file takes no link away: it has the path, and so the link, of *)
(* what it overwrites.                                                     *)
LEMMA WriteKeepsLinks ==
    ASSUME links \subseteq Names(files), NEW f
    PROVE  KeepsLinks(Write(f))
<1>1. Write(f).before = There(f) /\ Write(f).after = {f}
  BY DEF Write, There
<1>2. CASE f.loc # "active"
  <2>1. Names(There(f)) = {} /\ Names({f}) = {}
    BY <1>2 DEF Names, There, SamePath
  <2> QED
    BY <1>1, <2>1 DEF KeepsLinks
<1>3. CASE f.loc = "active"
  <2>1. Names({f}) = {LinkOf(f)}
    BY <1>3 DEF Names
  <2>2. \A g : SamePath(f, g) <=> g.loc = "active" /\ LinkOf(g) = LinkOf(f)
    BY <1>3 DEF SamePath, LinkOf
  <2>3. Names(There(f)) = {LinkOf(f)} \cap Names(files)
    BY <2>2 DEF Names, There
  <2> QED
    BY <1>1, <2>1, <2>3 DEF KeepsLinks
<1> QED
  BY <1>2, <1>3

(* The deletion of a file that nobody links takes no link away. *)
LEMMA DeleteKeepsLinks ==
    ASSUME NEW f, f.loc = "active" => LinkOf(f) \notin links
    PROVE  KeepsLinks(Delete(f))
<1>1. Names(Delete(f).before) \subseteq {LinkOf(f)} /\ Names(Delete(f).after) = {}
  BY DEF Names, Delete
<1>2. f.loc # "active" => Names(Delete(f).before) = {}
  BY DEF Names, Delete
<1> QED
  BY <1>1, <1>2 DEF KeepsLinks

(* A new batch of grounded replacements of different files is exact, and   *)
(* takes no link away.                                                     *)
LEMMA GroundedBatch ==
    ASSUME PathsUnique, links \subseteq Names(files),
           files' = files, links' = links, applied' = {},
           \A r \in pending' : Grounded(r),
           \A r, q \in pending' : r # q => Apart(r, q)
    PROVE  BatchExact' /\ LinksKept'
<1>1. BatchExact'
  BY NewBatch DEF Grounded
<1>2. \A r \in pending' : KeepsLinks(r)
  BY WriteKeepsLinks, DeleteKeepsLinks DEF Grounded
<1>3. \A r : KeepsLinks(r)' <=> KeepsLinks(r)
  BY DEF KeepsLinks, Names
<1>4. Names(files)' = Names(files)
  BY DEF Names
<1> QED
  BY <1>1, <1>2, <1>3, <1>4 DEF LinksKept

(* What is touched by the write or the deletion of an entry of a move is   *)
(* of the path of that entry.                                              *)
LEMMA EntryReplacements ==
    ASSUME PathsUnique, NEW j, MoveOK(j), NEW e \in j.entries, NEW h \in j.entries,
           NEW k, NEW l, NEW r, NEW q,
           r = Write(At(e, j.doc, k)) \/ r = Delete(At(e, j.doc, k)),
           q = Write(At(h, j.doc, l)) \/ q = Delete(At(h, j.doc, l)),
           e # h \/ k # l
    PROVE  Apart(r, q)
<1>1. \A f \in Touched(r) : SamePath(At(e, j.doc, k), f)
  BY WriteShape, DeleteShape, SamePathEquivalence
<1>2. \A g \in Touched(q) : SamePath(At(h, j.doc, l), g)
  BY WriteShape, DeleteShape, SamePathEquivalence
<1>3. ~SamePath(At(e, j.doc, k), At(h, j.doc, l))
  BY EntriesApart
<1> QED
  BY <1>1, <1>2, <1>3, SamePathEquivalence DEF Apart

(* Recovery without a journal deletes the backups it finds. *)
LEMMA LeftoversBatch ==
    ASSUME PathsUnique, links \subseteq Names(files), CleanInv, RecoverLeftovers
    PROVE  BatchExact' /\ LinksKept'
<1>1. files' = files /\ links' = links /\ applied' = {}
      /\ pending' = {Delete(b) : b \in Backups(files)}
  BY DEF RecoverLeftovers, disk, CleanInv, NoneApplied, BatchStages
<1>2. \A r \in pending' : Grounded(r)
  BY <1>1 DEF Backups, Grounded
<1>3. ASSUME NEW b \in Backups(files), NEW c \in Backups(files), b # c
      PROVE  Apart(Delete(b), Delete(c))
  <2>1. ~SamePath(b, c)
    BY <1>3 DEF Backups, PathsUnique
  <2>2. Touched(Delete(b)) = {b} /\ Touched(Delete(c)) = {c}
    BY DeleteShape
  <2> QED
    BY <2>1, <2>2 DEF Apart
<1>4. \A r, q \in pending' : r # q => Apart(r, q)
  BY <1>1, <1>3
<1> QED
  BY <1>1, <1>2, <1>4, GroundedBatch

(* Recovery of a journaled move writes the sources and deletes the          *)
(* destinations that are there.                                             *)
LEMMA RestoreBatch ==
    ASSUME PathsUnique, links \subseteq Names(files), CleanInv, MovesOK, RecoverMove
    PROVE  BatchExact' /\ LinksKept'
<1> DEFINE j == journal
           src(e) == At(e, j.doc, j.source)
           dst(e) == At(e, j.doc, j.destination)
<1>1. files' = files /\ links' = links /\ applied' = {}
      /\ pending' = RestoreReplacements(journal)
  BY DEF RecoverMove, disk, CleanInv, NoneApplied, BatchStages
<1>2. MoveOK(j) /\ j.source # j.destination
  BY DEF MovesOK, RecoverMove, MoveOK
<1>3. \A r \in pending' : \E e \in j.entries :
          r = Write(src(e)) \/ (r = Delete(dst(e)) /\ dst(e) \in files)
  BY <1>1 DEF RestoreReplacements
<1>4. ASSUME NEW e \in j.entries, dst(e) \in files, dst(e).loc = "active",
             LinkOf(dst(e)) \in links
      PROVE  FALSE
  <2>1. PICK f \in Recovered(journal, files) : f.loc = "active" /\ LinkOf(f) = LinkOf(dst(e))
    BY <1>4 DEF RecoverMove, LinksValid
  <2>2. SamePath(f, dst(e))
    BY <1>4, <2>1 DEF SamePath, LinkOf
  <2>3. CASE f \in files /\ f \notin {dst(h) : h \in j.entries}
    BY <1>4, <2>2, <2>3 DEF PathsUnique
  <2>4. CASE f \in {src(h) : h \in j.entries}
    BY <1>2, <2>2, <2>4 DEF SamePath, At
  <2> QED
    BY <2>1, <2>3, <2>4 DEF Recovered
<1>5. \A r \in pending' : Grounded(r)
  BY <1>3, <1>4 DEF Grounded
<1>6. ASSUME NEW r \in pending', NEW q \in pending', r # q
      PROVE  Apart(r, q)
  <2>1. PICK e \in j.entries : r = Write(src(e)) \/ r = Delete(dst(e))
    BY <1>3
  <2>2. PICK h \in j.entries : q = Write(src(h)) \/ q = Delete(dst(h))
    BY <1>3
  <2>3. PICK k, l :
            /\ r = Write(At(e, journal.doc, k)) \/ r = Delete(At(e, journal.doc, k))
            /\ q = Write(At(h, journal.doc, l)) \/ q = Delete(At(h, journal.doc, l))
            /\ e # h \/ k # l
    BY <1>2, <1>6, <2>1, <2>2
  <2>4. PICK m : m = journal
    OBVIOUS
  <2> QED
    BY <1>2, <2>3, <2>4, EntryReplacements
<1> QED
  BY <1>1, <1>5, <1>6, GroundedBatch

(* A journaled move writes the destinations and deletes the sources. *)
LEMMA MoveBatch ==
    ASSUME PathsUnique, links \subseteq Names(files), CleanInv, MovesOK, LineagePlanned,
           PlanHeld, WriteJournal
    PROVE  BatchExact' /\ LinksKept'
<1>1. files' = files /\ links' = links /\ applied' = {}
      /\ pending' = MoveReplacements(plan)
  BY DEF WriteJournal, CleanInv, NoneApplied, BatchStages
<1>2. PICK j : j = plan
  OBVIOUS
<1>3. MoveOK(j) /\ j.source # j.destination
  BY <1>2 DEF MovesOK, WriteJournal, MoveOK, PlanHeld, Planned
<1>4. \A e \in j.entries :
          LET f == At(e, j.doc, j.source)
          IN  f \in files /\ (f.loc = "active" => LinkOf(f) \notin links)
  BY <1>2 DEF LineagePlanned, WriteJournal, Lineage, Documents, At
<1>5. \A r \in pending' : \E e \in j.entries :
          r = Write(At(e, j.doc, j.destination)) \/ r = Delete(At(e, j.doc, j.source))
  BY <1>1, <1>2 DEF MoveReplacements
<1>6. \A r \in pending' : Grounded(r)
  BY <1>4, <1>5 DEF Grounded
<1>7. ASSUME NEW r \in pending', NEW q \in pending', r # q
      PROVE  Apart(r, q)
  <2>1. PICK e \in j.entries :
            r = Write(At(e, j.doc, j.destination)) \/ r = Delete(At(e, j.doc, j.source))
    BY <1>5
  <2>2. PICK h \in j.entries :
            q = Write(At(h, j.doc, j.destination)) \/ q = Delete(At(h, j.doc, j.source))
    BY <1>5
  <2>3. PICK k, l :
            /\ r = Write(At(e, j.doc, k)) \/ r = Delete(At(e, j.doc, k))
            /\ q = Write(At(h, j.doc, l)) \/ q = Delete(At(h, j.doc, l))
            /\ e # h \/ k # l
    BY <1>3, <1>7, <2>1, <2>2
  <2> QED
    BY <1>3, <2>3, EntryReplacements
<1> QED
  BY <1>1, <1>6, <1>7, GroundedBatch

(* The backups of a move are written, and deleted, one by one. *)
LEMMA BackupsBatch ==
    ASSUME PathsUnique, links \subseteq Names(files), files' = files, links' = links,
           applied' = {}, NEW j, MoveOK(j),
           \/ pending' = BackupWrites(j)
           \/ pending' = BackupDeletes(j) /\ BackupsOf(j) \subseteq files
    PROVE  BatchExact' /\ LinksKept'
<1> DEFINE b(e) == At(e, j.doc, "backup")
<1>1. \A r \in pending' : \E e \in j.entries :
          r = Write(b(e)) \/ (r = Delete(b(e)) /\ b(e) \in files)
  BY DEF BackupWrites, BackupDeletes, BackupsOf
<1>2. \A e : b(e).loc # "active"
  BY DEF At
<1>3. \A r \in pending' : Grounded(r)
  BY <1>1, <1>2 DEF Grounded
<1>4. ASSUME NEW r \in pending', NEW q \in pending', r # q
      PROVE  Apart(r, q)
  <2>1. CASE pending' = BackupWrites(j)
    <3>1. PICK e \in j.entries : r = Write(b(e))
      BY <2>1 DEF BackupWrites
    <3>2. PICK h \in j.entries : q = Write(b(h))
      BY <2>1 DEF BackupWrites
    <3> QED
      BY <1>4, <3>1, <3>2, EntryReplacements
  <2>2. CASE pending' = BackupDeletes(j)
    <3>1. PICK e \in j.entries : r = Delete(b(e))
      BY <2>2 DEF BackupDeletes
    <3>2. PICK h \in j.entries : q = Delete(b(h))
      BY <2>2 DEF BackupDeletes
    <3> QED
      BY <1>4, <3>1, <3>2, EntryReplacements
  <2> QED
    BY <2>1, <2>2
<1> QED
  BY <1>1, <1>3, <1>4, GroundedBatch

(* The journal value of a move is well made. *)
LEMMA MovePlanned ==
    ASSUME TypeOK, NEW d \in Docs, NEW s \in Locations, NEW l \in Locations, Move(d, s, l)
    PROVE  /\ MoveOK(plan') /\ plan' \in Journal
           /\ plan'.doc = d /\ plan'.source = s /\ plan'.destination = l
           /\ Lineage(files, d) = {At(e, d, s) : e \in plan'.entries}
           /\ \A e \in plan'.entries : At(e, d, s) \in Lineage(files, d)
<1> DEFINE j == [doc |-> d, source |-> s, destination |-> l,
                 entries |-> {EntryOf(f) : f \in Lineage(files, d)}]
<1>1. plan' = j
  BY DEF Move
<1>2. /\ Lineage(files, d) \subseteq File
      /\ \A f \in Lineage(files, d) : f.doc = d /\ f.loc = s
  BY DEF Move, TypeOK, Lineage, Documents
<1>3. \A f \in Lineage(files, d) : At(EntryOf(f), d, s) = f
  BY <1>2 DEF At, EntryOf, File
<1>4. \A f \in Lineage(files, d) : EntryOf(f) \in Entry /\ EntryOf(f).ver = f.ver
  BY <1>2 DEF EntryOf, Entry, File
<1>5. j \in Journal
  BY <1>4 DEF Journal
<1>6. \A f, g \in Lineage(files, d) : f.ver = g.ver => f = g
  BY DEF Move, Ready, SnapshotValid, Coherent
<1>7. MoveOK(j)
  BY <1>4, <1>6 DEF MoveOK, Move
<1>8. \A e \in j.entries : At(e, d, s) \in Lineage(files, d)
  BY <1>3
<1>9. Lineage(files, d) = {At(e, d, s) : e \in j.entries}
  BY <1>3
<1> HIDE DEF j
<1>10. j.doc = d /\ j.source = s /\ j.destination = l
  BY DEF j
<1> QED
  BY <1>1, <1>5, <1>7, <1>8, <1>9, <1>10

(* A change writes one file, and with a new title deletes the old one. *)
LEMMA MutationBatch ==
    ASSUME TypeOK, PathsUnique, links \subseteq Names(files), CleanInv,
           \/ \E d \in Docs, t \in Titles : Create(d, t)
           \/ \E f \in Documents(files), t \in Titles : Update(f, t) \/ Version(f, t)
    PROVE  BatchExact' /\ LinksKept'
<1>1. stage = "ready" /\ files' = files /\ links' = links /\ applied' = applied
  BY DEF Create, Update, Version, Ready, Mutate, disk
<1>2. applied' = {}
  BY <1>1 DEF CleanInv, NoneApplied, BatchStages
<1>3. CASE \E f : pending' = {Write(f)}
  <2>1. \A r \in pending' : Grounded(r)
    BY <1>3 DEF Grounded
  <2>2. \A r, q \in pending' : r = q
    BY <1>3
  <2> QED
    BY <1>1, <1>2, <2>1, <2>2, GroundedBatch
<1>4. ASSUME NEW f \in Documents(files), NEW t \in Titles, Update(f, t)
      PROVE  BatchExact' /\ LinksKept'
  <2> DEFINE g == [f EXCEPT !.title = t, !.rev = nextRev]
  <2>1. CASE t = f.title
    BY <1>3, <1>4, <2>1 DEF Update, Mutate
  <2>2. CASE t # f.title
    <3>1. pending' = {Write(g), Delete(f)}
      BY <1>4, <2>2 DEF Update, Mutate
    <3>2. f \in files /\ f.loc = "active" /\ LinkOf(f) \notin links
      BY <1>4, <2>2 DEF Update, Documents
    <3>3. \A r \in pending' : Grounded(r)
      BY <3>1, <3>2 DEF Grounded
    <3>4. ~SamePath(g, f)
      BY <2>2, <3>2 DEF SamePath, TypeOK, File
    <3> HIDE DEF g
    <3>5. Apart(Write(g), Delete(f)) /\ Apart(Delete(f), Write(g))
      BY <3>4, WriteShape, DeleteShape, SamePathEquivalence DEF Apart
    <3>6. \A r, q \in pending' : r # q => Apart(r, q)
      BY <3>1, <3>5
    <3> QED
      BY <1>1, <1>2, <3>3, <3>6, GroundedBatch
  <2> QED
    BY <2>1, <2>2
<1> QED
  BY <1>3, <1>4 DEF Create, Version, Mutate

(* A step that publishes nothing and plans nothing keeps exact batches and  *)
(* the links.                                                               *)
LEMMA QuietStep ==
    ASSUME BatchExact, LinksKept, files' = files, links' = links,
           pending' \subseteq pending, applied' \subseteq applied
    PROVE  BatchExact' /\ LinksKept'
<1>1. BatchExact'
  BY SameBatch
<1>2. LinksKept'
  BY DEF LinksKept, KeepsLinks, Names
<1> QED
  BY <1>1, <1>2

(* Publishing or undoing a replacement keeps the links.                     *)
LEMMA LinksStep ==
    ASSUME LinksKept, NEW r, KeepsLinks(r), Apply(r) \/ Unapply(r), links' = links,
           pending' \cup applied' \subseteq pending \cup applied
    PROVE  LinksKept'
<1>1. links \subseteq Names(files')
  BY DEF LinksKept, KeepsLinks, Names, Apply, Unapply
<1>2. \A q \in pending' \cup applied' : KeepsLinks(q)
  BY DEF LinksKept
<1> QED
  BY <1>1, <1>2 DEF LinksKept, KeepsLinks, Names

(* Every step keeps exact batches and the links. *)
LEMMA ExactStep ==
    TypeOK /\ PlanHeld /\ CleanInv /\ BatchInv /\ [Next]_vars => BatchExact' /\ LinksKept'
<1> SUFFICES ASSUME TypeOK, PlanHeld, CleanInv, BatchInv, [Next]_vars
             PROVE  BatchExact' /\ LinksKept'
  OBVIOUS
<1>0. /\ BatchExact /\ MovesOK /\ BackedUp /\ LineagePlanned /\ LinksKept /\ IdleEmpty
      /\ PathsUnique /\ links \subseteq Names(files)
  BY DEF BatchInv, BatchExact, LinksKept
<1>1. CASE \/ Begin \/ OperatorRemovesLock \/ RecoverNothing \/ RemoveTemps
           \/ RecoveryDone \/ BackupsDone \/ MoveDone \/ MutationDone \/ UNCHANGED vars
  BY <1>0, <1>1, QuietStep
     DEF Begin, OperatorRemovesLock, RecoverNothing, RemoveTemps, RecoveryDone,
         BackupsDone, MoveDone, MutationDone, BatchDone, vars, disk, batch
<1>2. CASE \/ RecoveryRefused \/ RemoveTempsFails \/ FailureDone \/ RollBackDone
           \/ RemoveJournalFails \/ Get \/ Reject \/ Synchronize \/ Crash
  BY <1>0, <1>2, QuietStep
     DEF RecoveryRefused, RemoveTempsFails, FailureDone, RollBackDone,
         RemoveJournalFails, Get, Reject, Synchronize, Crash, Release, EndCall, disk
<1>3. CASE PublishNext
  <2>1. PICK r \in pending : /\ Apply(r)
                             /\ pending' = pending \ {r}
                             /\ applied' = applied \cup {r}
    BY <1>3 DEF PublishNext
  <2>2. links' = links
    BY <1>3 DEF PublishNext
  <2>3. KeepsLinks(r)
    BY <1>0 DEF LinksKept
  <2> QED
    BY <1>0, <2>1, <2>2, <2>3, Published, LinksStep
<1>4. CASE PublishFails
  <2>1. PICK r \in pending : Apply(r) \/ files' = files
    BY <1>4 DEF PublishFails
  <2>2. links' = links /\ pending' = {} /\ applied' = applied
    BY <1>4 DEF PublishFails
  <2>3. KeepsLinks(r)
    BY <1>0 DEF LinksKept
  <2>4. CASE Apply(r)
    BY <1>0, <2>2, <2>3, <2>4, Published, LinksStep
  <2>5. CASE files' = files
    BY <1>0, <2>2, <2>5, QuietStep
  <2> QED
    BY <2>1, <2>4, <2>5
<1>5. CASE RollBackNext
  <2>1. PICK r \in applied : /\ Unapply(r) \/ files' = files
                             /\ applied' = applied \ {r}
    BY <1>5 DEF RollBackNext
  <2>2. links' = links /\ pending' = pending
    BY <1>5 DEF RollBackNext
  <2>3. KeepsLinks(r)
    BY <1>0 DEF LinksKept
  <2>4. CASE Unapply(r)
    BY <1>0, <2>1, <2>2, <2>3, <2>4, Unpublished, LinksStep
  <2>5. CASE files' = files
    BY <1>0, <2>1, <2>2, <2>5, QuietStep
  <2> QED
    BY <2>1, <2>4, <2>5
<1>6. CASE RecoverLeftovers
  BY <1>0, <1>6, LeftoversBatch
<1>7. CASE RecoverMove
  BY <1>0, <1>7, RestoreBatch
<1>8. CASE WriteJournal
  BY <1>0, <1>8, MoveBatch
<1>9. CASE WriteJournalFails \/ RemoveJournal
  <2>1. PICK j : j = plan
    OBVIOUS
  <2>2. MoveOK(j) /\ BackupsOf(j) \subseteq files
    BY <1>0, <1>9, <2>1
       DEF WriteJournalFails, RemoveJournal, MovesOK, BackedUp, PlanHeld, Planned
  <2>3. files' = files /\ links' = links /\ applied' = {} /\ pending' = BackupDeletes(j)
    BY <1>9, <2>1 DEF WriteJournalFails, RemoveJournal, CleanInv, NoneApplied, BatchStages
  <2> QED
    BY <1>0, <2>2, <2>3, BackupsBatch
<1>10. CASE \E d \in Docs, s, l \in Locations : Move(d, s, l)
  <2>1. PICK j : j = plan'
    OBVIOUS
  <2>2. MoveOK(j)
    BY <1>10, <2>1, MovePlanned
  <2>3. files' = files /\ links' = links /\ applied' = {} /\ pending' = BackupWrites(j)
    BY <1>10, <2>1 DEF Move, Ready, disk, CleanInv, NoneApplied, BatchStages
  <2> QED
    BY <1>0, <2>2, <2>3, BackupsBatch
<1>11. CASE \/ \E d \in Docs, t \in Titles : Create(d, t)
            \/ \E f \in Documents(files), t \in Titles : Update(f, t) \/ Version(f, t)
  BY <1>0, <1>11, MutationBatch
<1>12. CASE \E f \in Documents(files) : IssueLink(f)
  <2>1. PICK f \in Documents(files) : IssueLink(f)
    BY <1>12
  <2>2. LinkOf(f) \in Names(files)
    BY <2>1 DEF IssueLink, Documents, Names
  <2>3. pending = {} /\ applied = {}
    BY <1>0, <2>1 DEF IssueLink, IdleEmpty, CleanInv, NoneApplied, BatchStages
  <2>4. files' = files /\ pending' = pending /\ applied' = applied
        /\ links' = links \cup {LinkOf(f)}
    BY <2>1 DEF IssueLink, disk, batch
  <2>5. BatchExact'
    BY <1>0, <2>4, SameBatch
  <2>6. LinksKept'
    BY <1>0, <2>2, <2>3, <2>4 DEF LinksKept, Names
  <2> QED
    BY <2>5, <2>6
<1> QED
  BY <1>1, <1>2, <1>3, <1>4, <1>5, <1>6, <1>7, <1>8, <1>9, <1>10, <1>11, <1>12
     DEF Next, Recovery, Batch, Progress, Failing, Operation

(* Every step keeps the journal values well made. *)
LEMMA MovesStep == TypeOK /\ MovesOK /\ [Next]_vars => MovesOK'
<1> SUFFICES ASSUME TypeOK, MovesOK, [Next]_vars PROVE MovesOK'
  OBVIOUS
<1>1. CASE \E d \in Docs, s, l \in Locations : Move(d, s, l)
  <2>1. MoveOK(plan') /\ journal' = journal
    BY <1>1, MovePlanned DEF Move, disk
  <2> QED
    BY <2>1 DEF MovesOK
<1>2. CASE ~\E d \in Docs, s, l \in Locations : Move(d, s, l)
  <2>1. journal' \in {journal, plan, NoJournal}
    BY <1>2 DEF Next, Recovery, Batch, Progress, Failing, Operation,
         Begin, OperatorRemovesLock, RecoverNothing, RecoverLeftovers, RecoverMove,
         RecoveryRefused, RemoveTemps, RecoveryDone, PublishNext, RollBackNext,
         RollBackDone, BackupsDone, MoveDone, MutationDone, FailureDone, WriteJournal,
         RemoveJournal, Get, Reject, Create, Update, Version, Mutate, Synchronize,
         PublishFails, RemoveTempsFails, WriteJournalFails, RemoveJournalFails,
         IssueLink, Crash, BatchDone, disk, vars
  <2>2. plan' \in {journal, plan, NoJournal}
    BY <1>2 DEF Next, Recovery, Batch, Progress, Failing, Operation,
         Begin, OperatorRemovesLock, RecoverNothing, RecoverLeftovers, RecoverMove,
         RecoveryRefused, RemoveTemps, RecoveryDone, PublishNext, RollBackNext,
         RollBackDone, BackupsDone, MoveDone, MutationDone, FailureDone, WriteJournal,
         RemoveJournal, Get, Reject, Create, Update, Version, Mutate, Synchronize,
         PublishFails, RemoveTempsFails, WriteJournalFails, RemoveJournalFails,
         IssueLink, Crash, BatchDone, Release, EndCall, control, vars
  <2> QED
    BY <2>1, <2>2 DEF MovesOK
<1> QED
  BY <1>1, <1>2

(* A file of a journal value's backups is a backup. *)
LEMMA BackupsAreBackups == \A j : Backups(BackupsOf(j)) = BackupsOf(j)
  BY DEF Backups, BackupsOf, At

(* The backups stay complete while a batch on documents runs. *)
LEMMA BackupsSurvive ==
    ASSUME NEW j, NEW r, Backups(r.before \cup r.after) = {},
           Apply(r) \/ Unapply(r) \/ files' = files, BackupsOf(j) \subseteq files
    PROVE  BackupsOf(j) \subseteq files'
<1>1. Backups(files') = Backups(files)
  BY BackupsUntouched
<1> QED
  BY <1>1, BackupsAreBackups DEF Backups

(* Publishing a backup adds it, and removes nothing. *)
LEMMA BackupPublished ==
    ASSUME NEW j, NEW r \in pending, r.before = {}, Apply(r), pending' = pending \ {r},
           BackupsOf(j) \subseteq files \cup UNION {q.after : q \in pending}
    PROVE  BackupsOf(j) \subseteq files' \cup UNION {q.after : q \in pending'}
  BY DEF Apply

(* Every step keeps complete backups from the journal's writing to its     *)
(* removal.                                                                *)
LEMMA BackedUpStep ==
    TypeOK /\ PlanHeld /\ CleanInv /\ BackedUp /\ [Next]_vars => BackedUp'
<1> SUFFICES ASSUME TypeOK, PlanHeld, CleanInv, BackedUp, [Next]_vars PROVE BackedUp'
  OBVIOUS
<1> USE DEF BatchStages
<1>1. CASE stage' \notin {"journal", "move", "unjournal", "restore", "temps", "backups"}
  BY <1>1 DEF BackedUp
<1>2. CASE UNCHANGED vars \/ Begin \/ OperatorRemovesLock \/ \E f \in Documents(files) : IssueLink(f)
  BY <1>2 DEF BackedUp, BackupsOf, vars, disk, batch, control, Begin, OperatorRemovesLock,
       IssueLink
<1>3. CASE RecoverLeftovers \/ RecoverMove
  <2>1. journal' = journal /\ files' = files /\ stage' = "temps"
    BY <1>3 DEF RecoverLeftovers, RecoverMove, disk
  <2>2. journal # NoJournal => BackupsOf(journal) \subseteq files
    BY <1>3 DEF RecoverLeftovers, RecoverMove, JournalVerified, BackupsOf
  <2> QED
    BY <2>1, <2>2 DEF BackedUp, BackupsOf
<1>4. CASE RemoveTemps
  <2>1. /\ stage = "temps" /\ stage' = IF journal = NoJournal THEN "orphans" ELSE "restore"
        /\ files' = files /\ plan' = plan /\ plan = journal
    BY <1>4 DEF RemoveTemps, CleanInv, PlanIsJournal
  <2> QED
    BY <2>1 DEF BackedUp, BackupsOf
<1>5. CASE PublishNext \/ PublishFails \/ RollBackNext
  <2>1. stage' = stage /\ plan' = plan /\ journal' = journal
    BY <1>5 DEF PublishNext, PublishFails, RollBackNext, control
  <2>2. PICK r \in pending \cup applied :
            /\ Apply(r) \/ Unapply(r) \/ files' = files
            /\ pending' \subseteq pending
            /\ \/ undoing'
               \/ r \in pending /\ Apply(r) /\ pending' = pending \ {r} /\ ~undoing
    BY <1>5 DEF PublishNext, PublishFails, RollBackNext
  <2>3. CASE stage \in {"move", "restore"}
    <3>1. Backups(r.before \cup r.after) = {}
      BY <2>3 DEF CleanInv, DocumentBatch
    <3>2. PICK j : j = plan
      OBVIOUS
    <3>3. BackupsOf(j) \subseteq files'
      BY <2>2, <2>3, <3>1, <3>2, BackupsSurvive DEF BackedUp
    <3> QED
      BY <2>1, <2>3, <3>2, <3>3 DEF BackedUp, BackupsOf
  <2>4. CASE stage = "backups"
    <3>1. PICK j : j = plan
      OBVIOUS
    <3>2. ~undoing' => BackupsOf(j) \subseteq files' \cup UNION {q.after : q \in pending'}
      BY <2>2, <2>4, <3>1, BackupPublished DEF BackedUp
    <3>3. \A q \in pending' : q.before = {}
      BY <2>2, <2>4 DEF BackedUp
    <3> QED
      BY <2>1, <2>4, <3>1, <3>2, <3>3 DEF BackedUp, BackupsOf
  <2>5. stage \in BatchStages
    BY <1>5 DEF CleanInv, NoneApplied, PublishNext, PublishFails, RollBackNext
  <2> QED
    BY <1>1, <2>1, <2>3, <2>4, <2>5
<1>6. CASE RollBackDone \/ MoveDone \/ BackupsDone \/ WriteJournal
  <2>1. \/ stage' = "idle"
        \/ /\ files' = files /\ plan' = plan
           /\ \/ stage \in {"move", "restore"} /\ stage' = "unjournal"
              \/ stage = "backups" /\ ~undoing /\ pending = {} /\ stage' = "journal"
              \/ stage = "journal" /\ stage' = "move"
    BY <1>6 DEF RollBackDone, MoveDone, BackupsDone, WriteJournal, BatchDone, disk,
         Release, EndCall
  <2> QED
    BY <1>1, <2>1 DEF BackedUp, BackupsOf
<1>7. CASE \E d \in Docs, s, l \in Locations : Move(d, s, l)
  <2>1. stage' = "backups" /\ files' = files /\ pending' = BackupWrites(plan')
        /\ Backups(files) = {}
    BY <1>7 DEF Move, disk, Ready, CleanInv, StartsClean
  <2>2. \A r \in pending' : r.before = {}
    BY <2>1 DEF BackupWrites, Write, At, SamePath, Backups
  <2>3. BackupsOf(plan') \subseteq UNION {r.after : r \in pending'}
    <3>1. \A f : f \in Write(f).after
      BY DEF Write
    <3>2. \A e \in plan'.entries : Write(At(e, plan'.doc, "backup")) \in pending'
      BY <2>1 DEF BackupWrites
    <3> QED
      BY <3>1, <3>2 DEF BackupsOf
  <2> QED
    BY <2>1, <2>2, <2>3 DEF BackedUp, BackupsOf
<1>8. CASE \/ RecoverNothing \/ RecoveryRefused \/ RecoveryDone \/ MutationDone \/ FailureDone
           \/ RemoveJournal \/ Get \/ Reject \/ Synchronize \/ RemoveTempsFails
           \/ WriteJournalFails \/ RemoveJournalFails \/ Crash
           \/ \E d \in Docs, t \in Titles : Create(d, t)
           \/ \E f \in Documents(files), t \in Titles : Update(f, t) \/ Version(f, t)
  BY <1>1, <1>8 DEF RecoverNothing, RecoveryRefused, RecoveryDone, MutationDone, FailureDone,
       RemoveJournal, Get, Reject, Synchronize, RemoveTempsFails, WriteJournalFails,
       RemoveJournalFails, Crash, Create, Update, Version, Mutate, Release, EndCall
<1> QED
  BY <1>2, <1>3, <1>4, <1>5, <1>6, <1>7, <1>8
     DEF Next, Recovery, Batch, Progress, Failing, Operation

(* Every step before the journal is written keeps the lineage as the       *)
(* journal value says.                                                     *)
LEMMA LineagePlannedStep ==
    TypeOK /\ PlanHeld /\ CleanInv /\ LineagePlanned /\ [Next]_vars => LineagePlanned'
<1> SUFFICES ASSUME TypeOK, PlanHeld, CleanInv, LineagePlanned, [Next]_vars,
                    stage' \in {"backups", "journal"}
             PROVE  LineagePlanned'
  BY DEF LineagePlanned
<1>1. CASE \E d \in Docs, s, l \in Locations : Move(d, s, l)
  <2>1. PICK d \in Docs, s \in Locations, l \in Locations : Move(d, s, l)
    BY <1>1
  <2>2. /\ files' = files /\ links' = links /\ plan'.doc = d /\ plan'.source = s
        /\ Lineage(files, d) = {At(e, d, s) : e \in plan'.entries}
        /\ \A e \in plan'.entries : At(e, d, s) \in Lineage(files, d)
    BY <2>1, MovePlanned DEF Move, disk
  <2>3. s = "active" => \A f \in Lineage(files, d) : LinkOf(f) \notin links
    BY <2>1 DEF Move, Locations
  <2> QED
    BY <2>2, <2>3 DEF LineagePlanned, Lineage, Documents
<1>2. CASE ~\E d \in Docs, s, l \in Locations : Move(d, s, l)
  <2>1. /\ stage \in {"backups", "journal"} /\ plan' = plan /\ links' = links
        /\ \/ files' = files
           \/ stage = "backups" /\ \E r \in pending \cup applied : Apply(r) \/ Unapply(r)
    BY <1>2 DEF Next, Recovery, Batch, Progress, Failing, Operation,
         Begin, OperatorRemovesLock, RecoverNothing, RecoverLeftovers, RecoverMove,
         RecoveryRefused, RemoveTemps, RecoveryDone, PublishNext, RollBackNext,
         RollBackDone, BackupsDone, MoveDone, MutationDone, FailureDone, WriteJournal,
         RemoveJournal, Get, Reject, Create, Update, Version, Mutate, Synchronize,
         PublishFails, RemoveTempsFails, WriteJournalFails, RemoveJournalFails,
         IssueLink, Crash, BatchDone, Release, EndCall, disk, control, vars,
         CleanInv, NoneApplied, BatchStages
  <2>2. Documents(files') = Documents(files)
    <3>1. CASE files' = files
      BY <3>1
    <3>2. CASE stage = "backups" /\ \E r \in pending \cup applied : Apply(r) \/ Unapply(r)
      <4>1. PICK r \in pending \cup applied : Apply(r) \/ Unapply(r)
        BY <3>2
      <4>2. r.before \cup r.after \subseteq BackupsOf(plan)
        BY <3>2 DEF CleanInv, BackupBatch
      <4>3. \A f \in BackupsOf(plan) : f.loc \notin Locations
        BY DEF BackupsOf, At, Locations
      <4> QED
        BY <4>1, <4>2, <4>3 DEF Documents, Apply, Unapply
    <3> QED
      BY <2>1, <3>1, <3>2
  <2>3. Lineage(files', plan.doc) = Lineage(files, plan.doc)
    BY <2>2 DEF Lineage
  <2> QED
    BY <2>1, <2>3 DEF LineagePlanned, Lineage, Documents
<1> QED
  BY <1>1, <1>2

(* Together: what a batch assumes is an inductive invariant. *)
LEMMA BatchInvariant == Spec => [](TypeOK /\ PlanHeld /\ CleanInv /\ BatchInv)
<1>1. Init => TypeOK /\ PlanHeld /\ CleanInv /\ BatchInv
  <2> SUFFICES ASSUME Init PROVE TypeOK /\ PlanHeld /\ CleanInv /\ BatchInv
    OBVIOUS
  <2>1. TypeOK
    BY TypeInit
  <2>2. PlanHeld /\ CleanInv
    BY DEF Init, PlanHeld, Planned, CleanInv, TempsGone, NoneApplied, JournalGone,
         BackupsJournaled, BackupsPlanned, PlanIsJournal, DocumentBatch, BackupBatch,
         CleaningBatch, StartsClean, Unjournaled, BatchStages
  <2>3. BatchExact /\ LinksKept
    BY DEF Init, BatchExact, PathsUnique, LinksKept
  <2>4. MovesOK /\ BackedUp /\ LineagePlanned /\ IdleEmpty
    BY DEF Init, MovesOK, BackedUp, LineagePlanned, IdleEmpty
  <2> QED
    BY <2>1, <2>2, <2>3, <2>4 DEF BatchInv
<1>2. TypeOK /\ PlanHeld /\ CleanInv /\ BatchInv /\ [Next]_vars =>
          (TypeOK /\ PlanHeld /\ CleanInv /\ BatchInv)'
  <2> SUFFICES ASSUME TypeOK, PlanHeld, CleanInv, BatchInv, [Next]_vars
               PROVE  (TypeOK /\ PlanHeld /\ CleanInv /\ BatchInv)'
    OBVIOUS
  <2>1. TypeOK' /\ PlanHeld' /\ CleanInv'
    BY TypeStep, PlanStep, CleanStep
  <2>2. BatchExact' /\ LinksKept'
    BY ExactStep
  <2>3. MovesOK' /\ BackedUp' /\ LineagePlanned'
    BY MovesStep, BackedUpStep, LineagePlannedStep DEF BatchInv
  <2>4. IdleEmpty'
    BY DEF BatchInv, IdleEmpty, Next, Recovery, Batch, Progress, Failing, Operation,
         Begin, OperatorRemovesLock, RecoverNothing, RecoverLeftovers, RecoverMove,
         RecoveryRefused, RemoveTemps, RecoveryDone, PublishNext, RollBackNext,
         RollBackDone, BackupsDone, MoveDone, MutationDone, FailureDone, WriteJournal,
         RemoveJournal, Get, Reject, Create, Update, Version, Move, Mutate, Synchronize,
         PublishFails, RemoveTempsFails, WriteJournalFails, RemoveJournalFails,
         IssueLink, Crash, BatchDone, Release, EndCall, batch, control, vars,
         CleanInv, NoneApplied, BatchStages
  <2> QED
    BY <2>1, <2>2, <2>3, <2>4 DEF BatchInv
<1> QED
  BY <1>1, <1>2, PTL DEF Spec

(* What a batch assumed of a file when it was built holds until that file  *)
(* is published, whatever was published, undone or left undone before it.  *)
THEOREM BatchesFindWhatTheyExpect == Spec => []ExpectationsHold
<1>1. BatchInv => ExpectationsHold
  BY DEF BatchInv, BatchExact, ExpectationsHold, There, Touched
<1> QED
  BY <1>1, BatchInvariant, PTL

(* Between calls, when no move is interrupted, every document an issue     *)
(* links is an active document, through every failure and every death of   *)
(* a process.                                                              *)
THEOREM LinksStayResolved == Spec => []LinksResolve
<1>1. BatchInv => LinksResolve
  BY DEF BatchInv, LinksKept, LinksResolve, LinksValid, Names
<1> QED
  BY <1>1, BatchInvariant, PTL

-----------------------------------------------------------------------------
(* Interrupted moves, and what they come to: as long as nothing is reported *)
(* as failed that took effect, the journal is backed; if moreover roll-backs *)
(* work and no process dies within a change of title, DocumentStore          *)
(* implements LineageStore                                                   *)

\* The files once the running batch is undone, and once it is done.
Undone == (files \ UNION {r.after : r \in applied}) \cup UNION {r.before : r \in applied}
Done   == (files \ UNION {r.before : r \in pending}) \cup UNION {r.after : r \in pending}

\* The lineage that journal value j names, at location l; at either end of the move.
Side(j, l) == {At(e, j.doc, l) : e \in j.entries}
Sides(j)   == Side(j, j.source) \cup Side(j, j.destination)

\* What LineageStore calls a change of documents D into E, moves aside.
Changes(D, E) ==
    \/ \E d \in Docs, t \in Titles, v \in Revisions :
           /\ \A f \in D : f.doc # d
           /\ E = D \cup {[loc |-> "active", doc |-> d, ver |-> 1, title |-> t, rev |-> v]}
    \/ \E f \in D, t \in Titles, v \in Revisions :
           /\ f.loc = "active" /\ \A g \in D : g.doc = f.doc => g.ver <= f.ver
           /\ \/ E = (D \ {f}) \cup {[f EXCEPT !.title = t, !.rev = v]}
              \/ /\ f.ver < MaxVersion
                 /\ E = D \cup {[f EXCEPT !.ver = f.ver + 1, !.title = t, !.rev = v]}

\* A batch on backups touches no document.
SparesDocuments ==
    \/ stage \in {"orphans", "unbackup", "discard", "backups"}
    \/ stage = "temps" /\ journal = NoJournal
    => \A r \in pending \cup applied : Documents(Touched(r)) = {}

\* While a journal is on disk its backups are, its lineage is at the two ends of
\* the move, and the running batch touches nothing else.
MoveContained ==
    journal # NoJournal =>
        /\ stage # "discard"
        /\ BackupsOf(journal) \subseteq files
        /\ Lineage(files, journal.doc) \subseteq Sides(journal)
        /\ \A r \in pending \cup applied : Touched(r) \subseteq Sides(journal)

\* A move ends with the whole lineage at one end.
MoveWhole ==
    /\ stage = "move" =>
           /\ Lineage(Undone, plan.doc) = Side(plan, plan.source)
           /\ ~undoing => Lineage(Done, plan.doc) = Side(plan, plan.destination)
    /\ (stage = "restore" \/ (stage = "temps" /\ journal # NoJournal)) /\ ~undoing =>
           Lineage(Done, plan.doc) = Side(plan, plan.source)
    /\ stage = "unjournal" =>
           Lineage(files, plan.doc) \in {Side(plan, plan.source), Side(plan, plan.destination)}

\* A batch of the operations that change one document does just that.
ChangeWhole ==
    stage = "mutate" =>
        /\ \A r \in pending \cup applied : Documents(Touched(r)) = Touched(r)
        /\ ~undoing => Changes(Documents(Undone), Documents(Done))

WholeInv == SparesDocuments /\ MoveContained /\ MoveWhole /\ ChangeWhole

(* Different replacements of an exact batch touch different files. *)
LEMMA BatchDisjoint ==
    ASSUME BatchExact
    PROVE  \A r, q \in pending \cup applied : r # q => Touched(r) \cap Touched(q) = {}
  BY SamePathEquivalence DEF BatchExact, Apart

(* Publishing a replacement changes neither what the batch started from    *)
(* nor what it is to reach.                                                *)
LEMMA PublishKeepsEnds ==
    ASSUME BatchExact, NEW r \in pending, Apply(r),
           pending' = pending \ {r}, applied' = applied \cup {r}
    PROVE  Done' = Done /\ Undone' = Undone
<1>1. \A q \in (pending \cup applied) \ {r} : Touched(r) \cap Touched(q) = {}
  BY BatchDisjoint
<1>2. r.before \subseteq files /\ \A f \in files : f \in r.after => f \in r.before
  BY SamePathEquivalence DEF BatchExact, There, Touched
<1>3. r \notin applied
  BY DEF BatchExact
<1>4. ASSUME NEW f PROVE f \in Done' <=> f \in Done
  <2>1. CASE f \in Touched(r)
    <3>1. \A q \in pending \ {r} : f \notin q.before /\ f \notin q.after
      BY <1>1, <2>1 DEF Touched
    <3>2. f \in Done <=> f \in r.after
      BY <1>2, <2>1, <3>1 DEF Done, Touched
    <3>3. f \in Done' <=> f \in r.after
      BY <2>1, <3>1 DEF Done, Touched, Apply
    <3> QED
      BY <3>2, <3>3
  <2>2. CASE f \notin Touched(r)
    BY <2>2 DEF Done, Touched, Apply
  <2> QED
    BY <2>1, <2>2
<1>5. ASSUME NEW f PROVE f \in Undone' <=> f \in Undone
  <2>1. CASE f \in Touched(r)
    <3>1. \A q \in applied : f \notin q.before /\ f \notin q.after
      BY <1>1, <1>3, <2>1 DEF Touched
    <3>2. f \in Undone' <=> f \in r.before
      BY <2>1, <3>1 DEF Undone, Touched, Apply
    <3>3. f \in Undone <=> f \in r.before
      BY <1>2, <2>1, <3>1 DEF Undone, Touched
    <3> QED
      BY <3>2, <3>3
  <2>2. CASE f \notin Touched(r)
    BY <2>2 DEF Undone, Touched, Apply
  <2> QED
    BY <2>1, <2>2
<1> QED
  BY <1>4, <1>5

(* Neither does undoing one change what the batch started from. *)
LEMMA UnpublishKeepsStart ==
    ASSUME BatchExact, NEW r \in applied, Unapply(r), applied' = applied \ {r}
    PROVE  Undone' = Undone
<1>1. \A q \in applied \ {r} : Touched(r) \cap Touched(q) = {}
  BY BatchDisjoint
<1>2. ASSUME NEW f PROVE f \in Undone' <=> f \in Undone
  <2>1. CASE f \in Touched(r)
    <3>1. \A q \in applied \ {r} : f \notin q.before /\ f \notin q.after
      BY <1>1, <2>1 DEF Touched
    <3>2. f \in Undone' <=> f \in r.before
      BY <2>1, <3>1 DEF Undone, Touched, Unapply
    <3>3. f \in Undone <=> f \in r.before
      <4>1. f \in files <=> f \in r.after
        BY <2>1, SamePathEquivalence DEF BatchExact, There
      <4> QED
        BY <2>1, <3>1, <4>1 DEF Undone, Touched
    <3> QED
      BY <3>2, <3>3
  <2>2. CASE f \notin Touched(r)
    BY <2>2 DEF Undone, Touched, Unapply
  <2> QED
    BY <2>1, <2>2
<1> QED
  BY <1>2

(* A batch of which nothing is applied starts from what is on disk; one of *)
(* which nothing is pending has reached it.                                *)
LEMMA EmptyEnds ==
    /\ applied = {} => Undone = files
    /\ pending = {} => Done = files
    /\ applied' = {} => Undone' = files'
    /\ pending' = {} => Done' = files'
  BY DEF Undone, Done

(* What touches no document leaves the documents alone. *)
LEMMA DocumentsSpared ==
    ASSUME NEW r, Documents(Touched(r)) = {}, Apply(r) \/ Unapply(r)
    PROVE  Documents(files') = Documents(files)
  BY DEF Documents, Touched, Apply, Unapply

(* Every step keeps batches on backups away from the documents. *)
LEMMA SparesStep ==
    TypeOK /\ PlanHeld /\ CleanInv /\ BatchInv /\ SparesDocuments /\ [Next]_vars
        => SparesDocuments'
<1> SUFFICES ASSUME TypeOK, PlanHeld, CleanInv, BatchInv, SparesDocuments, [Next]_vars
             PROVE  SparesDocuments'
  OBVIOUS
<1> USE DEF BatchStages
<1>0. \A j : Documents(BackupsOf(j)) = {}
  BY DEF Documents, BackupsOf, At, Locations
<1>1. CASE RecoverLeftovers
  <2>1. pending' = {Delete(b) : b \in Backups(files)} /\ applied' = {}
    BY <1>1 DEF RecoverLeftovers, CleanInv, NoneApplied
  <2>2. \A b \in Backups(files) : Documents(Touched(Delete(b))) = {}
    BY DEF Backups, Documents, Touched, Delete, Locations
  <2> QED
    BY <2>1, <2>2 DEF SparesDocuments
<1>2. CASE WriteJournalFails \/ RemoveJournal \/ \E d \in Docs, s, l \in Locations : Move(d, s, l)
  <2>1. PICK j : j = plan'
    OBVIOUS
  <2>2. /\ applied' = {}
        /\ \/ pending' = BackupDeletes(j)
           \/ pending' = BackupWrites(j) /\ Backups(files) = {}
    BY <1>2, <2>1 DEF WriteJournalFails, RemoveJournal, Move, Ready, disk, CleanInv,
         NoneApplied, StartsClean
  <2>3. \A r \in BackupDeletes(j) : Touched(r) \subseteq BackupsOf(j)
    BY DEF Touched, BackupDeletes, BackupsOf, Delete
  <2>4. Backups(files) = {} =>
            \A r \in BackupWrites(j) : Touched(r) \subseteq BackupsOf(j)
    BY BackupWritesFresh DEF Touched
  <2>5. \A r \in pending' : Touched(r) \subseteq BackupsOf(j)
    BY <2>2, <2>3, <2>4
  <2> QED
    BY <1>0, <2>2, <2>5 DEF SparesDocuments, Documents
<1>3. CASE ~(\/ RecoverLeftovers \/ WriteJournalFails \/ RemoveJournal
             \/ \E d \in Docs, s, l \in Locations : Move(d, s, l))
  <2> SUFFICES ASSUME \/ stage' \in {"orphans", "unbackup", "discard", "backups"}
                      \/ stage' = "temps" /\ journal' = NoJournal
               PROVE  \A r \in pending' \cup applied' : Documents(Touched(r)) = {}
    BY DEF SparesDocuments
  <2>1. /\ \/ stage \in {"orphans", "unbackup", "discard", "backups"}
           \/ stage = "temps" /\ journal = NoJournal
        /\ pending' \cup applied' \subseteq pending \cup applied
    BY <1>3 DEF Next, Recovery, Batch, Progress, Failing, Operation,
         Begin, OperatorRemovesLock, RecoverNothing, RecoverLeftovers, RecoverMove,
         RecoveryRefused, RemoveTemps, RecoveryDone, PublishNext, RollBackNext,
         RollBackDone, BackupsDone, MoveDone, MutationDone, FailureDone, WriteJournal,
         RemoveJournal, Get, Reject, Create, Update, Version, Move, Mutate, Synchronize,
         PublishFails, RemoveTempsFails, WriteJournalFails, RemoveJournalFails,
         IssueLink, Crash, BatchDone, Release, EndCall, disk, batch, control, vars
  <2> QED
    BY <2>1 DEF SparesDocuments
<1> QED
  BY <1>1, <1>2, <1>3

(* The batches of a move stay at the two ends of the move. *)
LEMMA MoveBatchesContained ==
    ASSUME NEW j \in Journal, Lineage(files, j.doc) \subseteq Sides(j),
           NEW r \in MoveReplacements(j) \cup RestoreReplacements(j)
    PROVE  Touched(r) \subseteq Sides(j)
<1>1. PICK e \in j.entries, l \in {j.source, j.destination} :
          r = Write(At(e, j.doc, l)) \/ r = Delete(At(e, j.doc, l))
  BY DEF MoveReplacements, RestoreReplacements
<1>2. At(e, j.doc, l) \in Sides(j) /\ l \in Locations
  BY JournalType DEF Sides, Side
<1>3. {g \in files : SamePath(At(e, j.doc, l), g)} \subseteq Lineage(files, j.doc)
  BY <1>2 DEF SamePath, At, Lineage, Documents, Locations
<1> QED
  BY <1>1, <1>2, <1>3 DEF Touched, Write, Delete

(* Every step keeps the lineage of a journal at the two ends of the move. *)
LEMMA ContainedStep ==
    ASSUME "after" \notin Faults, TypeOK, PlanHeld, CleanInv, BatchInv, MoveContained,
           [Next]_vars
    PROVE  MoveContained'
<1> USE DEF BatchStages
<1>1. CASE WriteJournal
  <2>1. PICK j : j = plan
    OBVIOUS
  <2>2. /\ stage = "journal" /\ journal' = j /\ files' = files /\ applied' = {}
        /\ pending' = MoveReplacements(j) /\ stage' = "move" /\ j # NoJournal
    BY <1>1, <2>1 DEF WriteJournal, CleanInv, NoneApplied, PlanHeld, Planned
  <2>3. /\ j \in Journal /\ Lineage(files, j.doc) = Side(j, j.source)
        /\ BackupsOf(j) \subseteq files
    BY <2>1, <2>2 DEF BatchInv, BackedUp, LineagePlanned, TypeOK, Side
  <2>4. Lineage(files, j.doc) \subseteq Sides(j)
    BY <2>3 DEF Sides
  <2>5. \A r \in pending' : Touched(r) \subseteq Sides(j)
    BY <2>2, <2>3, <2>4, MoveBatchesContained
  <2> QED
    BY <2>2, <2>3, <2>4, <2>5 DEF MoveContained, BackupsOf, Sides, Side, Lineage, Documents
<1>2. CASE RecoverMove
  <2>1. PICK j : j = journal
    OBVIOUS
  <2>2. /\ journal' = j /\ files' = files /\ applied' = {} /\ stage' = "temps"
        /\ pending' = RestoreReplacements(j) /\ j # NoJournal
    BY <1>2, <2>1 DEF RecoverMove, CleanInv, NoneApplied, disk
  <2>3. /\ j \in Journal /\ Lineage(files, j.doc) \subseteq Sides(j)
        /\ BackupsOf(j) \subseteq files
    BY <2>1, <2>2 DEF MoveContained, TypeOK
  <2>4. \A r \in pending' : Touched(r) \subseteq Sides(j)
    BY <2>2, <2>3, MoveBatchesContained
  <2> QED
    BY <2>2, <2>3, <2>4 DEF MoveContained, BackupsOf, Sides, Side, Lineage, Documents
<1>3. CASE PublishNext \/ PublishFails \/ RollBackNext
  <2> SUFFICES ASSUME journal # NoJournal PROVE MoveContained'
    BY <1>3 DEF PublishNext, PublishFails, RollBackNext, MoveContained
  <2>1. PICK j : j = journal
    OBVIOUS
  <2>2. journal' = j /\ stage' = stage
    BY <1>3, <2>1 DEF PublishNext, PublishFails, RollBackNext, control
  <2>3. PICK r \in pending \cup applied :
            /\ Apply(r) \/ Unapply(r) \/ files' = files
            /\ pending' \cup applied' \subseteq pending \cup applied
    BY <1>3 DEF PublishNext, PublishFails, RollBackNext
  <2>4. /\ Lineage(files, j.doc) \subseteq Sides(j) /\ stage # "discard"
        /\ \A q \in pending \cup applied : Touched(q) \subseteq Sides(j)
    BY <2>1 DEF MoveContained
  <2>5. files' \subseteq files \cup Touched(r)
    BY <2>3 DEF Touched, Apply, Unapply
  <2>6. Lineage(files', j.doc) \subseteq Sides(j)
    BY <2>4, <2>5 DEF Lineage, Documents
  <2>7. stage \in {"restore", "move"}
    BY <1>3, <2>3 DEF MoveContained, CleanInv, JournalGone, Unjournaled, NoneApplied,
         PublishNext, PublishFails, RollBackNext
  <2>8. Backups(r.before \cup r.after) = {}
    BY <2>7 DEF CleanInv, DocumentBatch
  <2>9. BackupsOf(j) \subseteq files'
    BY <2>1, <2>3, <2>8, BackupsSurvive DEF MoveContained
  <2> QED
    BY <2>2, <2>3, <2>4, <2>6, <2>9
       DEF MoveContained, BackupsOf, Sides, Side, Lineage, Documents
<1>4. CASE ~(WriteJournal \/ RecoverMove \/ PublishNext \/ PublishFails \/ RollBackNext)
  <2> SUFFICES ASSUME journal' # NoJournal PROVE MoveContained'
    BY DEF MoveContained
  <2>1. /\ journal' = journal /\ files' = files /\ stage' # "discard"
        /\ pending' \subseteq pending /\ applied' \subseteq applied
    BY <1>4 DEF Next, Recovery, Batch, Progress, Failing, Operation,
         Begin, OperatorRemovesLock, RecoverNothing, RecoverLeftovers,
         RecoveryRefused, RemoveTemps, RecoveryDone,
         RollBackDone, BackupsDone, MoveDone, MutationDone, FailureDone,
         RemoveJournal, Get, Reject, Create, Update, Version, Move, Ready, Mutate, Synchronize,
         RemoveTempsFails, WriteJournalFails, RemoveJournalFails,
         IssueLink, Crash, BatchDone, Release, EndCall, Fault, disk, batch, control, vars,
         CleanInv, StartsClean, JournalGone, Unjournaled, MoveContained
  <2> QED
    BY <2>1 DEF MoveContained, BackupsOf, Sides, Side, Lineage, Documents
<1> QED
  BY <1>1, <1>2, <1>3, <1>4

(* The journal on disk always has its backups and agrees with both         *)
(* locations, so that recovery never refuses what the store itself did: a  *)
(* journal write reported as failed although it took effect is the only    *)
(* way to lose that, and it is what the hypothesis leaves out.             *)
THEOREM JournalsStayBacked ==
    ASSUME "after" \notin Faults
    PROVE  Spec => []JournalBacked
<1>1. Init => MoveContained
  BY DEF Init, MoveContained
<1>2. TypeOK /\ PlanHeld /\ CleanInv /\ BatchInv /\ MoveContained /\ [Next]_vars
          => MoveContained'
  BY ContainedStep
<1>3. TypeOK /\ BatchInv /\ MoveContained => JournalBacked
  <2> SUFFICES ASSUME TypeOK, BatchInv, MoveContained, journal # NoJournal
               PROVE  JournalVerified(journal)
    BY DEF JournalBacked
  <2>1. PICK j : j = journal
    OBVIOUS
  <2>2. /\ j \in Journal /\ MoveOK(j) /\ BackupsOf(j) \subseteq files
        /\ Lineage(files, j.doc) \subseteq Sides(j)
    BY <2>1 DEF TypeOK, BatchInv, MovesOK, MoveContained
  <2>3. ASSUME NEW e \in j.entries, NEW l \in {j.source, j.destination}, NEW f \in files,
               SamePath(f, At(e, j.doc, l))
        PROVE  f.rev = e.rev
    <3>1. f \in Lineage(files, j.doc)
      BY <2>2, <2>3, JournalType DEF SamePath, At, Lineage, Documents, Locations
    <3>2. PICK h \in j.entries, k \in {j.source, j.destination} : f = At(h, j.doc, k)
      BY <2>2, <3>1 DEF Sides, Side
    <3>3. h = e
      BY <2>2, <2>3, <3>2, EntriesApart
    <3> QED
      BY <3>2, <3>3 DEF At
  <2> QED
    BY <2>1, <2>2, <2>3 DEF JournalVerified, BackupsOf
<1> QED
  BY <1>1, <1>2, <1>3, BatchInvariant, PTL DEF Spec

(* The files of one end of a move are there. *)
LEMMA SideFiles ==
    \A j, l : \A f \in Side(j, l) : f.loc = l /\ f.doc = j.doc
  BY DEF Side, At

(* A file is what its writing leaves and its deletion expects. *)
LEMMA FileReplaced == \A f : f \in Write(f).after /\ f \in Delete(f).before
  BY DEF Write, Delete

(* A move writes every destination and deletes every source, its recovery  *)
(* writes every source.                                                    *)
LEMMA SideReplaced ==
    ASSUME NEW j
    PROVE  /\ \A f \in Side(j, j.destination) : Write(f) \in MoveReplacements(j)
           /\ \A f \in Side(j, j.source) : Delete(f) \in MoveReplacements(j)
           /\ \A f \in Side(j, j.source) : Write(f) \in RestoreReplacements(j)
<1>1. \A f \in Side(j, j.destination) : Write(f) \in MoveReplacements(j)
  BY DEF Side, MoveReplacements
<1>2. \A f \in Side(j, j.source) : Delete(f) \in MoveReplacements(j)
  BY DEF Side, MoveReplacements
<1>3. \A f \in Side(j, j.source) : Write(f) \in RestoreReplacements(j)
  BY DEF Side, RestoreReplacements
<1> QED
  BY <1>1, <1>2, <1>3

(* A move that is done has its whole lineage at the destination. *)
LEMMA MoveReaches ==
    ASSUME NEW j \in Journal, MoveOK(j), Lineage(files, j.doc) = Side(j, j.source),
           pending' = MoveReplacements(j), files' = files
    PROVE  Lineage(Done', j.doc) = Side(j, j.destination)
<1>1. j.source # j.destination /\ j.source \in Locations /\ j.destination \in Locations
  BY JournalType DEF MoveOK
<1>2. \A f \in Side(j, j.destination) : /\ f.loc = j.destination /\ f.doc = j.doc
                                        /\ Write(f) \in pending' /\ f \in Write(f).after
  BY SideFiles, FileReplaced, SideReplaced
<1>3. \A f \in Side(j, j.source) : /\ f.loc = j.source /\ Delete(f) \in pending'
                                   /\ f \in Delete(f).before
  BY SideFiles, FileReplaced, SideReplaced
<1>4. \A r \in pending' : r.after \subseteq Side(j, j.destination)
  BY DEF Side, MoveReplacements, Write, Delete
<1>5. Side(j, j.destination) \subseteq Lineage(Done', j.doc)
  BY <1>1, <1>2 DEF Lineage, Documents, Done
<1>6. \A f \in Lineage(Done', j.doc) : f \in Side(j, j.destination)
  BY <1>3, <1>4 DEF Lineage, Documents, Done
<1> QED
  BY <1>5, <1>6

(* A recovered move has its whole lineage at the source. *)
LEMMA RestoreReaches ==
    ASSUME NEW j \in Journal, Lineage(files, j.doc) \subseteq Sides(j),
           pending' = RestoreReplacements(j), files' = files
    PROVE  Lineage(Done', j.doc) = Side(j, j.source)
<1>1. j.source \in Locations /\ j.destination \in Locations
  BY JournalType
<1>2. \A f \in Side(j, j.source) : /\ f.loc = j.source /\ f.doc = j.doc
                                   /\ Write(f) \in pending' /\ f \in Write(f).after
  BY SideFiles, FileReplaced, SideReplaced
<1>3. \A f \in Side(j, j.destination) \cap files : Delete(f) \in pending' /\ f \in Delete(f).before
  BY DEF Side, RestoreReplacements, Delete
<1>4. \A r \in pending' : r.after \subseteq Side(j, j.source)
  BY DEF Side, RestoreReplacements, Write, Delete
<1>5. Side(j, j.source) \subseteq Lineage(Done', j.doc)
  BY <1>1, <1>2 DEF Lineage, Documents, Done
<1>6. \A f \in Lineage(Done', j.doc) : f \in Side(j, j.source)
  BY <1>3, <1>4 DEF Lineage, Documents, Done, Sides
<1> QED
  BY <1>5, <1>6

(* Every step keeps a move whole. *)
LEMMA WholeStep ==
    ASSUME "after" \notin Faults, "rollback" \notin Faults,
           TypeOK, PlanHeld, CleanInv, BatchInv, MoveContained, MoveWhole, [Next]_vars
    PROVE  MoveWhole'
<1> USE DEF BatchStages
<1>1. CASE WriteJournal
  <2>1. PICK j : j = plan
    OBVIOUS
  <2>2. /\ stage = "journal" /\ plan' = j /\ files' = files /\ applied' = {}
        /\ pending' = MoveReplacements(j) /\ stage' = "move" /\ j # NoJournal
    BY <1>1, <2>1 DEF WriteJournal, CleanInv, NoneApplied, PlanHeld, Planned
  <2>3. j \in Journal /\ MoveOK(j) /\ Lineage(files, j.doc) = Side(j, j.source)
    BY <2>1, <2>2 DEF BatchInv, LineagePlanned, MovesOK, TypeOK, Side
  <2>4. Lineage(Done', j.doc) = Side(j, j.destination)
    BY <2>2, <2>3, MoveReaches
  <2>5. Lineage(Undone', j.doc) = Side(j, j.source)
    BY <2>2, <2>3, EmptyEnds
  <2> QED
    BY <2>2, <2>4, <2>5 DEF MoveWhole, Side, Lineage, Documents
<1>2. CASE RecoverMove
  <2>1. PICK j : j = journal
    OBVIOUS
  <2>2. /\ plan' = j /\ files' = files /\ stage' = "temps"
        /\ pending' = RestoreReplacements(j) /\ j # NoJournal
    BY <1>2, <2>1 DEF RecoverMove, disk
  <2>3. j \in Journal /\ Lineage(files, j.doc) \subseteq Sides(j)
    BY <2>1, <2>2 DEF MoveContained, TypeOK
  <2>4. Lineage(Done', j.doc) = Side(j, j.source)
    BY <2>2, <2>3, RestoreReaches
  <2> QED
    BY <2>2, <2>4 DEF MoveWhole, Side, Lineage, Documents
<1>3. CASE PublishNext \/ PublishFails \/ RollBackNext
  <2>1. /\ stage' = stage /\ plan' = plan /\ stage \in BatchStages
    BY <1>3 DEF PublishNext, PublishFails, RollBackNext, control, CleanInv, NoneApplied
  <2>2. Undone' = Undone /\ (~undoing' => ~undoing /\ Done' = Done)
    <3>1. CASE PublishNext
      BY <1>3, <3>1, PublishKeepsEnds DEF PublishNext, BatchInv
    <3>2. CASE PublishFails
      BY <3>2 DEF PublishFails, Fault, Undone
    <3>3. CASE RollBackNext
      BY <3>3, UnpublishKeepsStart DEF RollBackNext, Fault, BatchInv
    <3> QED
      BY <1>3, <3>1, <3>2, <3>3
  <2>3. PICK j : j = plan
    OBVIOUS
  <2>4. /\ stage = "move" =>
               /\ Lineage(Undone', j.doc) = Side(j, j.source)
               /\ ~undoing' => Lineage(Done', j.doc) = Side(j, j.destination)
        /\ stage = "restore" /\ ~undoing' => Lineage(Done', j.doc) = Side(j, j.source)
    BY <2>2, <2>3 DEF MoveWhole
  <2> QED
    BY <2>1, <2>3, <2>4 DEF MoveWhole, Side, Lineage, Documents
<1>4. CASE RollBackDone \/ MoveDone \/ RemoveTemps
  <2>1. PICK j : j = plan
    OBVIOUS
  <2>2. \/ stage' = "idle"
        \/ stage' = "orphans"
        \/ /\ plan' = j /\ files' = files /\ stage' = "unjournal"
           /\ Lineage(files, j.doc) \in {Side(j, j.source), Side(j, j.destination)}
        \/ /\ plan' = j /\ stage' = "restore" /\ Done' = Done /\ undoing' = undoing
           /\ ~undoing => Lineage(Done, j.doc) = Side(j, j.source)
    <3>1. CASE RollBackDone
      BY <2>1, <3>1, EmptyEnds DEF RollBackDone, Release, EndCall, MoveWhole, disk
    <3>2. CASE MoveDone
      BY <2>1, <3>2, EmptyEnds DEF MoveDone, BatchDone, MoveWhole, disk
    <3>3. CASE RemoveTemps
      BY <2>1, <3>3 DEF RemoveTemps, MoveWhole, Done, batch
    <3> QED
      BY <1>4, <3>1, <3>2, <3>3
  <2> QED
    BY <2>2 DEF MoveWhole, Side, Lineage, Documents
<1>5. CASE UNCHANGED vars
  BY <1>5 DEF vars, disk, control, batch, MoveWhole, Side, Lineage, Documents, Done, Undone
<1>6. CASE ~(\/ WriteJournal \/ RecoverMove \/ PublishNext \/ PublishFails \/ RollBackNext
             \/ RollBackDone \/ MoveDone \/ RemoveTemps \/ UNCHANGED vars)
  <2>1. /\ stage' \notin {"move", "restore", "unjournal"}
        /\ stage' = "temps" => journal' = NoJournal
    BY <1>6 DEF Next, Recovery, Batch, Progress, Failing, Operation,
         Begin, OperatorRemovesLock, RecoverNothing, RecoverLeftovers,
         RecoveryRefused, RecoveryDone, BackupsDone, MutationDone, FailureDone,
         RemoveJournal, Get, Reject, Create, Update, Version, Move, Mutate, Synchronize,
         RemoveTempsFails, WriteJournalFails, RemoveJournalFails,
         IssueLink, Crash, BatchDone, Release, EndCall, disk, control
  <2> QED
    BY <2>1 DEF MoveWhole
<1> QED
  BY <1>1, <1>2, <1>3, <1>4, <1>5, <1>6

(* Writing one file, and deleting another, does that to the documents. *)
LEMMA WriteDone ==
    ASSUME NEW g, g.loc \in Locations, files' = files,
           NEW old, \/ pending' = {Write(g)} /\ old = {}
                    \/ \E f : pending' = {Write(g), Delete(f)} /\ old = {f}
    PROVE  Documents(Done') = (Documents(files) \ (There(g) \cup old)) \cup {g}
<1>1. Write(g).before = There(g) /\ Write(g).after = {g}
  BY DEF Write, There
<1>2. \A f : Delete(f).before = {f} /\ Delete(f).after = {}
  BY DEF Delete
<1>3. UNION {r.before : r \in pending'} = There(g) \cup old
  BY <1>1, <1>2
<1>4. UNION {r.after : r \in pending'} = {g}
  BY <1>1, <1>2
<1>5. Done' = (files \ (There(g) \cup old)) \cup {g}
  BY <1>3, <1>4 DEF Done
<1> QED
  BY <1>5 DEF Documents

(* The operations that change one document plan to do just that. *)
LEMMA MutationReaches ==
    ASSUME TypeOK, PathsUnique,
           \/ \E d \in Docs, t \in Titles : Create(d, t)
           \/ \E f \in Documents(files), t \in Titles : Update(f, t) \/ Version(f, t)
    PROVE  /\ pending' # {}
           /\ \A r \in pending' : Documents(Touched(r)) = Touched(r)
           /\ Changes(Documents(files), Documents(Done'))
<1>1. files' = files /\ nextRev \in Revisions
  BY NextRevType DEF Create, Update, Version, Mutate, disk
<1>2. \A f : f.loc \in Locations =>
          /\ \A g \in Touched(Write(f)) : g.loc \in Locations
          /\ \A g \in Touched(Delete(f)) : g.loc \in Locations
  BY DEF Touched, Write, Delete, SamePath
<1>3. ASSUME NEW d \in Docs, NEW t \in Titles, Create(d, t)
      PROVE  /\ pending' # {}
             /\ \A r \in pending' : Documents(Touched(r)) = Touched(r)
             /\ Changes(Documents(files), Documents(Done'))
  <2> DEFINE g == [loc |-> "active", doc |-> d, ver |-> 1, title |-> t, rev |-> nextRev]
  <2>1. pending' = {Write(g)} /\ Lineage(files, d) = {}
    BY <1>3 DEF Create, Mutate
  <2>2. \A f \in Documents(files) : f.doc # d
    BY <2>1 DEF Lineage
  <2>3. g.loc \in Locations /\ g.loc # "backup" /\ g.doc = d
    BY DEF Locations
  <2> HIDE DEF g
  <2>4. There(g) = {}
    BY <2>2, <2>3 DEF There, SamePath, Documents
  <2>5. Documents(Done') = Documents(files) \cup {g}
    BY <1>1, <2>1, <2>3, <2>4, WriteDone
  <2>6. \A r \in pending' : Documents(Touched(r)) = Touched(r)
    BY <1>2, <2>1, <2>3 DEF Documents
  <2>7. Changes(Documents(files), Documents(Done'))
    BY <1>1, <2>2, <2>5 DEF Changes, g
  <2> QED
    BY <2>1, <2>6, <2>7
<1>4. ASSUME NEW f \in Documents(files), NEW t \in Titles, Update(f, t)
      PROVE  /\ pending' # {}
             /\ \A r \in pending' : Documents(Touched(r)) = Touched(r)
             /\ Changes(Documents(files), Documents(Done'))
  <2> DEFINE g == [f EXCEPT !.title = t, !.rev = nextRev]
  <2>1. f \in File /\ f \in files /\ f.loc \in Locations /\ f.loc = "active"
    BY <1>4 DEF Documents, TypeOK, Update
  <2>2. g.loc = f.loc /\ g.doc = f.doc /\ g.ver = f.ver /\ g.title = t
    BY <2>1 DEF File
  <2>3. \A h \in Documents(files) : h.doc = f.doc => h.ver <= f.ver
    BY <1>4 DEF Update, Current, Lineage
  <2>4. \A h \in Documents(files) : h.doc = f.doc /\ h.ver = f.ver => h = f
    <3>1. Coherent(Lineage(files, f.doc))
      BY <1>4, <2>1 DEF Update, Ready, SnapshotValid, File
    <3> QED
      BY <3>1 DEF Coherent, Lineage
  <2>5. pending' = {Write(g)} \cup (IF t = f.title THEN {} ELSE {Delete(f)})
    BY <1>4 DEF Update, Mutate
  <2> HIDE DEF g
  <2>6. There(g) \subseteq {f}
    BY <2>1, <2>2, <2>4 DEF There, SamePath, Documents
  <2>7. Documents(Done') = (Documents(files) \ {f}) \cup {g}
    <3>1. CASE t = f.title
      <4>1. There(g) = {f}
        BY <2>1, <2>2, <2>6, <3>1 DEF There, SamePath
      <4>2. pending' = {Write(g)}
        BY <2>5, <3>1
      <4>3. Documents(Done') = (Documents(files) \ (There(g) \cup {})) \cup {g}
        BY <1>1, <2>1, <2>2, <4>2, WriteDone
      <4> QED
        BY <4>1, <4>3
    <3>2. CASE t # f.title
      <4>1. pending' = {Write(g), Delete(f)}
        BY <2>5, <3>2
      <4>2. Documents(Done') = (Documents(files) \ (There(g) \cup {f})) \cup {g}
        BY <1>1, <2>1, <2>2, <4>1, WriteDone
      <4> QED
        BY <2>6, <4>2
    <3> QED
      BY <3>1, <3>2
  <2>8. \A r \in pending' : Documents(Touched(r)) = Touched(r)
    BY <1>2, <2>1, <2>2, <2>5 DEF Documents
  <2>9. Changes(Documents(files), Documents(Done'))
    <3>1. g = [f EXCEPT !.title = t, !.rev = nextRev]
      BY DEF g
    <3>2. \E h \in Documents(files), u \in Titles, v \in Revisions :
              /\ h.loc = "active" /\ \A i \in Documents(files) : i.doc = h.doc => i.ver <= h.ver
              /\ Documents(Done') =
                     (Documents(files) \ {h}) \cup {[h EXCEPT !.title = u, !.rev = v]}
      BY <1>1, <2>1, <2>3, <2>7, <3>1
    <3> QED
      BY <3>2 DEF Changes
  <2> QED
    BY <2>5, <2>8, <2>9
<1>5. ASSUME NEW f \in Documents(files), NEW t \in Titles, Version(f, t)
      PROVE  /\ pending' # {}
             /\ \A r \in pending' : Documents(Touched(r)) = Touched(r)
             /\ Changes(Documents(files), Documents(Done'))
  <2> DEFINE g == [f EXCEPT !.ver = f.ver + 1, !.title = t, !.rev = nextRev]
  <2>1. /\ f \in File /\ f \in files /\ f.loc \in Locations /\ f.loc = "active"
        /\ f.ver < MaxVersion
    BY <1>5 DEF Documents, TypeOK, Version
  <2>2. g.loc = f.loc /\ g.doc = f.doc /\ g.ver = f.ver + 1
    BY <2>1 DEF File
  <2>3. \A h \in Documents(files) : h.doc = f.doc => h.ver <= f.ver
    BY <1>5 DEF Version, Current, Lineage
  <2>4. pending' = {Write(g)}
    BY <1>5 DEF Version, Mutate
  <2> HIDE DEF g
  <2>5. There(g) = {}
    BY <2>1, <2>2, <2>3, DocumentRulesAssumption
       DEF There, SamePath, Documents, Locations, File, Versions
  <2>6. Documents(Done') = Documents(files) \cup {g}
    BY <1>1, <2>1, <2>2, <2>4, <2>5, WriteDone
  <2>7. \A r \in pending' : Documents(Touched(r)) = Touched(r)
    BY <1>2, <2>1, <2>2, <2>4 DEF Documents
  <2>8. Changes(Documents(files), Documents(Done'))
    <3>1. g = [f EXCEPT !.ver = f.ver + 1, !.title = t, !.rev = nextRev]
      BY DEF g
    <3>2. \E h \in Documents(files), u \in Titles, v \in Revisions :
              /\ h.loc = "active" /\ \A i \in Documents(files) : i.doc = h.doc => i.ver <= h.ver
              /\ h.ver < MaxVersion
              /\ Documents(Done') = Documents(files)
                     \cup {[h EXCEPT !.ver = h.ver + 1, !.title = u, !.rev = v]}
      BY <1>1, <2>1, <2>3, <2>6, <3>1
    <3> QED
      BY <3>2 DEF Changes
  <2> QED
    BY <2>4, <2>7, <2>8
<1> QED
  BY <1>3, <1>4, <1>5

(* Every step keeps the batch of a change whole. *)
LEMMA ChangeStep ==
    ASSUME "after" \notin Faults, "rollback" \notin Faults,
           TypeOK, PlanHeld, CleanInv, BatchInv, ChangeWhole, [Next]_vars
    PROVE  ChangeWhole'
<1> USE DEF BatchStages
<1>1. CASE \/ \E d \in Docs, t \in Titles : Create(d, t)
           \/ \E f \in Documents(files), t \in Titles : Update(f, t) \/ Version(f, t)
  <2>1. applied' = {} /\ files' = files
    BY <1>1 DEF Create, Update, Version, Mutate, Ready, disk, CleanInv, NoneApplied
  <2>2. /\ \A r \in pending' : Documents(Touched(r)) = Touched(r)
        /\ Changes(Documents(files), Documents(Done'))
    BY <1>1, MutationReaches DEF BatchInv, BatchExact
  <2>3. Undone' = files
    BY <2>1, EmptyEnds
  <2> QED
    BY <2>1, <2>2, <2>3 DEF ChangeWhole
<1>2. CASE PublishNext \/ PublishFails \/ RollBackNext
  <2>1. /\ stage' = stage /\ pending' \cup applied' \subseteq pending \cup applied
    BY <1>2 DEF PublishNext, PublishFails, RollBackNext, control
  <2>2. Undone' = Undone /\ (~undoing' => ~undoing /\ Done' = Done)
    <3>1. CASE PublishNext
      BY <1>2, <3>1, PublishKeepsEnds DEF PublishNext, BatchInv
    <3>2. CASE PublishFails
      BY <3>2 DEF PublishFails, Fault, Undone
    <3>3. CASE RollBackNext
      BY <3>3, UnpublishKeepsStart DEF RollBackNext, Fault, BatchInv
    <3> QED
      BY <1>2, <3>1, <3>2, <3>3
  <2> QED
    BY <2>1, <2>2 DEF ChangeWhole
<1>3. CASE UNCHANGED vars
  BY <1>3 DEF vars, disk, control, batch, ChangeWhole, Done, Undone
<1>4. CASE ~(\/ \E d \in Docs, t \in Titles : Create(d, t)
             \/ \E f \in Documents(files), t \in Titles : Update(f, t) \/ Version(f, t)
             \/ PublishNext \/ PublishFails \/ RollBackNext \/ UNCHANGED vars)
  <2>1. stage' # "mutate"
    BY <1>4 DEF Next, Recovery, Batch, Progress, Failing, Operation,
         Begin, OperatorRemovesLock, RecoverNothing, RecoverLeftovers, RecoverMove,
         RecoveryRefused, RecoveryDone, RemoveTemps, RollBackDone, BackupsDone, MoveDone,
         MutationDone, FailureDone, WriteJournal, RemoveJournal, Get, Reject, Move,
         Synchronize, RemoveTempsFails, WriteJournalFails, RemoveJournalFails,
         IssueLink, Crash, BatchDone, Release, EndCall, disk, control
  <2> QED
    BY <2>1 DEF ChangeWhole
<1> QED
  BY <1>1, <1>2, <1>3, <1>4

\* The committed documents between changes of one document: the source of an
\* interrupted move, and otherwise what is on disk.
Settled ==
    IF journal = NoJournal THEN Documents(files)
    ELSE (Documents(files) \ Lineage(files, journal.doc)) \cup Side(journal, journal.source)

(* Outside a change, and when it is complete, what is settled is committed. *)
LEMMA SettledIsCommitted ==
    /\ stage # "mutate" \/ (~undoing /\ pending = {}) => Committed = Settled
    /\ stage' # "mutate" \/ (~undoing' /\ pending' = {}) => Committed' = Settled'
<1>1. stage # "mutate" \/ (~undoing /\ pending = {}) => Committed = Settled
  BY DEF Committed, Settled, Side, Lineage, Documents
<1>2. stage' # "mutate" \/ (~undoing' /\ pending' = {}) => Committed' = Settled'
  BY DEF Committed, Settled, Side, Lineage, Documents
<1> QED
  BY <1>1, <1>2

(* During a change, what the batch started from is committed. *)
LEMMA StartIsCommitted ==
    ASSUME stage = "mutate", journal = NoJournal, undoing \/ pending # {},
           \A r \in pending \cup applied : Documents(Touched(r)) = Touched(r)
    PROVE  Committed = Documents(Undone)
<1>1. \A r \in applied : Documents(r.after) = r.after /\ Documents(r.before) = r.before
  BY DEF Documents, Touched
<1>2. Committed = (Documents(files) \ UNION {r.after : r \in applied})
                      \cup UNION {r.before : r \in applied}
  BY DEF Committed
<1> QED
  BY <1>1, <1>2 DEF Undone, Documents

(* ... after a step, too. *)
LEMMA StartIsCommittedNext ==
    ASSUME stage' = "mutate", journal' = NoJournal, undoing' \/ pending' # {},
           \A r \in pending' \cup applied' : Documents(Touched(r)) = Touched(r)
    PROVE  Committed' = Documents(Undone')
<1>1. \A r \in applied' : Documents(r.after) = r.after /\ Documents(r.before) = r.before
  BY DEF Documents, Touched
<1>2. Committed' = (Documents(files') \ UNION {r.after : r \in applied'})
                       \cup UNION {r.before : r \in applied'}
  BY DEF Committed
<1> QED
  BY <1>1, <1>2 DEF Undone, Documents

(* A change of the committed documents is a step of LineageStore. *)
LEMMA ChangesImplement ==
    ASSUME Changes(Committed, Committed')
    PROVE  Lineages!Next
<1> USE DEF Lineages!Lineage, Lineages!Revisions, Revisions
<1>1. ASSUME NEW d \in Docs, NEW t \in Titles, NEW v \in Revisions,
             \A f \in Committed : f.doc # d,
             Committed' = Committed \cup
                 {[loc |-> "active", doc |-> d, ver |-> 1, title |-> t, rev |-> v]}
      PROVE  Lineages!Next
  <2>1. Lineages!Create(d, t, v)
    BY <1>1 DEF Lineages!Create
  <2> QED
    BY <2>1 DEF Lineages!Next
<1>2. ASSUME NEW f \in Committed, NEW t \in Titles, NEW v \in Revisions,
             f.loc = "active", \A g \in Committed : g.doc = f.doc => g.ver <= f.ver,
             Committed' = (Committed \ {f}) \cup {[f EXCEPT !.title = t, !.rev = v]}
      PROVE  Lineages!Next
  <2>1. Lineages!Update(f, t, v)
    BY <1>2 DEF Lineages!Update, Lineages!IsCurrent
  <2> QED
    BY <2>1 DEF Lineages!Next
<1>3. ASSUME NEW f \in Committed, NEW t \in Titles, NEW v \in Revisions,
             f.loc = "active", \A g \in Committed : g.doc = f.doc => g.ver <= f.ver,
             f.ver < MaxVersion,
             Committed' = Committed \cup {[f EXCEPT !.ver = f.ver + 1, !.title = t, !.rev = v]}
      PROVE  Lineages!Next
  <2>1. Lineages!Version(f, t, v)
    BY <1>3 DEF Lineages!Version, Lineages!IsCurrent
  <2> QED
    BY <2>1 DEF Lineages!Next
<1> QED
  BY <1>1, <1>2, <1>3 DEF Changes

(* Removing the journal of a move that was published is a step of          *)
(* LineageStore: the whole lineage has moved.                              *)
LEMMA MoveImplements ==
    ASSUME NEW j \in Journal, MoveOK(j), NEW D, Committed' = D,
           {f \in D : f.doc = j.doc} = Side(j, j.destination),
           Committed = (D \ Side(j, j.destination)) \cup Side(j, j.source)
    PROVE  Lineages!Next
<1>1. j.doc \in Docs /\ j.destination \in Lineages!Locations /\ j.source # j.destination
  BY JournalType DEF Journal, Lineages!Locations, Locations, MoveOK
<1>2. Lineages!Lineage(j.doc) = Side(j, j.source)
  BY SideFiles DEF Lineages!Lineage
<1>3. {Lineages!Moved(f, j.destination) : f \in Side(j, j.source)} = Side(j, j.destination)
  <2>1. \A e : Lineages!Moved(At(e, j.doc, j.source), j.destination) = At(e, j.doc, j.destination)
    BY DEF Lineages!Moved, At
  <2> QED
    BY <2>1 DEF Side
<1>4. Lineages!Move(j.doc, j.destination)
  <2>1. \A f \in Side(j, j.source) : f.loc # j.destination
    BY <1>1, SideFiles
  <2>2. D = (Committed \ Side(j, j.source)) \cup Side(j, j.destination)
    <3>1. \A f \in D : f \in Side(j, j.source) => f \in Side(j, j.destination)
      BY SideFiles
    <3>2. Side(j, j.destination) \subseteq D
      OBVIOUS
    <3> QED
      BY <3>1, <3>2
  <2> QED
    BY <1>2, <1>3, <2>1, <2>2 DEF Lineages!Move
<1> QED
  BY <1>1, <1>4 DEF Lineages!Next

(* Every step is a step of LineageStore on the committed documents, or none. *)
LEMMA ImplementsStep ==
    ASSUME "after" \notin Faults, "rollback" \notin Faults,
           TypeOK, PlanHeld, CleanInv, BatchInv, WholeInv, WholeInv', CleanInv',
           [Next]_vars, [CrashesSpareRenames]_vars
    PROVE  [Lineages!Next]_(Lineages!vars)
<1> USE DEF BatchStages
<1> SUFFICES Lineages!Next \/ Committed' = Committed
  BY DEF Lineages!vars
<1>1. CASE RemoveJournal
  <2>1. PICK j : j = plan
    OBVIOUS
  <2>2. PICK D : D = Documents(files)
    OBVIOUS
  <2>3. /\ j \in Journal /\ MoveOK(j) /\ journal = j /\ j # NoJournal
        /\ stage = "unjournal" /\ stage' # "mutate" /\ journal' = NoJournal /\ files' = files
    BY <1>1, <2>1 DEF RemoveJournal, TypeOK, BatchInv, MovesOK, PlanHeld, Planned,
         CleanInv, PlanIsJournal
  <2>4. Lineage(files, j.doc) \in {Side(j, j.source), Side(j, j.destination)}
    BY <2>1, <2>3 DEF WholeInv, MoveWhole
  <2>5. /\ Committed = (D \ Lineage(files, j.doc)) \cup Side(j, j.source)
        /\ Committed' = D
    BY <2>2, <2>3, SettledIsCommitted DEF Settled
  <2>6. Lineage(files, j.doc) = {f \in D : f.doc = j.doc}
    BY <2>2 DEF Lineage
  <2>7. CASE Lineage(files, j.doc) = Side(j, j.source)
    BY <2>5, <2>6, <2>7
  <2>8. CASE Lineage(files, j.doc) = Side(j, j.destination)
    BY <2>3, <2>5, <2>6, <2>8, MoveImplements
  <2> QED
    BY <2>4, <2>7, <2>8
<1>2. CASE WriteJournal
  <2>1. PICK j : j = plan
    OBVIOUS
  <2>2. /\ j # NoJournal /\ journal = NoJournal /\ journal' = j /\ files' = files
        /\ stage = "journal" /\ stage' = "move"
    BY <1>2, <2>1 DEF WriteJournal, PlanHeld, Planned, CleanInv, JournalGone, Unjournaled
  <2>3. Lineage(files, j.doc) = Side(j, j.source)
    BY <2>1, <2>2 DEF BatchInv, LineagePlanned, Side
  <2>4. /\ Committed = Documents(files)
        /\ Committed' = (Documents(files) \ Lineage(files, j.doc)) \cup Side(j, j.source)
    BY <2>2, SettledIsCommitted DEF Settled, Side, Lineage, Documents
  <2> QED
    BY <2>3, <2>4 DEF Lineage
<1>3. CASE stage # "mutate" /\ (PublishNext \/ PublishFails \/ RollBackNext)
  <2>1. PICK r \in pending \cup applied : Apply(r) \/ Unapply(r) \/ files' = files
    BY <1>3 DEF PublishNext, PublishFails, RollBackNext
  <2>2. stage' = stage /\ journal' = journal /\ stage \in BatchStages
    BY <1>3 DEF PublishNext, PublishFails, RollBackNext, control, CleanInv, NoneApplied
  <2>3. CASE journal = NoJournal
    <3>1. stage \in {"orphans", "unbackup", "discard", "backups"}
      BY <1>3, <2>2, <2>3 DEF CleanInv, PlanIsJournal, PlanHeld, Planned
    <3>2. Documents(Touched(r)) = {}
      BY <3>1 DEF WholeInv, SparesDocuments
    <3>3. Documents(files') = Documents(files)
      BY <2>1, <3>2, DocumentsSpared
    <3> QED
      BY <1>3, <2>2, <2>3, <3>3, SettledIsCommitted DEF Settled
  <2>4. CASE journal # NoJournal
    <3>1. PICK j : j = journal
      OBVIOUS
    <3>2. Touched(r) \subseteq Sides(j)
      BY <2>4, <3>1 DEF WholeInv, MoveContained
    <3>3. \A f \in Touched(r) : f.doc = j.doc
      BY <3>2, SideFiles DEF Sides
    <3>4. Documents(files') \ Lineage(files', j.doc) = Documents(files) \ Lineage(files, j.doc)
      BY <2>1, <3>3 DEF Documents, Lineage, Apply, Unapply, Touched
    <3>5. /\ Committed = (Documents(files) \ Lineage(files, j.doc)) \cup Side(j, j.source)
          /\ Committed' = (Documents(files') \ Lineage(files', j.doc)) \cup Side(j, j.source)
      BY <1>3, <2>2, <2>4, <3>1, SettledIsCommitted DEF Settled, Side, Lineage, Documents
    <3> QED
      BY <3>4, <3>5
  <2> QED
    BY <2>3, <2>4
<1>4. CASE stage # "mutate" /\ stage' = "mutate"
  <2>1. \/ \E d \in Docs, t \in Titles : Create(d, t)
        \/ \E f \in Documents(files), t \in Titles : Update(f, t) \/ Version(f, t)
    BY <1>4 DEF Next, Recovery, Batch, Progress, Failing, Operation,
         Begin, OperatorRemovesLock, RecoverNothing, RecoverLeftovers, RecoverMove,
         RecoveryRefused, RecoveryDone, RemoveTemps, RollBackDone, BackupsDone, MoveDone,
         MutationDone, FailureDone, WriteJournal, RemoveJournal, Get, Reject, Move,
         Synchronize, RemoveTempsFails, WriteJournalFails, RemoveJournalFails,
         PublishNext, PublishFails, RollBackNext,
         IssueLink, Crash, BatchDone, Release, EndCall, disk, control, vars
  <2>2. /\ files' = files /\ applied' = {} /\ journal = NoJournal /\ journal' = NoJournal
    BY <2>1 DEF Create, Update, Version, Mutate, Ready, disk, CleanInv, NoneApplied,
         JournalGone, Unjournaled
  <2>3. pending' # {} /\ \A r \in pending' : Documents(Touched(r)) = Touched(r)
    BY <2>1, MutationReaches DEF BatchInv, BatchExact
  <2>4. Committed' = Documents(Undone')
    BY <1>4, <2>2, <2>3, StartIsCommittedNext
  <2>5. Undone' = files /\ Committed = Documents(files)
    BY <1>4, <2>2, EmptyEnds, SettledIsCommitted DEF Settled
  <2> QED
    BY <2>4, <2>5
<1>5. CASE stage = "mutate" /\ PublishNext
  <2>1. /\ journal = NoJournal /\ journal' = NoJournal /\ stage' = "mutate"
        /\ pending # {} /\ ~undoing /\ ~undoing'
    BY <1>5 DEF PublishNext, control, CleanInv, JournalGone, Unjournaled
  <2>2. Undone' = Undone /\ Done' = Done
    BY <1>5, PublishKeepsEnds DEF PublishNext, BatchInv
  <2>3. Committed = Documents(Undone)
    BY <1>5, <2>1, StartIsCommitted DEF WholeInv, ChangeWhole
  <2>4. CASE pending' = {}
    <3>1. Committed' = Documents(files')
      BY <2>1, <2>4, SettledIsCommitted DEF Settled
    <3>2. Done' = files'
      BY <2>4, EmptyEnds
    <3>3. Changes(Documents(Undone), Documents(Done))
      BY <1>5, <2>1 DEF WholeInv, ChangeWhole
    <3> QED
      BY <2>2, <2>3, <3>1, <3>2, <3>3, ChangesImplement
  <2>5. CASE pending' # {}
    <3>1. \A r \in pending' \cup applied' : Documents(Touched(r)) = Touched(r)
      BY <1>5 DEF WholeInv, ChangeWhole, PublishNext
    <3>2. Committed' = Documents(Undone')
      BY <2>1, <2>5, <3>1, StartIsCommittedNext
    <3> QED
      BY <2>2, <2>3, <3>2
  <2> QED
    BY <2>4, <2>5
<1>6. CASE stage = "mutate" /\ (PublishFails \/ RollBackNext)
  <2>1. /\ journal = NoJournal /\ journal' = NoJournal /\ stage' = "mutate"
        /\ undoing \/ pending # {}
        /\ undoing'
        /\ pending' \cup applied' \subseteq pending \cup applied
    BY <1>6 DEF PublishFails, RollBackNext, control, CleanInv, JournalGone, Unjournaled
  <2>2. Undone' = Undone
    <3>1. CASE PublishFails
      BY <3>1 DEF PublishFails, Fault, Undone
    <3>2. CASE RollBackNext
      BY <3>2, UnpublishKeepsStart DEF RollBackNext, Fault, BatchInv
    <3> QED
      BY <1>6, <3>1, <3>2
  <2>3. \A r \in pending \cup applied : Documents(Touched(r)) = Touched(r)
    BY <1>6 DEF WholeInv, ChangeWhole
  <2>4. Committed = Documents(Undone)
    BY <1>6, <2>1, <2>3, StartIsCommitted
  <2>5. Committed' = Documents(Undone')
    BY <2>1, <2>3, StartIsCommittedNext
  <2> QED
    BY <2>2, <2>4, <2>5
<1>7. CASE stage = "mutate" /\ (RollBackDone \/ MutationDone \/ Crash)
  <2>1. /\ journal = NoJournal /\ journal' = NoJournal /\ stage' # "mutate" /\ files' = files
    BY <1>7 DEF RollBackDone, MutationDone, BatchDone, Crash, Release, EndCall, disk,
         CleanInv, JournalGone, Unjournaled
  <2>2. applied = {} \/ (~undoing /\ pending = {})
    BY <1>7 DEF RollBackDone, MutationDone, BatchDone, Crash, CrashesSpareRenames, vars,
         bounds, TypeOK
  <2>3. Committed' = Documents(files)
    BY <2>1, SettledIsCommitted DEF Settled
  <2>4. CASE ~undoing /\ pending = {}
    BY <2>1, <2>3, <2>4, SettledIsCommitted DEF Settled
  <2>5. CASE applied = {} /\ (undoing \/ pending # {})
    <3>1. Committed = Documents(Undone)
      BY <1>7, <2>1, <2>5, StartIsCommitted DEF WholeInv, ChangeWhole
    <3> QED
      BY <2>3, <2>5, <3>1, EmptyEnds
  <2> QED
    BY <2>2, <2>4, <2>5
<1>8. CASE UNCHANGED vars
  BY <1>8 DEF vars, disk, control, batch, Committed, Lineage, Documents
<1>9. CASE /\ ~(RemoveJournal \/ WriteJournal \/ PublishNext \/ PublishFails \/ RollBackNext)
           /\ stage # "mutate" /\ stage' # "mutate"
  <2>1. journal' = journal /\ files' = files
    BY <1>9 DEF Next, Recovery, Batch, Progress, Failing, Operation,
         Begin, OperatorRemovesLock, RecoverNothing, RecoverLeftovers, RecoverMove,
         RecoveryRefused, RecoveryDone, RemoveTemps, RollBackDone, BackupsDone, MoveDone,
         MutationDone, FailureDone, Get, Reject, Create, Update, Version, Mutate, Move,
         Synchronize, RemoveTempsFails, WriteJournalFails, RemoveJournalFails,
         IssueLink, Crash, BatchDone, Fault, disk, vars, MoveContained, WholeInv,
         CleanInv, JournalGone, Unjournaled
  <2>2. Settled' = Settled
    BY <2>1 DEF Settled, Documents, Lineage, Side
  <2> QED
    BY <1>9, <2>2, SettledIsCommitted
<1>10. stage = "mutate" =>
           PublishNext \/ PublishFails \/ RollBackNext \/ RollBackDone \/ MutationDone
               \/ Crash \/ UNCHANGED vars
  BY DEF Next, Recovery, Batch, Progress, Failing, Operation,
       Begin, OperatorRemovesLock, RecoverNothing, RecoverLeftovers, RecoverMove,
       RecoveryRefused, RecoveryDone, RemoveTemps, BackupsDone, MoveDone,
       FailureDone, WriteJournal, RemoveJournal, Get, Reject, Create, Update, Version, Move,
       Ready, Synchronize, RemoveTempsFails, WriteJournalFails, RemoveJournalFails,
       IssueLink, BatchDone
<1> QED
  BY <1>1, <1>2, <1>3, <1>4, <1>5, <1>6, <1>7, <1>8, <1>9, <1>10

(* The batches stay whole. *)
LEMMA WholeInvariant ==
    ASSUME "after" \notin Faults, "rollback" \notin Faults
    PROVE  Spec => [](TypeOK /\ PlanHeld /\ CleanInv /\ BatchInv /\ WholeInv)
<1>1. Init => WholeInv
  BY DEF Init, WholeInv, SparesDocuments, MoveContained, MoveWhole, ChangeWhole
<1>2. TypeOK /\ PlanHeld /\ CleanInv /\ BatchInv /\ WholeInv /\ [Next]_vars => WholeInv'
  BY SparesStep, ContainedStep, WholeStep, ChangeStep DEF WholeInv
<1> QED
  BY <1>1, <1>2, BatchInvariant, PTL DEF Spec

(* The store implements LineageStore: on the committed documents, every    *)
(* step of it (recovery, publication, roll-back, the removal of a journal, *)
(* a death) is one whole operation or no change.  The hypotheses are the   *)
(* failures after which the code itself gives that up.                     *)
THEOREM ImplementsLineageStore ==
    ASSUME "after" \notin Faults, "rollback" \notin Faults
    PROVE  Spec /\ [][CrashesSpareRenames]_vars => RefinesLineageStore
<1> DEFINE Inv == TypeOK /\ PlanHeld /\ CleanInv /\ BatchInv /\ WholeInv
<1>1. Init => Lineages!Init
  BY DEF Init, Lineages!Init, Committed, Documents
<1>2. Inv /\ Inv' /\ [Next]_vars /\ [CrashesSpareRenames]_vars
          => [Lineages!Next]_(Lineages!vars)
  BY ImplementsStep
<1>3. Spec => []Inv
  BY WholeInvariant
<1> HIDE DEF Inv
<1> QED
  BY <1>1, <1>2, <1>3, PTL DEF Spec, RefinesLineageStore, Lineages!Spec

-----------------------------------------------------------------------------
(* What LineageStore promises, of the committed documents *)

(* An updated, versioned or moved document is a document. *)
LEMMA UpdatedType ==
    ASSUME NEW f \in Lineages!Document, NEW t \in Titles, NEW r \in Lineages!Revisions
    PROVE  [f EXCEPT !.title = t, !.rev = r] \in Lineages!Document
  BY DEF Lineages!Document

(* The successor of a version below the limit is a document. *)
LEMMA VersionedType ==
    ASSUME NEW f \in Lineages!Document, NEW t \in Titles, NEW r \in Lineages!Revisions,
           f.ver < MaxVersion
    PROVE  [f EXCEPT !.ver = f.ver + 1, !.title = t, !.rev = r] \in Lineages!Document
<1>1. f.ver + 1 \in Lineages!Versions
  BY DocumentRulesAssumption DEF Lineages!Document, Lineages!Versions
<1> QED
  BY <1>1 DEF Lineages!Document

(* Moving a document changes its location only. *)
LEMMA MovedType ==
    ASSUME NEW f \in Lineages!Document, NEW l \in Lineages!Locations
    PROVE  /\ Lineages!Moved(f, l) \in Lineages!Document /\ Lineages!Moved(f, l).loc = l
           /\ Lineages!Moved(f, l).doc = f.doc /\ Lineages!Moved(f, l).ver = f.ver
           /\ Lineages!Moved(f, l).title = f.title /\ Lineages!Moved(f, l).rev = f.rev
           /\ f.loc = l => Lineages!Moved(f, l) = f
  BY DEF Lineages!Document, Lineages!Moved

(* Operations keep the type of the set of documents. *)
LEMMA LineageTyped == Lineages!TypeOK /\ [Lineages!Next]_(Lineages!vars) => Lineages!TypeOK'
<1> SUFFICES ASSUME Lineages!TypeOK, [Lineages!Next]_(Lineages!vars) PROVE Lineages!TypeOK'
  OBVIOUS
<1> USE DEF Lineages!TypeOK
<1>1. ASSUME NEW d \in Docs, NEW t \in Titles, NEW r \in Lineages!Revisions,
             Lineages!Create(d, t, r)
      PROVE  Lineages!TypeOK'
  BY <1>1, DocumentRulesAssumption
     DEF Lineages!Create, Lineages!Document, Lineages!Locations, Lineages!Versions
<1>2. ASSUME NEW f \in Committed, NEW t \in Titles, NEW r \in Lineages!Revisions,
             Lineages!Update(f, t, r)
      PROVE  Lineages!TypeOK'
  <2>1. [f EXCEPT !.title = t, !.rev = r] \in Lineages!Document
    BY UpdatedType
  <2> QED
    BY <1>2, <2>1 DEF Lineages!Update
<1>3. ASSUME NEW f \in Committed, NEW t \in Titles, NEW r \in Lineages!Revisions,
             Lineages!Version(f, t, r)
      PROVE  Lineages!TypeOK'
  <2>1. [f EXCEPT !.ver = f.ver + 1, !.title = t, !.rev = r] \in Lineages!Document
    BY <1>3, VersionedType DEF Lineages!Version
  <2> QED
    BY <1>3, <2>1 DEF Lineages!Version
<1>4. ASSUME NEW d \in Docs, NEW l \in Lineages!Locations, Lineages!Move(d, l)
      PROVE  Lineages!TypeOK'
  <2>1. \A f \in Lineages!Lineage(d) : Lineages!Moved(f, l) \in Lineages!Document
    BY MovedType DEF Lineages!Lineage
  <2> QED
    BY <1>4, <2>1 DEF Lineages!Move
<1>5. CASE UNCHANGED Lineages!vars
  BY <1>5 DEF Lineages!vars
<1> QED
  BY <1>1, <1>2, <1>3, <1>4, <1>5 DEF Lineages!Next

(* Operations keep every lineage whole. *)
LEMMA CoherentStep ==
    Lineages!TypeOK /\ Lineages!Coherent /\ [Lineages!Next]_(Lineages!vars)
        => Lineages!Coherent'
<1> SUFFICES ASSUME Lineages!TypeOK, Lineages!Coherent, [Lineages!Next]_(Lineages!vars)
             PROVE  Lineages!Coherent'
  OBVIOUS
<1> USE DEF Lineages!TypeOK, Lineages!Coherent, Lineages!Lineage
<1>1. ASSUME NEW d \in Docs, NEW t \in Titles, NEW r \in Lineages!Revisions,
             Lineages!Create(d, t, r)
      PROVE  Lineages!Coherent'
  BY <1>1 DEF Lineages!Create, Lineages!Document
<1>2. ASSUME NEW f \in Committed, NEW t \in Titles, NEW r \in Lineages!Revisions,
             Lineages!Update(f, t, r)
      PROVE  Lineages!Coherent'
  <2> DEFINE g == [f EXCEPT !.title = t, !.rev = r]
  <2>1. g.loc = f.loc /\ g.doc = f.doc /\ g.ver = f.ver
    BY DEF Lineages!Document
  <2>2. Committed' = (Committed \ {f}) \cup {g}
    BY <1>2 DEF Lineages!Update
  <2> HIDE DEF g
  <2> QED
    BY <2>1, <2>2
<1>3. ASSUME NEW f \in Committed, NEW t \in Titles, NEW r \in Lineages!Revisions,
             Lineages!Version(f, t, r)
      PROVE  Lineages!Coherent'
  <2> DEFINE g == [f EXCEPT !.ver = f.ver + 1, !.title = t, !.rev = r]
  <2>1. g.loc = f.loc /\ g.doc = f.doc /\ g.ver = f.ver + 1
    BY DEF Lineages!Document
  <2>2. Committed' = Committed \cup {g}
    BY <1>3 DEF Lineages!Version
  <2>3. \A h \in Committed : h.doc = f.doc => h.ver \in Nat /\ h.ver <= f.ver /\ h.loc = f.loc
    BY <1>3, DocumentRulesAssumption
       DEF Lineages!Version, Lineages!IsCurrent, Lineages!Document, Lineages!Versions
  <2>4. f.ver \in Nat
    BY DocumentRulesAssumption DEF Lineages!Document, Lineages!Versions
  <2> HIDE DEF g
  <2>5. \A v \in 1..g.ver : v = g.ver \/ v \in 1..f.ver
    BY <2>1, <2>4
  <2> QED
    BY <2>1, <2>2, <2>3, <2>4, <2>5
<1>4. ASSUME NEW d \in Docs, NEW l \in Lineages!Locations, Lineages!Move(d, l)
      PROVE  Lineages!Coherent'
  <2>1. \A f \in Committed : f.doc = d => Lineages!Moved(f, l) \in Committed'
    BY <1>4 DEF Lineages!Move
  <2>2. \A f \in Committed : f.doc # d => f \in Committed'
    BY <1>4 DEF Lineages!Move
  <2>3. \A h \in Committed' : \/ h \in Committed /\ h.doc # d
                              \/ \E f \in Committed : f.doc = d /\ h = Lineages!Moved(f, l)
    BY <1>4 DEF Lineages!Move
  <2>4. \A f \in Committed : /\ Lineages!Moved(f, l).loc = l /\ Lineages!Moved(f, l).doc = f.doc
                             /\ Lineages!Moved(f, l).ver = f.ver
    BY MovedType
  <2>5. ASSUME NEW f \in Committed', NEW g \in Committed', g.doc = f.doc
        PROVE  g.loc = f.loc /\ (g.ver = f.ver => g = f)
    BY <2>3, <2>4, <2>5
  <2>6. ASSUME NEW f \in Committed', NEW v \in 1..f.ver
        PROVE  \E g \in Committed' : g.doc = f.doc /\ g.ver = v
    <3>1. CASE f \in Committed /\ f.doc # d
      BY <2>2, <2>6, <3>1
    <3>2. ASSUME NEW e \in Committed, e.doc = d, f = Lineages!Moved(e, l)
          PROVE  \E g \in Committed' : g.doc = f.doc /\ g.ver = v
      <4>1. f.doc = d /\ f.ver = e.ver
        BY <2>4, <3>2
      <4>2. PICK h \in Committed : h.doc = d /\ h.ver = v
        BY <2>6, <3>2, <4>1
      <4> QED
        BY <2>1, <2>4, <4>1, <4>2
    <3> QED
      BY <2>3, <3>1, <3>2
  <2> QED
    BY <2>5, <2>6
<1>5. CASE UNCHANGED Lineages!vars
  BY <1>5 DEF Lineages!vars
<1> QED
  BY <1>1, <1>2, <1>3, <1>4, <1>5 DEF Lineages!Next

(* A step keeps every version, and changes the newest active one at most.  *)
LEMMA RetainedStep == Lineages!TypeOK /\ Lineages!Next => \A f \in Committed : Lineages!Retained(f)
<1> SUFFICES ASSUME Lineages!TypeOK, Lineages!Next,
                    NEW f \in Committed PROVE Lineages!Retained(f)
  OBVIOUS
<1> USE DEF Lineages!TypeOK, Lineages!Retained
<1>1. ASSUME NEW d \in Docs, NEW t \in Titles, NEW r \in Lineages!Revisions,
             Lineages!Create(d, t, r)
      PROVE  Lineages!Retained(f)
  BY <1>1 DEF Lineages!Create
<1>2. ASSUME NEW h \in Committed, NEW t \in Titles, NEW r \in Lineages!Revisions, Lineages!Update(h, t,
             r)
      PROVE  Lineages!Retained(f)
  <2>1. [h EXCEPT !.title = t, !.rev = r].doc = h.doc
        /\ [h EXCEPT !.title = t, !.rev = r].ver = h.ver
    BY DEF Lineages!Document
  <2>2. CASE f # h
    BY <1>2, <2>2 DEF Lineages!Update
  <2>3. CASE f = h
    BY <1>2, <2>1, <2>3 DEF Lineages!Update
  <2> QED
    BY <2>2, <2>3
<1>3. ASSUME NEW h \in Committed, NEW t \in Titles, NEW r \in Lineages!Revisions, Lineages!Version(h, t,
             r)
      PROVE  Lineages!Retained(f)
  BY <1>3 DEF Lineages!Version
<1>4. ASSUME NEW d \in Docs, NEW l \in Lineages!Locations, Lineages!Move(d, l)
      PROVE  Lineages!Retained(f)
  <2>1. CASE f.doc # d
    BY <1>4, <2>1 DEF Lineages!Move, Lineages!Lineage
  <2>2. CASE f.doc = d
    BY <1>4, <2>2, MovedType DEF Lineages!Move, Lineages!Lineage
  <2> QED
    BY <2>1, <2>2
<1> QED
  BY <1>1, <1>2, <1>3, <1>4 DEF Lineages!Next

(* Every lineage is coherent: one location, versions 1 to n, once each.    *)
THEOREM LineagesCoherent == Lineages!Spec => []Lineages!Coherent
<1>1. Lineages!Init => Lineages!TypeOK /\ Lineages!Coherent
  BY DEF Lineages!Init, Lineages!TypeOK, Lineages!Coherent
<1>2. Lineages!TypeOK /\ Lineages!Coherent /\ [Lineages!Next]_(Lineages!vars)
          => (Lineages!TypeOK /\ Lineages!Coherent)'
  BY LineageTyped, CoherentStep
<1> QED
  BY <1>1, <1>2, PTL DEF Lineages!Spec

(* No version is deleted and no earlier version is rewritten.              *)
THEOREM NothingLost == Lineages!Spec => Lineages!VersionsRetained
<1>1. Lineages!Init => Lineages!TypeOK
  BY DEF Lineages!Init, Lineages!TypeOK
<1>2. Lineages!TypeOK /\ [Lineages!Next]_(Lineages!vars) => Lineages!TypeOK'
  BY LineageTyped
<1>3. Lineages!TypeOK /\ [Lineages!Next]_(Lineages!vars)
          => [\A f \in Committed : Lineages!Retained(f)]_(Lineages!vars)
  BY RetainedStep
<1> QED
  BY <1>1, <1>2, <1>3, PTL DEF Lineages!Spec, Lineages!VersionsRetained

(* What LineageStore promises, the files and the journal keep: committed   *)
(* lineages are coherent, and no step loses a version or rewrites an       *)
(* earlier one.                                                            *)
THEOREM StoreKeepsLineages ==
    ASSUME "after" \notin Faults, "rollback" \notin Faults
    PROVE  Spec /\ [][CrashesSpareRenames]_vars
               => []Lineages!Coherent /\ Lineages!VersionsRetained
<1>1. Spec /\ [][CrashesSpareRenames]_vars => Lineages!Spec
  BY ImplementsLineageStore DEF RefinesLineageStore
<1> QED
  BY <1>1, LineagesCoherent, NothingLost

-----------------------------------------------------------------------------
(* What a death in a change of title may do *)

SameVersion(f, g) == f.loc = "active" /\ g.loc = "active" /\ g.doc = f.doc /\ g.ver = f.ver
Newest(D, f)      == f \in D /\ \A g \in D : g.doc = f.doc => g.ver <= f.ver

\* The newest version of one active lineage is under both titles, or under none.
TornRename ==
    \E f \in Committed :
        /\ f.loc = "active" /\ Newest(Committed, f)
        /\ \/ Committed' = Committed \ {f}
           \/ \E g \in File : SameVersion(f, g) /\ Committed' = Committed \cup {g}

\* The replacements r of one file, and w and d of a change of title.
OneAtMost(r) == pending \cup applied \subseteq {r} /\ (undoing => applied = {})
Rename(f, g) ==
    LET w == [before |-> {}, after |-> {g}]
        d == [before |-> {f}, after |-> {}]
    IN  /\ SameVersion(f, g) /\ g \in File /\ Newest(Documents(Undone), f)
        /\ pending \cup applied \subseteq {w, d}
        /\ undoing => ~({w, d} \subseteq applied)
ChangeShaped ==
    stage = "mutate" => (\E r : OneAtMost(r)) \/ (\E f, g : Rename(f, g))

(* A change begins as the replacement of one file, or of two whose files   *)
(* are one version.                                                        *)
LEMMA ChangeBegins ==
    ASSUME TypeOK, PathsUnique, applied' = {},
           \/ \E d \in Docs, t \in Titles : Create(d, t)
           \/ \E f \in Documents(files), t \in Titles : Update(f, t) \/ Version(f, t)
    PROVE  (\E r : OneAtMost(r)') \/ (\E f, g : Rename(f, g)')
<1>1. files' = files /\ nextRev \in Revisions
  BY NextRevType DEF Create, Update, Version, Mutate, disk
<1>2. Documents(Undone') = Documents(files)
  BY <1>1, EmptyEnds
<1>3. ASSUME NEW d \in Docs, NEW t \in Titles, Create(d, t)
      PROVE  \E r : OneAtMost(r)'
  <2>1. \E r : pending' = {r}
    BY <1>3 DEF Create, Mutate
  <2> QED
    BY <2>1 DEF OneAtMost
<1>4. ASSUME NEW f \in Documents(files), NEW t \in Titles, Version(f, t)
      PROVE  \E r : OneAtMost(r)'
  <2>1. \E r : pending' = {r}
    BY <1>4 DEF Version, Mutate
  <2> QED
    BY <2>1 DEF OneAtMost
<1>5. ASSUME NEW f \in Documents(files), NEW t \in Titles, Update(f, t), t = f.title
      PROVE  \E r : OneAtMost(r)'
  <2>1. \E r : pending' = {r}
    BY <1>5 DEF Update, Mutate
  <2> QED
    BY <2>1 DEF OneAtMost
<1>6. ASSUME NEW f \in Documents(files), NEW t \in Titles, Update(f, t), t # f.title
      PROVE  \E g : Rename(f, g)'
  <2> DEFINE g == [f EXCEPT !.title = t, !.rev = nextRev]
  <2>1. f \in File /\ f.loc = "active"
    BY <1>6 DEF Documents, TypeOK, Update
  <2>2. g \in File /\ SameVersion(f, g) /\ g.title = t
    BY <1>1, <2>1 DEF File, SameVersion
  <2>3. \A h \in Documents(files) : h.doc = f.doc /\ h.ver = f.ver => h = f
    <3>1. Coherent(Lineage(files, f.doc))
      BY <1>6, <2>1 DEF Update, Ready, SnapshotValid, File
    <3> QED
      BY <3>1 DEF Coherent, Lineage
  <2>4. pending' = {Write(g), Delete(f)}
    BY <1>6 DEF Update, Mutate
  <2> HIDE DEF g
  <2>5. {h \in files : SamePath(h, g)} = {}
    BY <1>6, <2>1, <2>2, <2>3 DEF SamePath, SameVersion, Documents, Locations
  <2>6. pending' = {[before |-> {}, after |-> {g}], [before |-> {f}, after |-> {}]}
    <3>1. Write(g) = [before |-> {}, after |-> {g}]
      <4>1. {h \in files : SamePath(g, h)} = {}
        BY <2>5, SamePathEquivalence
      <4> QED
        BY <2>5, <4>1 DEF Write
    <3>2. Delete(f) = [before |-> {f}, after |-> {}]
      BY DEF Delete
    <3> QED
      BY <2>4, <3>1, <3>2
  <2>7. Newest(Documents(Undone'), f)
    BY <1>2, <1>6 DEF Newest, Update, Current, Lineage
  <2> QED
    BY <2>2, <2>6, <2>7 DEF Rename, SameVersion, Newest
<1> QED
  BY <1>3, <1>4, <1>5, <1>6

(* Publishing and rolling back keep the shape of the batch. *)
LEMMA ShapeStep ==
    ASSUME "after" \notin Faults, "rollback" \notin Faults,
           TypeOK, PlanHeld, CleanInv, BatchInv, ChangeShaped, [Next]_vars
    PROVE  ChangeShaped'
<1> USE DEF BatchStages
<1>1. CASE \/ \E d \in Docs, t \in Titles : Create(d, t)
           \/ \E f \in Documents(files), t \in Titles : Update(f, t) \/ Version(f, t)
  <2>1. applied' = {}
    BY <1>1 DEF Create, Update, Version, Mutate, Ready, CleanInv, NoneApplied
  <2>2. (\E r : OneAtMost(r)') \/ (\E f, g : Rename(f, g)')
    BY <1>1, <2>1, ChangeBegins DEF BatchInv, BatchExact
  <2> QED
    BY <2>2 DEF ChangeShaped
<1>2. CASE PublishNext \/ PublishFails \/ RollBackNext
  <2>1. /\ stage' = stage /\ pending' \cup applied' \subseteq pending \cup applied
        /\ pending \cap applied = {}
    BY <1>2 DEF PublishNext, PublishFails, RollBackNext, control, BatchInv, BatchExact
  <2>2. Undone' = Undone
    <3>1. CASE PublishNext
      BY <1>2, <3>1, PublishKeepsEnds DEF PublishNext, BatchInv
    <3>2. CASE PublishFails
      BY <3>2 DEF PublishFails, Fault, Undone
    <3>3. CASE RollBackNext
      BY <3>3, UnpublishKeepsStart DEF RollBackNext, Fault, BatchInv
    <3> QED
      BY <1>2, <3>1, <3>2, <3>3
  <2>3. undoing' => \/ undoing /\ applied' \subseteq applied
                    \/ pending # {} /\ applied' = applied
    BY <1>2 DEF PublishNext, PublishFails, RollBackNext
  <2>4. ASSUME NEW r, OneAtMost(r) PROVE OneAtMost(r)'
    BY <2>1, <2>3, <2>4 DEF OneAtMost
  <2>5. ASSUME NEW f, NEW g, Rename(f, g) PROVE Rename(f, g)'
    <3> DEFINE w == [before |-> {}, after |-> {g}]
               d == [before |-> {f}, after |-> {}]
    <3>1. /\ pending \cup applied \subseteq {w, d} /\ (undoing => ~({w, d} \subseteq applied))
          /\ SameVersion(f, g) /\ g \in File /\ Newest(Documents(Undone), f)
      BY <2>5 DEF Rename
    <3> HIDE DEF w, d
    <3>2. pending' \cup applied' \subseteq {w, d} /\ (undoing' => ~({w, d} \subseteq applied'))
      BY <2>1, <2>3, <3>1
    <3> QED
      BY <2>2, <3>1, <3>2 DEF Rename, w, d
  <2> QED
    BY <2>1, <2>4, <2>5 DEF ChangeShaped
<1>3. CASE UNCHANGED vars
  BY <1>3 DEF vars, disk, control, batch, ChangeShaped, OneAtMost, Rename, Undone
<1>4. CASE ~(\/ \E d \in Docs, t \in Titles : Create(d, t)
             \/ \E f \in Documents(files), t \in Titles : Update(f, t) \/ Version(f, t)
             \/ PublishNext \/ PublishFails \/ RollBackNext \/ UNCHANGED vars)
  <2>1. stage' # "mutate"
    BY <1>4 DEF Next, Recovery, Batch, Progress, Failing, Operation,
         Begin, OperatorRemovesLock, RecoverNothing, RecoverLeftovers, RecoverMove,
         RecoveryRefused, RecoveryDone, RemoveTemps, RollBackDone, BackupsDone, MoveDone,
         MutationDone, FailureDone, WriteJournal, RemoveJournal, Get, Reject, Move,
         Synchronize, RemoveTempsFails, WriteJournalFails, RemoveJournalFails,
         IssueLink, Crash, BatchDone, Release, EndCall, disk, control
  <2> QED
    BY <2>1 DEF ChangeShaped
<1> QED
  BY <1>1, <1>2, <1>3, <1>4

(* A death that is not spared tears the version whose title was changing. *)
LEMMA DeathTears ==
    ASSUME TypeOK, CleanInv, BatchInv, WholeInv, ChangeShaped, [Next]_vars,
           ~[CrashesSpareRenames]_vars
    PROVE  TornRename
<1>1. /\ stage = "mutate" /\ applied # {} /\ (undoing \/ pending # {})
      /\ crashes' # crashes
  BY DEF CrashesSpareRenames
<1>2. Crash
  BY <1>1 DEF Next, Recovery, Batch, Progress, Failing, Operation, Create, Update, Version,
       Mutate, Begin, OperatorRemovesLock, RecoverNothing, RecoverLeftovers, RecoverMove,
       RecoveryRefused, RecoveryDone, RemoveTemps, RollBackDone, BackupsDone, MoveDone,
       MutationDone, FailureDone, WriteJournal, RemoveJournal, Get, Reject, Move,
       Synchronize, RemoveTempsFails, WriteJournalFails, RemoveJournalFails,
       IssueLink, BatchDone, PublishNext, PublishFails, RollBackNext, bounds, vars
<1>3. /\ journal = NoJournal /\ journal' = NoJournal /\ stage' # "mutate" /\ files' = files
  BY <1>1, <1>2 DEF Crash, EndCall, CleanInv, JournalGone, Unjournaled
<1>4. Committed = Documents(Undone) /\ Committed' = Documents(files)
  BY <1>1, <1>3, StartIsCommitted, SettledIsCommitted DEF WholeInv, ChangeWhole, Settled
<1>5. pending \cap applied = {}
  BY DEF BatchInv, BatchExact
<1>6. PICK f, g : Rename(f, g)
  BY <1>1, <1>5 DEF ChangeShaped, OneAtMost
<1> DEFINE w == [before |-> {}, after |-> {g}]
           d == [before |-> {f}, after |-> {}]
<1>7. /\ pending \cup applied \subseteq {w, d} /\ (undoing => ~({w, d} \subseteq applied))
      /\ SameVersion(f, g) /\ g \in File /\ Newest(Committed, f)
  BY <1>4, <1>6 DEF Rename
<1>8. w.before = {} /\ w.after = {g} /\ d.before = {f} /\ d.after = {}
  OBVIOUS
<1> HIDE DEF w, d
<1>9. applied = {w} \/ applied = {d}
  BY <1>1, <1>5, <1>7
<1>10. f.loc \in Locations /\ g.loc \in Locations
  BY <1>7 DEF SameVersion, Locations
<1>11. CASE applied = {w}
  <2>1. g \in files
    BY <1>8, <1>11, SamePathEquivalence DEF BatchInv, BatchExact, Touched, There
  <2>2. Undone = files \ {g}
    BY <1>8, <1>11 DEF Undone
  <2>3. Committed' = Committed \cup {g}
    BY <1>4, <1>10, <2>1, <2>2 DEF Documents
  <2> QED
    BY <1>7, <2>3 DEF TornRename, SameVersion, Newest
<1>12. CASE applied = {d}
  <2>1. f \notin files
    BY <1>8, <1>12, SamePathEquivalence DEF BatchInv, BatchExact, Touched, There
  <2>2. Undone = files \cup {f}
    BY <1>8, <1>12 DEF Undone
  <2>3. Committed' = Committed \ {f}
    BY <1>4, <1>10, <2>1, <2>2 DEF Documents
  <2> QED
    BY <1>7, <2>3 DEF TornRename, SameVersion, Newest
<1> QED
  BY <1>9, <1>11, <1>12

(* Wherever a process dies, the worst that happens to the documents is a   *)
(* torn change of title: one version of one active lineage, its newest, is *)
(* under two titles or missing.  Every other step, every other death among *)
(* them, is a whole operation or none.                                     *)
THEOREM DeathsTearOneVersion ==
    ASSUME "after" \notin Faults, "rollback" \notin Faults
    PROVE  Spec => [][Lineages!Next \/ TornRename]_(Lineages!vars)
<1> DEFINE Inv == (TypeOK /\ PlanHeld /\ CleanInv /\ BatchInv /\ WholeInv) /\ ChangeShaped
<1>1. Init => ChangeShaped
  BY DEF Init, ChangeShaped
<1>2. TypeOK /\ PlanHeld /\ CleanInv /\ BatchInv /\ ChangeShaped /\ [Next]_vars
          => ChangeShaped'
  BY ShapeStep
<1>3. Inv /\ Inv' /\ [Next]_vars => [Lineages!Next \/ TornRename]_(Lineages!vars)
  BY ImplementsStep, DeathTears
<1>4. Spec => [](TypeOK /\ PlanHeld /\ CleanInv /\ BatchInv /\ WholeInv)
  BY WholeInvariant
<1> QED
  BY <1>1, <1>2, <1>3, <1>4, PTL DEF Spec
=============================================================================
