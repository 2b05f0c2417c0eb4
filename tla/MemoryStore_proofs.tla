------------------------- MODULE MemoryStore_proofs --------------------------
(***************************************************************************)
(* Proofs about MemoryStore: every step of the store, with its failures    *)
(* and deaths, is a step of MemoryLog or none; callers are told the truth; *)
(* and a cache that passes its health check mirrors the canonical files.   *)
(* IInv says what each stage of a call leaves in the files.                *)
(***************************************************************************)
EXTENDS MemoryStore, FiniteSetTheorems, TLAPS

Running == stage \notin {"idle", "left"}

\* The call began with files that could be loaded, and has removed none.
StartKept == Running => start \subseteq files /\ Loadable(start) /\ others # Invalid
\* Until the batch is submitted, nothing was written.
NothingWritten ==
    stage \in {"ensure", "checked", "rebuilt"} => files = start /\ applied = {}
\* The files are those of the start and the published part of a legal batch.
PartWritten ==
    stage = "publish" =>
        /\ told = "none"
        /\ files = start \cup applied
        /\ Importable(start, pending \cup applied)
\* What is still to be removed is new; the rest is known to be inconsistent.
PartRemoved ==
    stage = "undo" =>
        /\ applied \cap start = {}
        /\ \/ told = "none" /\ files \subseteq start \cup applied
           \/ told = "inconsistent" /\ warned
AllWritten ==
    stage \in {"sync", "repair"} => files = start \cup applied /\ Loadable(files)
\* Only a death or a failed roll-back leaves files that are not valid.
CommittedValid == crashes = 0 /\ ~warned => Valid(Committed)
\* The digest and the fingerprint are written together.
CacheHonest ==
    /\ cache \in Cache!Database
    /\ cache.file = "filled" => cache.digest = cache.fingerprint

IInv ==
    /\ TypeOK
    /\ IsFiniteSet(files)
    /\ StartKept /\ NothingWritten /\ PartWritten /\ PartRemoved /\ AllWritten
    /\ CommittedValid /\ CacheHonest

-----------------------------------------------------------------------------
(* Batches *)

(* What an item adds to the names, records and targets of a memory. *)
LEMMA OneMore ==
    ASSUME NEW m \in SUBSET Item, NEW x \in Item
    PROVE  /\ Named(m \cup {x}) = Named(m) \cup {x.id}
           /\ Retired(m \cup {x}) = Retired(m) \cup x.targets
           /\ Records(m) \subseteq Records(m \cup {x})
           /\ Records(m \cup {x}) \subseteq Records(m) \cup {x}
<1>1. Named(m \cup {x}) = Named(m) \cup {x.id}
  BY DEF Named
<1>2. Retired(m \cup {x}) = Retired(m) \cup x.targets
  BY DEF Retired
<1> QED
  BY <1>1, <1>2 DEF Records

(* A single record or tombstone with a new identity, as store, supersede   *)
(* and delete write it, needs no search for cycles: nothing supersedes it  *)
(* yet.  memory.ts makes that check for imports only.  As in               *)
(* IssueGraph_proofs, cycles are sets and not paths, so that the argument  *)
(* needs no induction.                                                     *)
LEMMA Single ==
    ASSUME NEW m \in SUBSET Item, NEW x \in Item, Valid(m),
           x.id \notin Named(m), x.targets \subseteq Named(Records(m))
    PROVE  Importable(m, {x})
<1> DEFINE n == m \cup {x}
<1>1. UniqueIds({x}) /\ Named({x}) \cap Named(m) = {}
  BY DEF UniqueIds, Named
<1>2. Retired(n) = Retired(m) \cup x.targets /\ Retired(m) \subseteq Named(Records(m))
  BY OneMore DEF Valid, References
<1>3. Records(m) \subseteq Records(n) /\ Records(n) \subseteq Records(m) \cup {x}
  BY OneMore
<1>4. References(n)
  <2>1. Named(Records(m)) \subseteq Named(Records(n))
    BY <1>3 DEF Named
  <2> QED
    BY <2>1, <1>2 DEF References
<1>5. x.id \notin Retired(n)
  <2>1. Named(Records(m)) \subseteq Named(m)
    BY DEF Named, Records
  <2> HIDE DEF n
  <2> QED
    BY <2>1, <1>2
<1>6. NoCycle(n)
  <2> SUFFICES ASSUME NEW S \in SUBSET Named(Records(n)), S # {},
                      S \subseteq SupersededBy(n, S)
               PROVE  FALSE
    BY DEF NoCycle
  <2>1. SupersededBy(n, S) \subseteq Retired(n)
    BY DEF SupersededBy, Retired, Records
  <2>2. x.id \notin S
    BY <2>1, <1>5
  <2>3. S \subseteq Named(Records(m))
    BY <2>2, <1>3 DEF Named
  <2>4. SupersededBy(n, S) \subseteq SupersededBy(m, S)
    BY <2>2, <1>3 DEF SupersededBy
  <2> QED
    BY <2>3, <2>4 DEF Valid, NoCycle
<1> QED
  BY <1>1, <1>4, <1>6 DEF Importable

(* A memory with a legal batch is valid, and so is the empty memory. *)
LEMMA Whole ==
    ASSUME NEW m \in SUBSET Item, NEW b \in SUBSET Item, Valid(m), Importable(m, b)
    PROVE  Valid(m \cup b)
<1>1. UniqueIds(m \cup b)
  <2> SUFFICES ASSUME NEW x \in m \cup b, NEW y \in m \cup b, x.id = y.id
               PROVE  x = y
    BY DEF UniqueIds
  <2> QED
    BY DEF Valid, Importable, UniqueIds, Named
<1> QED
  BY <1>1 DEF Importable, Valid

\* No memory at all is a valid one.
LEMMA EmptyValid == Valid({})
  BY DEF Valid, UniqueIds, References, NoCycle, Retired, Named, Records

(* What a valid memory has more than an older one is a legal batch. *)
LEMMA Difference ==
    ASSUME NEW m, NEW n, m \subseteq n, Valid(n)
    PROVE  Importable(m, n \ m)
<1>1. UniqueIds(n \ m) /\ Named(n \ m) \cap Named(m) = {}
  BY DEF Valid, UniqueIds, Named
<1>2. m \cup (n \ m) = n
  OBVIOUS
<1> QED
  BY <1>1, <1>2 DEF Valid, Importable

(* A legal batch is new. *)
LEMMA BatchIsNew ==
    ASSUME NEW m, NEW b, Importable(m, b)
    PROVE  b \cap m = {}
  BY DEF Importable, Named

(* Every operation submits a legal batch. *)
LEMMA SubmitsBatch ==
    ASSUME TypeOK, Valid(files), Change
    PROVE  \E b \in SUBSET Item : Importable(files, b) /\ Submit(b)
<1>1. ASSUME NEW x \in Item, x.id \notin Named(files),
             x.targets \subseteq ActiveIds(files), Submit({x})
      PROVE  \E b \in SUBSET Item : Importable(files, b) /\ Submit(b)
  BY <1>1, Single DEF TypeOK, ActiveIds
<1>2. \A id \in Ids, type \in Types, S \in SUBSET Ids :
          /\ Record(id, type, S) \in Item
          /\ Record(id, type, S).id = id /\ Record(id, type, S).targets = S
  BY DEF Record, Item
<1>3. \A id, target \in Ids :
          /\ Tombstone(id, target) \in Item
          /\ Tombstone(id, target).id = id /\ Tombstone(id, target).targets = {target}
  BY DEF Tombstone, Item
<1>4. ASSUME NEW id \in Ids, NEW type \in Types, Store(id, type)
      PROVE  \E b \in SUBSET Item : Importable(files, b) /\ Submit(b)
  BY <1>1, <1>2, <1>4 DEF Store
<1>5. ASSUME NEW id \in Ids, NEW type \in Types, NEW target \in Ids,
             Supersede(id, type, target)
      PROVE  \E b \in SUBSET Item : Importable(files, b) /\ Submit(b)
  BY <1>1, <1>2, <1>5 DEF Supersede
<1>6. ASSUME NEW id \in Ids, NEW target \in Ids, Delete(id, target)
      PROVE  \E b \in SUBSET Item : Importable(files, b) /\ Submit(b)
  BY <1>1, <1>3, <1>6 DEF Delete
<1>7. ASSUME NEW b \in prepared, Import(b)
      PROVE  \E c \in SUBSET Item : Importable(files, c) /\ Submit(c)
  BY <1>7, MemoryStoreAssumption DEF TypeOK, Import
<1> QED
  BY <1>4, <1>5, <1>6, <1>7 DEF Change
-----------------------------------------------------------------------------
(* Types and the cache *)

\* Whatever a step does to the cache, it stays a snapshot of files that were there.
LEMMA CacheStep ==
    ASSUME TypeOK, CacheHonest, files' \subseteq Item, others' \in Contents,
           \/ UNCHANGED cache \/ Cache!Replace(Snapshot)
           \/ Cache!Reopen \/ Cache!Lose \/ Cache!Garble
    PROVE  CacheHonest'
<1>1. Snapshot \in [memory : SUBSET Item, others : Contents]
  BY DEF TypeOK, Snapshot
<1>2. CASE UNCHANGED cache
  BY <1>2 DEF CacheHonest
<1>3. CASE Cache!Replace(Snapshot)
  BY <1>1, <1>3 DEF CacheHonest, Cache!Replace, Cache!Filled, Cache!Database
<1>4. CASE Cache!Reopen \/ Cache!Lose
  BY <1>4 DEF CacheHonest, Cache!Reopen, Cache!Lose, Cache!Missing, Cache!Bare, Cache!Database
<1>5. CASE Cache!Garble
  BY <1>5 DEF CacheHonest, Cache!Garble, Cache!Missing, Cache!Bare, Cache!Database
<1> QED
  BY <1>2, <1>3, <1>4, <1>5

(* The answer of a call. *)
LEMMA Ended ==
    ASSUME NEW a \in Answers, Answer(a)
    PROVE  /\ stage' \in {"idle", "left"} /\ told' = a
           /\ start' = {} /\ pending' = {} /\ applied' = {}
  BY DEF Answer

(* After a call, what counts are the files. *)
LEMMA Rest ==
    ASSUME stage' \in {"idle", "left"}, start' = {}, pending' = {}, applied' = {},
           told' \in Answers, warned' \in BOOLEAN, crashes' \in Nat,
           files' \subseteq Item, IsFiniteSet(files'), others' \in Contents,
           prepared' \subseteq Imports,
           crashes' = 0 /\ ~warned' => Valid(files'), CacheHonest'
    PROVE  IInv'
<1>1. TypeOK'
  BY DEF TypeOK, Stages, CacheHonest
<1>2. Committed' = files'
  BY DEF Committed
<1>3. CommittedValid'
  BY <1>2 DEF CommittedValid
<1> QED
  BY <1>1, <1>3
     DEF IInv, Running, StartKept, NothingWritten, PartWritten, PartRemoved, AllWritten
-----------------------------------------------------------------------------
(* The invariant *)

(* Between calls. *)
LEMMA OutsideStep ==
    ASSUME IInv,
           \/ CheckImport \/ ForgetImport \/ OperatorRemovesLock
           \/ EditOthers \/ HarmCache
    PROVE  IInv'
<1> USE DEF IInv
<1>1. /\ files' = files /\ start' = start /\ pending' = pending /\ applied' = applied
      /\ told' = told /\ warned' = warned /\ crashes' = crashes
      /\ stage' = stage \/ (stage = "left" /\ stage' = "idle")
      /\ others' = others \/ (stage = "idle" /\ others' \in Contents)
      /\ prepared' \subseteq Imports
  BY DEF TypeOK, CheckImport, ForgetImport, OperatorRemovesLock, EditOthers,
         HarmCache, batch, bounds
<1>2. Committed' = Committed
  BY <1>1 DEF Committed
<1>3. CacheHonest'
  <2>1. UNCHANGED cache \/ Cache!Lose \/ Cache!Garble
    BY DEF CheckImport, ForgetImport, OperatorRemovesLock, EditOthers, HarmCache
  <2>2. files' \subseteq Item /\ others' \in Contents
    BY <1>1 DEF TypeOK
  <2> QED
    BY <2>1, <2>2, CacheStep
<1>4. TypeOK'
  BY <1>1, <1>3 DEF TypeOK, Stages, CacheHonest
<1>5. StartKept' /\ NothingWritten' /\ PartWritten' /\ PartRemoved' /\ AllWritten'
  BY <1>1 DEF Running, StartKept, NothingWritten, PartWritten, PartRemoved, AllWritten
<1>6. CommittedValid'
  BY <1>1, <1>2 DEF CommittedValid
<1> QED
  BY <1>1, <1>3, <1>4, <1>5, <1>6

(* The steps before a batch is submitted. *)
LEMMA BeginStep == ASSUME IInv, Begin PROVE IInv'
<1> USE DEF IInv
<1>1. /\ UNCHANGED <<files, others, cache, prepared, warned, crashes>> /\ stage = "idle"
  BY DEF Begin, bounds
<1>2. Committed = files
  BY <1>1 DEF Committed
<1>3. CacheHonest' /\ IsFiniteSet(files')
  BY <1>1 DEF CacheHonest
<1>4. CASE Readable
  <2>1. /\ stage' = "ensure" /\ told' = "none" /\ start' = files
        /\ pending' = {} /\ applied' = {}
    BY <1>1, <1>4 DEF Begin, Continue, TypeOK
  <2>2. TypeOK' /\ Committed' = files'
    BY <1>1, <2>1 DEF TypeOK, Stages, Answers, Committed
  <2>3. CommittedValid'
    BY <1>1, <1>2, <2>2 DEF CommittedValid
  <2> QED
    BY <1>1, <1>3, <1>4, <2>1, <2>2, <2>3
       DEF Readable, Running, StartKept, NothingWritten, PartWritten, PartRemoved, AllWritten
<1>5. CASE ~Readable
  <2>1. PICK a \in Answers : Answer(a)
    BY <1>5 DEF Begin, Answers
  <2> QED
    BY <1>1, <1>2, <1>3, <2>1, Ended, Rest DEF CommittedValid, TypeOK
<1> QED
  BY <1>4, <1>5

\* Opening the cache keeps the invariant.
LEMMA EnsureStep == ASSUME IInv, Ensure PROVE IInv'
<1> USE DEF IInv
<1>1. /\ UNCHANGED <<files, others, prepared, warned, crashes>> /\ stage = "ensure"
      /\ Committed = files
  BY DEF Ensure, bounds, Committed
<1>2. CacheHonest' /\ IsFiniteSet(files')
  <2>1. UNCHANGED cache \/ Cache!Replace(Snapshot)
    BY DEF Ensure
  <2> QED
    BY <1>1, <2>1, CacheStep DEF TypeOK
<1>3. CASE stage' \in {"checked", "rebuilt"} /\ told' = "none" /\ UNCHANGED batch
  <2>1. TypeOK' /\ Committed' = files' /\ start' = start /\ applied' = applied
    BY <1>1, <1>2, <1>3 DEF TypeOK, Stages, Answers, Committed, batch, CacheHonest
  <2>2. CommittedValid'
    BY <1>1, <2>1 DEF CommittedValid
  <2> QED
    BY <1>1, <1>2, <1>3, <2>1, <2>2
       DEF Running, StartKept, NothingWritten, PartWritten, PartRemoved, AllWritten
<1>4. CASE Answer("error")
  <2>1. "error" \in Answers
    BY DEF Answers
  <2> QED
    BY <1>1, <1>2, <1>4, <2>1, Ended, Rest DEF CommittedValid, TypeOK
<1> QED
  BY <1>3, <1>4 DEF Ensure, Continue

\* Reading keeps the invariant.
LEMMA ReadStep == ASSUME IInv, Read PROVE IInv'
<1> USE DEF IInv
<1>1. /\ UNCHANGED <<files, others, cache, prepared, warned, crashes>>
      /\ stage \in {"checked", "rebuilt"} /\ Committed = files
  BY DEF Read, Ready, bounds, Committed
<1>2. CacheHonest' /\ IsFiniteSet(files')
  BY <1>1 DEF CacheHonest
<1>3. PICK a \in Answers : Answer(a)
  BY <1>1 DEF Read, Answers
<1> QED
  BY <1>1, <1>2, <1>3, Ended, Rest DEF CommittedValid, TypeOK

\* Planning a batch keeps the invariant.
LEMMA ChangeStep == ASSUME IInv, Change PROVE IInv'
<1> USE DEF IInv
<1>1. UNCHANGED <<files, others, cache, start, applied, crashes, warned>>
      /\ stage \in {"checked", "rebuilt"} /\ prepared' \subseteq prepared
  BY DEF Change, Store, Supersede, Delete, Import, Submit, Ready
<1>2. Valid(files) /\ start = files /\ applied = {}
  BY <1>1 DEF StartKept, NothingWritten, Running, Loadable
<1>3. PICK b \in SUBSET Item : Importable(files, b) /\ Submit(b)
  BY <1>2, SubmitsBatch
<1>4. pending' = b /\ stage' = "publish" /\ told' = "none"
  BY <1>3 DEF Submit, Continue
<1>5. CacheHonest'
  BY <1>1 DEF CacheHonest
<1>6. TypeOK'
  BY <1>1, <1>4 DEF TypeOK, Stages, Answers
<1>7. Committed' = files
  BY <1>1, <1>2 DEF Committed
<1>8. PartWritten'
  BY <1>1, <1>2, <1>3, <1>4 DEF PartWritten
<1> QED
  BY <1>1, <1>2, <1>4, <1>5, <1>6, <1>7, <1>8
     DEF CommittedValid, Running, StartKept, NothingWritten, PartRemoved, AllWritten

(* The steps of applyBatch. *)
LEMMA PublishNextStep == ASSUME IInv, PublishNext PROVE IInv'
<1> USE DEF IInv
<1>1. UNCHANGED <<others, cache, prepared, stage, start, told, crashes, warned>>
      /\ stage = "publish"
  BY DEF PublishNext, bounds
<1>2. PICK x \in pending : /\ files' = files \cup {x}
                           /\ pending' = pending \ {x} /\ applied' = applied \cup {x}
  BY DEF PublishNext
<1>3. IsFiniteSet(files')
  BY <1>2, FS_AddElement
<1>4. TypeOK' /\ CacheHonest'
  BY <1>1, <1>2 DEF TypeOK, CacheHonest
<1>5. PartWritten'
  <2>1. pending' \cup applied' = pending \cup applied
    BY <1>2
  <2> QED
    BY <1>1, <1>2, <2>1 DEF PartWritten
<1>6. CommittedValid'
  <2>1. CASE pending' # {}
    BY <1>1, <1>2, <2>1 DEF CommittedValid, Committed
  <2>2. CASE pending' = {}
    <3>1. Committed' = files' /\ files' = start \cup applied' /\ Importable(start, applied')
      BY <1>1, <1>5, <2>2 DEF Committed, PartWritten
    <3>2. Valid(start) /\ start \subseteq Item /\ applied' \subseteq Item
      BY <1>1, <1>4 DEF StartKept, Running, Loadable, TypeOK
    <3> QED
      BY <3>1, <3>2, Whole DEF CommittedValid
  <2> QED
    BY <2>1, <2>2
<1> QED
  BY <1>1, <1>2, <1>3, <1>4, <1>5, <1>6
     DEF Running, StartKept, NothingWritten, PartRemoved, AllWritten

\* A publication that fails keeps the invariant.
LEMMA PublishFailsStep == ASSUME IInv, PublishFails PROVE IInv'
<1> USE DEF IInv
<1>1. UNCHANGED <<others, cache, prepared, start, told, crashes, warned>>
      /\ stage = "publish" /\ stage' = "undo" /\ pending' = {}
  BY DEF PublishFails, bounds
<1>2. PICK x \in pending : /\ applied' = applied \cup {x}
                           /\ files' = files \/ files' = files \cup {x}
  BY DEF PublishFails
<1>3. IsFiniteSet(files')
  BY <1>2, FS_AddElement
<1>4. TypeOK' /\ CacheHonest'
  BY <1>1, <1>2 DEF TypeOK, CacheHonest, Stages
<1>5. PartRemoved'
  <2>1. Importable(start, pending \cup applied)
        /\ told = "none" /\ files = start \cup applied
    BY <1>1 DEF PartWritten
  <2>2. (pending \cup applied) \cap start = {}
    BY <2>1, BatchIsNew
  <2>3. applied' \cap start = {} /\ files' \subseteq start \cup applied'
    BY <1>2, <2>1, <2>2
  <2> QED
    BY <1>1, <2>1, <2>3 DEF PartRemoved
<1>6. CommittedValid'
  BY <1>1, <1>2 DEF CommittedValid, Committed, StartKept, Running, Loadable
<1> QED
  BY <1>1, <1>2, <1>3, <1>4, <1>5, <1>6
     DEF Running, StartKept, NothingWritten, PartWritten, AllWritten

\* Each file a roll-back restores keeps the invariant.
LEMMA RollBackNextStep == ASSUME IInv, RollBackNext PROVE IInv'
<1> USE DEF IInv
<1>1. UNCHANGED <<others, cache, prepared, stage, start, pending, crashes>>
      /\ stage = "undo"
  BY DEF RollBackNext, bounds
<1>2. PICK x \in applied :
          /\ applied' = applied \ {x}
          /\ \/ files' = files \ {x} /\ told' = told /\ warned' = warned
             \/ /\ told' = "inconsistent" /\ warned' = TRUE
                /\ files' \in {files, files \ {x}}
  BY DEF RollBackNext
<1>3. IsFiniteSet(files')
  BY <1>2, FS_RemoveElement
<1>4. TypeOK' /\ CacheHonest'
  BY <1>1, <1>2 DEF TypeOK, CacheHonest, Answers
<1>5. PartRemoved' /\ start \subseteq files'
  BY <1>1, <1>2 DEF PartRemoved, StartKept, Running
<1>6. CommittedValid'
  BY <1>1, <1>2 DEF CommittedValid, Committed, StartKept, Running, Loadable
<1> QED
  BY <1>1, <1>3, <1>4, <1>5, <1>6
     DEF Running, StartKept, NothingWritten, PartWritten, AllWritten

\* The end of a roll-back keeps the invariant.
LEMMA RolledBackStep == ASSUME IInv, RolledBack PROVE IInv'
<1> USE DEF IInv
<1>1. /\ UNCHANGED <<files, others, cache, prepared, warned, crashes>>
      /\ stage = "undo" /\ applied = {}
  BY DEF RolledBack, bounds
<1>2. CacheHonest' /\ IsFiniteSet(files')
  BY <1>1 DEF CacheHonest
<1>3. ~warned => Valid(files)
  BY <1>1 DEF PartRemoved, StartKept, Running, Loadable
<1>4. PICK a \in Answers : Answer(a)
  BY DEF RolledBack, Answers, TypeOK
<1> QED
  BY <1>1, <1>2, <1>3, <1>4, Ended, Rest DEF TypeOK

(* The steps that follow the publication. *)
LEMMA ReloadStep == ASSUME IInv, Reload PROVE IInv'
<1> USE DEF IInv
<1>1. /\ UNCHANGED <<files, others, cache, prepared, warned, crashes>>
      /\ stage = "publish" /\ pending = {} /\ Committed = files
  BY DEF Reload, bounds, Committed
<1>2. CacheHonest' /\ IsFiniteSet(files')
  BY <1>1 DEF CacheHonest
<1>3. CASE Readable
  <2>1. stage' = "sync" /\ told' = "none" /\ UNCHANGED <<start, pending, applied>>
    BY <1>3 DEF Reload, Continue, batch
  <2>2. TypeOK' /\ Committed' = files'
    BY <1>1, <2>1 DEF TypeOK, Stages, Answers, Committed
  <2> QED
    BY <1>1, <1>2, <1>3, <2>1, <2>2
       DEF CommittedValid, Running, StartKept, NothingWritten, PartWritten,
           PartRemoved, AllWritten, Readable
<1>4. CASE ~Readable
  <2>1. Answer("error") /\ "error" \in Answers
    BY <1>4 DEF Reload, Answers
  <2> QED
    BY <1>1, <1>2, <2>1, Ended, Rest DEF CommittedValid, TypeOK
<1> QED
  BY <1>3, <1>4

\* Replacing the cache's snapshot keeps the invariant.
LEMMA CacheWriteStep == ASSUME IInv, Synchronize \/ Repair PROVE IInv'
<1> USE DEF IInv
<1>1. /\ UNCHANGED <<files, others, prepared, warned, crashes>>
      /\ stage \in {"sync", "repair"} /\ Committed = files
  BY DEF Synchronize, Repair, bounds, Committed
<1>2. CacheHonest' /\ IsFiniteSet(files')
  <2>1. UNCHANGED cache \/ Cache!Replace(Snapshot) \/ Cache!Reopen
    BY DEF Synchronize, Repair
  <2> QED
    BY <1>1, <2>1, CacheStep DEF TypeOK
<1>3. CASE stage' = "repair" /\ told' = "none" /\ UNCHANGED batch
  <2>1. TypeOK' /\ Committed' = files' /\ UNCHANGED <<start, applied>>
    BY <1>1, <1>2, <1>3 DEF TypeOK, Stages, Answers, Committed, batch, CacheHonest
  <2> QED
    BY <1>1, <1>2, <1>3, <2>1
       DEF CommittedValid, Running, StartKept, NothingWritten, PartWritten,
           PartRemoved, AllWritten
<1>4. ASSUME NEW a \in {"ok", "committed"}, Answer(a) PROVE IInv'
  <2>1. a \in Answers
    BY DEF Answers
  <2> QED
    BY <1>1, <1>2, <1>4, <2>1, Ended, Rest DEF CommittedValid, TypeOK
<1> QED
  BY <1>3, <1>4 DEF Synchronize, Repair, Continue

\* A crash keeps the invariant.
LEMMA CrashStep == ASSUME IInv, Crash PROVE IInv'
<1> USE DEF IInv
<1>1. /\ UNCHANGED <<files, others, cache, prepared, warned>>
      /\ stage' = "left" /\ told' = "none"
      /\ start' = {} /\ pending' = {} /\ applied' = {}
      /\ crashes' = crashes + 1
  BY DEF Crash
<1>2. CacheHonest' /\ crashes' \in Nat /\ crashes' # 0
  BY <1>1 DEF CacheHonest, TypeOK
<1>3. "none" \in Answers
  BY DEF Answers
<1> QED
  BY <1>1, <1>2, <1>3, Rest DEF TypeOK

\* The initial store satisfies the invariant.
LEMMA Initial == Init => IInv
<1> SUFFICES ASSUME Init PROVE IInv
  OBVIOUS
<1>1. IsFiniteSet(files)
  BY FS_EmptySet DEF Init
<1>2. Valid({})
  BY DEF Valid, UniqueIds, References, NoCycle, Retired, Named, Records
<1>3. CommittedValid
  BY <1>2 DEF Init, CommittedValid, Committed
<1>4. CacheHonest
  BY DEF Init, CacheHonest, Cache!Missing, Cache!Database
<1>5. TypeOK
  BY <1>4 DEF Init, TypeOK, Stages, Answers, CacheHonest
<1> QED
  BY <1>1, <1>3, <1>4, <1>5
     DEF Init, IInv, Running, StartKept, NothingWritten, PartWritten, PartRemoved, AllWritten

\* No step breaks the invariant.
LEMMA Inductive == IInv /\ [Next]_vars => IInv'
<1> SUFFICES ASSUME IInv, [Next]_vars PROVE IInv'
  OBVIOUS
<1>1. CASE UNCHANGED vars
  <2>1. Committed' = Committed
    BY <1>1 DEF vars, batch, Committed
  <2> QED
    BY <1>1, <2>1
       DEF vars, batch, bounds, IInv, TypeOK, Running, StartKept, NothingWritten,
           PartWritten, PartRemoved, AllWritten, CommittedValid, CacheHonest
<1>2. CASE Step
  BY <1>2, BeginStep, EnsureStep, ReadStep, ChangeStep, PublishNextStep,
     PublishFailsStep, RollBackNextStep, RolledBackStep, ReloadStep,
     CacheWriteStep DEF Step
<1> QED
  BY <1>1, <1>2, OutsideStep, CrashStep DEF Next

\* The inductive invariant holds in every reachable state.
LEMMA Invariant == Spec => []IInv
  BY Initial, Inductive, PTL DEF Spec

-----------------------------------------------------------------------------
(* Refinement *)

(* What counts never shrinks: the before-images of a batch are no files.   *)
LEMMA Grows ==
    ASSUME IInv, IInv', Next
    PROVE  /\ Committed \subseteq Committed'
           /\ crashes' = crashes \/ crashes' > 0
           /\ warned => warned'
<1> USE DEF IInv
<1>1. ASSUME files \subseteq files' PROVE Committed \subseteq Committed'
  <2>1. CASE stage = "undo" \/ (stage = "publish" /\ pending # {})
    <3>1. Committed = start /\ start \subseteq files'
      BY <1>1, <2>1 DEF Committed, StartKept, Running
    <3>2. CASE stage' = "undo" \/ (stage' = "publish" /\ pending' # {})
      <4>1. start' = start
        BY <2>1, <3>2 DEF Next, Step, CheckImport, ForgetImport, OperatorRemovesLock,
           EditOthers, HarmCache, Crash, Begin, Ensure, Read, Change, Store, Supersede,
           Delete, Import, Submit, Ready, PublishNext, PublishFails, RollBackNext,
           RolledBack, Answer, Reload, Synchronize, Repair, batch
      <4> QED
        BY <3>1, <3>2, <4>1 DEF Committed
    <3> QED
      BY <3>1, <3>2 DEF Committed
  <2>2. CASE ~(stage = "undo" \/ (stage = "publish" /\ pending # {}))
    <3>1. CASE stage' = "undo" \/ (stage' = "publish" /\ pending' # {})
      <4>1. Change
        BY <2>2, <3>1 DEF Next, Step, CheckImport, ForgetImport, OperatorRemovesLock,
           EditOthers, HarmCache, Crash, Begin, Ensure, Read, Continue,
           PublishNext, PublishFails, RollBackNext,
           RolledBack, Answer, Reload, Synchronize, Repair, batch
      <4>2. start' = files
        BY <4>1 DEF Change, Store, Supersede, Delete, Import, Submit, Ready, NothingWritten
      <4> QED
        BY <2>2, <3>1, <4>2 DEF Committed
    <3> QED
      BY <1>1, <2>2, <3>1 DEF Committed
  <2> QED
    BY <2>1, <2>2
<1>2. CASE RollBackNext
  <2>1. Committed' = Committed
    BY <1>2 DEF RollBackNext, Committed
  <2> QED
    BY <1>2, <2>1 DEF RollBackNext, bounds
<1>3. CASE Next /\ ~RollBackNext
  <2>1. files \subseteq files' /\ warned' = warned
    BY <1>3 DEF Next, Step, CheckImport, ForgetImport, OperatorRemovesLock,
       EditOthers, HarmCache, Crash, Begin, Ensure, Read, Change, Store, Supersede,
       Delete, Import, Submit, PublishNext, PublishFails,
       RolledBack, Reload, Synchronize, Repair
  <2>2. CASE Crash
    BY <1>1, <2>1, <2>2 DEF Crash, TypeOK
  <2>3. CASE ~Crash
    <3>1. crashes' = crashes
      BY <1>3, <2>3 DEF Next, Step, CheckImport, ForgetImport, OperatorRemovesLock,
         EditOthers, HarmCache, Begin, Ensure, Read, Change, Store, Supersede,
         Delete, Import, Submit, PublishNext, PublishFails,
         RolledBack, Reload, Synchronize, Repair, bounds
    <3> QED
      BY <1>1, <2>1, <3>1
  <2> QED
    BY <2>2, <2>3
<1> QED
  BY <1>2, <1>3

(* No call gets past files that cannot be loaded. *)
LEMMA StaysRefused ==
    ASSUME IInv, IInv', Next, Refused
    PROVE  Refused'
<1> USE DEF IInv
<1>1. /\ Committed = files /\ ~Readable
      /\ stage \in {"idle", "left"} \/ (stage = "publish" /\ pending = {})
  BY DEF Refused, Committed, Readable, StartKept, NothingWritten, AllWritten,
         Running, TypeOK, Stages
<1>2. Committed' = files'/\ files' = files
  BY <1>1 DEF Next, Step, CheckImport, ForgetImport, OperatorRemovesLock,
     EditOthers, HarmCache, Crash, Begin, Ensure, Read, Change, Store, Supersede,
     Delete, Import, Submit, Ready, PublishNext, PublishFails, RollBackNext,
     RolledBack, Answer, Reload, Synchronize, Repair, Committed, batch
<1> QED
  BY <1>1, <1>2, Grows DEF Refused

(* The rules of the log are those of the store. *)
LEMMA LogAdds ==
    ASSUME IInv, ~Refused, ~Refused', Committed \subseteq Committed',
           Committed' \subseteq Item, Valid(Committed')
    PROVE  Log!Add(Committed' \ Committed)
<1>1. Importable(Committed, Committed' \ Committed)
  BY Difference
<1>2. Committed \cup (Committed' \ Committed) = Committed'
  OBVIOUS
<1> HIDE DEF Committed, Refused
<1> QED
  BY <1>1, <1>2
     DEF Log!Add, Log!Item, Item, Log!Importable, Importable, Log!UniqueIds, UniqueIds,
         Log!References, References, Log!NoCycle, NoCycle, Log!Named, Named,
         Log!Records, Records, Log!Retired, Retired, Log!SupersededBy, SupersededBy

\* Every step of the store is one of the append-only log, or is not seen there.
LEMMA LogStep ==
    ASSUME IInv, IInv', [Next]_vars
    PROVE  [Log!Next]_(Log!vars)
<1>1. CASE UNCHANGED vars
  <2>1. Committed' = Committed /\ Refused' = Refused
    BY <1>1 DEF vars, batch, bounds, Committed, Refused
  <2> QED
    BY <2>1 DEF Log!vars
<1>2. CASE Next
  <2>1. Committed \subseteq Committed' /\ Committed' \subseteq Item
    BY <1>2, Grows DEF IInv, TypeOK, Committed
  <2>2. CASE Refused
    BY <1>2, <2>2, StaysRefused DEF Log!vars
  <2>3. CASE ~Refused /\ Refused'
    BY <2>3 DEF Log!Next, Log!Damage
  <2>4. CASE ~Refused /\ ~Refused'
    <3>1. Valid(Committed')
      BY <2>4, SMT DEF IInv, CommittedValid, Refused, Loadable, TypeOK
    <3>2. Log!Add(Committed' \ Committed)
      BY <2>1, <2>4, <3>1, LogAdds
    <3> QED
      BY <2>4, <3>2 DEF Log!Next
  <2> QED
    BY <2>2, <2>3, <2>4
<1> QED
  BY <1>1, <1>2

(* The files behave as a log that is only added to: whatever calls,        *)
(* failures, deaths and concurrent checks happen, every step adds a legal  *)
(* batch, changes nothing, or leaves files that all later calls refuse.    *)
THEOREM ImplementsMemoryLog == Spec => RefinesMemoryLog
<1>1. Init => Log!Init
  <2> SUFFICES ASSUME Init PROVE Log!Init
    OBVIOUS
  <2>1. Committed = {} /\ Valid({})
    BY Initial DEF Init, Committed, IInv, CommittedValid
  <2>2. ~Refused
    BY <2>1, Initial, FS_EmptySet, MemoryRulesAssumption DEF Init, Refused
  <2> QED
    BY <2>1, <2>2 DEF Log!Init
<1> QED
  BY <1>1, LogStep, Invariant, PTL DEF Spec, RefinesMemoryLog, Log!Spec

(* What the log promises holds of the files.                               *)
THEOREM StaysValid == Spec => []MemoryValid
<1>1. IInv => MemoryValid
  <2> SUFFICES ASSUME IInv PROVE MemoryValid
    OBVIOUS
  <2>1. Valid({}) /\ (~Refused => Valid(Committed))
    <3>1. Valid({})
      BY DEF Valid, UniqueIds, References, NoCycle, Retired, Named, Records
    <3>2. ~Refused => Valid(Committed)
      BY SMT DEF IInv, CommittedValid, Refused, Loadable, TypeOK
    <3> QED
      BY <3>1, <3>2
  <2> HIDE DEF Refused, Committed
  <2>2. Valid(IF Refused THEN {} ELSE Committed)
    BY <2>1
  <2> QED
    BY <2>2
       DEF MemoryValid, Log!MemoryValid, Log!Valid, Valid, Log!UniqueIds, UniqueIds,
           Log!References, References, Log!NoCycle, NoCycle, Log!Named, Named,
           Log!Records, Records, Log!Retired, Retired, Log!SupersededBy, SupersededBy
<1> QED
  BY <1>1, Invariant, PTL

(* No item is lost and what was retired stays retired, whatever fails and  *)
(* dies, unless the files are refused from then on.                        *)
THEOREM NothingComesBack == Spec => AppendOnly
<1>1. [Log!Next]_(Log!vars) =>
          [(IF Refused THEN "refused" ELSE "sound")' = "sound" =>
               /\ (IF Refused THEN {} ELSE Committed)
                      \subseteq (IF Refused THEN {} ELSE Committed)'
               /\ Log!Retired(IF Refused THEN {} ELSE Committed)
                      \cap Log!ActiveIds((IF Refused THEN {} ELSE Committed)') = {}]_(Log!vars)
  <2> DEFINE m == IF Refused THEN {} ELSE Committed
             n == (IF Refused THEN {} ELSE Committed)'
             h == (IF Refused THEN "refused" ELSE "sound")'
  <2> SUFFICES ASSUME Log!Next, h = "sound"
               PROVE  m \subseteq n /\ Log!Retired(m) \cap Log!ActiveIds(n) = {}
    BY DEF Log!vars
  <2>1. m \subseteq n
    BY DEF Log!Next, Log!Add, Log!Damage
  <2> HIDE DEF m, n
  <2>2. Log!Retired(m) \subseteq Log!Retired(n)
    BY <2>1 DEF Log!Retired
  <2> QED
    BY <2>1, <2>2 DEF Log!ActiveIds
<1> QED
  BY <1>1, ImplementsMemoryLog, PTL DEF RefinesMemoryLog, Log!Spec, AppendOnly, Log!AppendOnly

(* A roll-back removes files of its own batch only, which were new when    *)
(* the batch was submitted and are new still; nothing else removes a file. *)
THEOREM TakesBackNothingElse == Spec => TakesBackOnlyItsOwn
<1>1. IInv /\ [Next]_vars => [Earlier \subseteq files']_vars
  <2> SUFFICES ASSUME IInv, Next PROVE Earlier \subseteq files'
    BY DEF vars
  <2>1. Earlier \subseteq files
    BY DEF IInv, Earlier, StartKept, Running
  <2>2. CASE RollBackNext
    <3>1. stage = "undo" /\ Earlier = start
      BY <2>2 DEF RollBackNext, Earlier
    <3>2. PICK x \in applied : files \ {x} \subseteq files'
      BY <2>2 DEF RollBackNext
    <3>3. x \notin start
      BY <3>1, <3>2 DEF IInv, PartRemoved
    <3> QED
      BY <2>1, <3>1, <3>2, <3>3
  <2>3. CASE ~RollBackNext
    <3>1. files \subseteq files'
      BY <2>3 DEF Next, Step, CheckImport, ForgetImport, OperatorRemovesLock, EditOthers,
         HarmCache, Crash, Begin, Ensure, Read, Change, Store, Supersede, Delete, Import,
         Submit, PublishNext, PublishFails, RolledBack, Reload, Synchronize, Repair
    <3> QED
      BY <2>1, <3>1
  <2> QED
    BY <2>2, <2>3
<1> QED
  BY <1>1, Invariant, PTL DEF Spec, TakesBackOnlyItsOwn

(* Types, in every behaviour. *)
THEOREM TypeCorrect == Spec => []TypeOK
<1>1. IInv => TypeOK
  BY DEF IInv
<1> QED
  BY <1>1, Invariant, PTL

-----------------------------------------------------------------------------
(* Answers and evidence *)

(* A call that answers with an error wrote nothing, unless it wrote one    *)
(* file too many; one that answers "ok" or "committed" wrote its batch,    *)
(* and after "ok" the cache mirrors it.                                    *)
THEOREM AnswersAreTrue == Spec => AnswersTrue
<1>1. IInv /\ [Next]_vars =>
          [Answered =>
              /\ told' = "error" => files' = start \/ Cardinality(files') > MaxFiles
              /\ told' \in {"ok", "committed"} => files' = start \cup applied
              /\ told' = "ok" /\ applied # {} => Cache!Mirrors(Snapshot)']_vars
  <2> SUFFICES ASSUME IInv, Next, Answered
               PROVE  /\ told' = "error" => files' = start \/ Cardinality(files') > MaxFiles
                      /\ told' \in {"ok", "committed"} => files' = start \cup applied
                      /\ told' = "ok" /\ applied # {} => Cache!Mirrors(Snapshot)'
    BY DEF vars
  <2> USE DEF IInv
  <2>1. \/ Ensure \/ Read \/ RolledBack \/ Reload \/ Synchronize \/ Repair \/ Crash
    BY DEF Next, Step, CheckImport, ForgetImport, OperatorRemovesLock, EditOthers,
       HarmCache, Begin, Change, Store, Supersede, Delete, Import, Submit, Continue,
       PublishNext, PublishFails, RollBackNext, Answered
  <2>2. CASE Ensure \/ Read
    BY <2>2 DEF Ensure, Read, Ready, NothingWritten
  <2>3. CASE RolledBack
    <3>1. stage = "undo" /\ applied = {} /\ files' = files
          /\ told' = IF told = "none" THEN "error" ELSE told
      BY <2>3 DEF RolledBack, Answer
    <3> QED
      BY <3>1 DEF PartRemoved, StartKept, Running
  <2>4. CASE Reload
    <3>1. stage = "publish" /\ files' = files /\ ~Readable /\ told' = "error" /\ pending = {}
      BY <2>4 DEF Reload, Answer, Continue, Answered
    <3>2. Valid(files) /\ others # Invalid
      <4>1. Importable(start, applied) /\ files = start \cup applied
        BY <3>1 DEF PartWritten
      <4> QED
        BY <3>1, <4>1, Whole DEF StartKept, Running, Loadable, TypeOK
    <3>3. ~(Cardinality(files) <= MaxFiles)
      BY <3>1, <3>2 DEF Readable, Loadable
    <3>4. Cardinality(files) \in Nat /\ MaxFiles \in Nat
      BY FS_CardinalityType, MemoryRulesAssumption
    <3>5. Cardinality(files) > MaxFiles
      BY <3>3, <3>4
    <3> QED
      BY <3>1, <3>5
  <2>5. CASE Synchronize \/ Repair
    <3>1. /\ files' = files /\ others' = others /\ files = start \cup applied
          /\ told' # "error"
      BY <2>5 DEF Synchronize, Repair, AllWritten, Answer, Continue
    <3>2. Snapshot' = Snapshot
      BY <3>1 DEF Snapshot
    <3>3. told' = "ok" => Cache!Replace(Snapshot)
      BY <2>5 DEF Synchronize, Repair, Answer, Continue
    <3> QED
      BY <3>1, <3>2, <3>3 DEF Cache!Replace, Cache!Filled, Cache!Mirrors
  <2>6. CASE Crash
    BY <2>6 DEF Crash
  <2> QED
    BY <2>1, <2>2, <2>3, <2>4, <2>5, <2>6
<1> QED
  BY <1>1, Invariant, PTL DEF Spec, AnswersTrue

(* The evidence is true: rows that pass the health check are the rows of   *)
(* the canonical files, because a digest is only written with its rows.    *)
THEOREM EvidenceIsTrue == Spec => EvidenceTrue
<1>1. IInv /\ [Next]_vars =>
          [stage = "ensure" /\ Ready' => Cache!Mirrors(Snapshot)']_vars
  <2> SUFFICES ASSUME IInv, Next, stage = "ensure", Ready'
               PROVE  Cache!Mirrors(Snapshot)'
    BY DEF vars
  <2>1. Ensure
    BY DEF Ready, Next, Step, CheckImport, ForgetImport, OperatorRemovesLock,
       EditOthers, HarmCache, Crash, Begin, Read, Change, Store, Supersede, Delete,
       Import, Submit, PublishNext, PublishFails, RollBackNext, RolledBack, Reload,
       Synchronize, Repair
  <2>2. Snapshot' = Snapshot
    BY <2>1 DEF Ensure, Snapshot
  <2>3. CASE UNCHANGED cache /\ Cache!Healthy(Snapshot)
    BY <2>2, <2>3 DEF IInv, CacheHonest, Cache!Healthy, Cache!Mirrors
  <2>4. CASE Cache!Replace(Snapshot)
    BY <2>2, <2>4 DEF Cache!Replace, Cache!Filled, Cache!Mirrors
  <2> QED
    BY <2>1, <2>3, <2>4 DEF Ensure, Answer, Ready
<1> QED
  BY <1>1, Invariant, PTL DEF Spec, EvidenceTrue
=============================================================================
