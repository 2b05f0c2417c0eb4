----------------------- MODULE ExecutionContext_proofs -----------------------
(***************************************************************************)
(* Proofs about ExecutionContext, for any sessions, workspaces, Epics and  *)
(* kinds and numbers of failures and deaths: what sessions were told stays *)
(* unambiguous and backed by a workspace, and a bound session is never     *)
(* reported as unbound.  Without removals that fail late, every transition *)
(* is all or nothing: the implementation of ContextRegistry.               *)
(* The last section is about the repository lock these transactions are    *)
(* made under: one owner at a time, unless a stale lock is reclaimed twice.*)
(***************************************************************************)
EXTENDS ExecutionContext, RepositoryLock, TLAPS

\* The parameters and the state of the lock, besides those of RepositoryLock.
CONSTANTS Unprovable, MaxDeaths, Free
VARIABLE lockFaults

Undoing == {"undoRecord", "undoBinding", "undoTransaction"}
Allocating == {"tree", "lock", "reconcile"}
Publishing == {"transaction", "record", "binding", "commit"}

\* What each stage of a call knows of the call, of the transaction file and of
\* what it has written.
StageKept ==
    /\ stage \in {"idle", "ready"} => call = None /\ undo = None
    /\ stage = "ready" => transaction = None
    /\ stage \in Allocating \cup Publishing => call # None /\ undo = None
    /\ stage \in Allocating => ~call.last
    /\ stage \in Allocating \cup {"transaction"} => transaction \in {None, call.before}
    /\ stage \in {"record", "binding", "commit"} => transaction = call.before
    /\ stage \in {"binding", "commit"} => records[call.ws] = call.record
    /\ stage = "commit" => bindings[call.session] = call.binding
    /\ stage \in Undoing =>
           /\ undo # None /\ transaction \in {None, undo}
           /\ call # None => undo = call.before

\* A record that may be in a workspace's file keeps what sessions were told.
Backs(T, c, record) ==
    /\ record # None /\ record.lifecycle # "creating"
    /\ record.gen >= c.binding.wsGen
    /\ record.legacy \/ T[c.binding.ws] = "locked"
    /\ c.binding.epic # None => record.epic = c.binding.epic
RecordSafe(G, T, w, record) == \A c \in G : c.binding.ws = w => Backs(T, c, record)

\* A binding that may be in a session's file is later than what the session was
\* told, or what it was told.
BindingSafe(G, s, binding) ==
    \A c \in G : c.session = s =>
        /\ binding # None
        /\ binding.gen >= c.binding.gen
        /\ binding.gen = c.binding.gen => binding = c.binding

\* Records that may be restored are safe, and belong to no Epic.
BeforeSafe(G, T, U, t) ==
    t # None =>
        /\ t.ws \in U
        /\ RecordSafe(G, T, t.ws, t.record) /\ BindingSafe(G, t.session, t.binding)
        /\ t.record # None => t.record.epic = None

\* What the running call is about to publish.
CallKept ==
    call # None =>
        /\ call.before.ws = call.ws /\ call.before.session = call.session
        /\ BeforeSafe(granted, trees, used, call.before)
        /\ call.record.lifecycle # "creating"
        /\ RecordSafe(granted, trees, call.ws, call.record)
        /\ call.record.epic # None => EpicFree(call.record.epic, {call.ws})
        /\ stage \in Publishing \cup Undoing =>
               call.record.legacy \/ trees[call.ws] = "locked"
        /\ call.binding.ws = call.ws /\ call.binding.epic = call.record.epic
        /\ call.binding.wsGen = call.record.gen /\ call.binding.bound
        /\ BindingSafe(granted, call.session, call.binding)
        /\ ~call.last => call.before.record = Creating

\* What is on disk is safe.
DiskKept ==
    /\ \A w \in Workspaces : RecordSafe(granted, trees, w, records[w])
    /\ \A s \in Sessions : BindingSafe(granted, s, bindings[s])
    /\ \A w \in Workspaces : records[w] # None => w \in used
    /\ \A w, x \in Workspaces :
           /\ records[w] # None /\ records[x] # None
           /\ records[w].epic = records[x].epic /\ records[w].epic # None
           => w = x
    /\ BeforeSafe(granted, trees, used, transaction)
    /\ BeforeSafe(granted, trees, used, undo)

\* A session was never told two things under one generation.
ToldOnce ==
    \A c, d \in granted :
        c.session = d.session /\ c.binding.gen = d.binding.gen => c = d

\* A session that was bound when the transition began still is.
Keeps(t) == t # None /\ t.binding # None /\ t.binding.bound => IsBound(t.session)
Routed ==
    /\ Keeps(transaction) /\ Keeps(undo)
    /\ call # None => Keeps(call.before)

IInv == TypeOK /\ StageKept /\ CallKept /\ DiskKept /\ ToldOnce /\ Routed

\* As long as no removal fails late: what a pending transaction masks, and what
\* it does not.
Masked ==
    /\ stage \in Undoing => transaction = undo
    /\ call # None /\ transaction = None =>
           /\ records[call.ws] = call.before.record
           /\ bindings[call.session] = call.before.binding
    /\ stage \in {"undoBinding", "undoTransaction"} => records[undo.ws] = undo.record
    /\ stage = "undoTransaction" => bindings[undo.session] = undo.binding

\* ... and the transition that each call publishes.
Transition ==
    call # None =>
        \/ /\ call.record = [Creating EXCEPT !.lifecycle = "active", !.gen = 2]
           /\ call.before.record = Creating /\ call.before.binding = None
           /\ call.binding = NewBinding(call.ws, call.record)
        \/ /\ call.record.epic \in Epics /\ call.record.gen = 1
           /\ call.before.record = None /\ call.before.binding = None
           /\ call.binding = NewBinding(call.ws, call.record)
        \/ /\ call.before.record # None /\ call.before.record.lifecycle # "creating"
           /\ call.record.epic \in Epics
           /\ call.record.gen = call.before.record.gen + 1
           /\ call.before.binding # None /\ call.before.binding.bound
           /\ call.before.binding.ws = call.ws
           /\ call.before.binding.gen < MaxGeneration
           /\ call.before.binding.wsGen = call.before.record.gen
           /\ call.binding = UpdateBinding(call.before.binding, call.ws, call.record)
RInv == Masked /\ Transition

-----------------------------------------------------------------------------
(* The types *)

\* A binding to a record is typed, and speaks of it.
LEMMA NewBindingTyped ==
    ASSUME NEW w \in Workspaces, NEW record \in Record
    PROVE  /\ NewBinding(w, record) \in Binding
           /\ NewBinding(w, record).ws = w /\ NewBinding(w, record).epic = record.epic
           /\ NewBinding(w, record).gen = 1 /\ NewBinding(w, record).wsGen = record.gen
           /\ NewBinding(w, record).bound
BY DEF NewBinding, Binding, Record
\* Re-pointing a binding keeps it well formed and moves its generation on by one.
LEMMA UpdateBindingTyped ==
    ASSUME NEW w \in Workspaces, NEW record \in Record, NEW binding \in Binding
    PROVE  /\ UpdateBinding(binding, w, record) \in Binding
           /\ UpdateBinding(binding, w, record).ws = w
           /\ UpdateBinding(binding, w, record).epic = record.epic
           /\ UpdateBinding(binding, w, record).gen = binding.gen + 1
           /\ UpdateBinding(binding, w, record).wsGen = record.gen
           /\ UpdateBinding(binding, w, record).bound
<1> DEFINE new == NewBinding(w, record)
<1>1. new \in Binding /\ new.ws = w /\ new.epic = record.epic /\ new.wsGen = record.gen
      /\ new.bound
  BY NewBindingTyped
<1>2. UpdateBinding(binding, w, record) = [new EXCEPT !.gen = binding.gen + 1]
  BY DEF UpdateBinding
<1>3. binding.gen + 1 \in Nat \ {0}
  BY DEF Binding
<1> HIDE DEF new
<1> QED
  BY <1>1, <1>2, <1>3 DEF Binding

\* The call that a publication starts.
LEMMA PublishEffect ==
    ASSUME TypeOK, NEW op \in {"allocate", "attach", "adopt"}, NEW s \in Sessions,
           NEW w \in Workspaces, NEW record \in Record, NEW binding \in Binding,
           NEW previous \in Record \cup {None},
           Publish(op, s, w, record, binding, previous)
    PROVE  /\ call' \in Call /\ call' # None
           /\ call'.session = s /\ call'.ws = w /\ call'.record = record
           /\ call'.binding = binding
           /\ op # "allocate" => call'.last
           /\ op = "allocate" => ~call'.last
           /\ call'.before.ws = w /\ call'.before.session = s
           /\ call'.before.record = previous /\ call'.before.binding = bindings[s]
<1>1. [ws |-> w, session |-> s, record |-> previous, binding |-> bindings[s]] \in Transaction
  BY DEF TypeOK, Transaction
<1>2. call' \in Call
  BY <1>1 DEF Publish, Call
<1>3. call'.last = (op # "allocate")
  BY DEF Publish
<1> QED
  BY <1>2, <1>3, ContextAssumption DEF Publish

\* What allocation, attachment and adoption publish.
LEMMA AllocateEffect ==
    ASSUME TypeOK, NEW s \in Sessions, NEW w \in Workspaces, Allocate(s, w)
    PROVE  /\ Creating \in Record /\ records' = [records EXCEPT ![w] = Creating]
           /\ stage = "ready" /\ w \notin used /\ used' = used \cup {w}
           /\ UNCHANGED <<bindings, transaction, trees, legacy, granted, crashes>>
           /\ faults' \in Nat
           /\ \/ stage' = "idle" /\ call' = None /\ undo' = None
              \/ /\ stage' = "tree" /\ undo' = undo
                 /\ call' \in Call /\ call' # None
                 /\ call'.session = s /\ call'.ws = w /\ ~call'.last
                 /\ call'.record = [Creating EXCEPT !.lifecycle = "active", !.gen = 2]
                 /\ call'.record.epic = None
                 /\ call'.binding = NewBinding(w, call'.record)
                 /\ call'.before.ws = w /\ call'.before.session = s
                 /\ call'.before.record = Creating
                 /\ call'.before.binding = None /\ bindings[s] = None
<1> DEFINE active == [Creating EXCEPT !.lifecycle = "active", !.gen = 2]
<1>1. Creating \in Record /\ Creating.epic = None
  BY DEF Creating, Record, Lifecycles
<1>2. active \in Record /\ active.epic = None
  <2>1. [Creating EXCEPT !.lifecycle = "active"] \in Record
    BY <1>1 DEF Record, Lifecycles
  <2>2. [[Creating EXCEPT !.lifecycle = "active"] EXCEPT !.gen = 2] \in Record
    <3>1. 2 \in Nat \ {0}
      OBVIOUS
    <3> QED
      BY <2>1, <3>1 DEF Record
  <2>3. active = [[Creating EXCEPT !.lifecycle = "active"] EXCEPT !.gen = 2]
    OBVIOUS
  <2>4. active.epic = None
    BY <1>1 DEF Record
  <2> QED
    BY <2>2, <2>3, <2>4
<1>3. CASE stage' = "idle"
  BY <1>1, <1>3 DEF Allocate, End, Fault, TypeOK
<1>4. CASE stage' # "idle"
  <2>1. Publish("allocate", s, w, active, NewBinding(w, active), Creating)
        /\ stage' = "tree" /\ undo' = undo /\ bindings[s] = None
    BY <1>4 DEF Allocate, End
  <2> HIDE DEF active
  <2>2. NewBinding(w, active) \in Binding
    BY <1>2, NewBindingTyped
  <2>3. /\ call' \in Call /\ call' # None
        /\ call'.session = s /\ call'.ws = w /\ call'.record = active
        /\ call'.binding = NewBinding(w, active) /\ ~call'.last
        /\ call'.before.ws = w /\ call'.before.session = s
        /\ call'.before.record = Creating /\ call'.before.binding = bindings[s]
    BY <1>1, <1>2, <2>1, <2>2, PublishEffect
  <2> QED
    BY <1>1, <1>2, <2>1, <2>3 DEF Allocate, active, End, TypeOK
<1> QED
  BY <1>3, <1>4

\* Attaching an Epic plans the session's own record and binding one generation on.
LEMMA AttachEffect ==
    ASSUME TypeOK, NEW s \in Sessions, NEW e \in Epics, AttachEpic(s, e)
    PROVE  /\ stage = "ready" /\ stage' = "transaction"
           /\ UNCHANGED <<store, legacy, used, undo, granted, faults, crashes>>
           /\ call' \in Call /\ call' # None /\ call'.session = s /\ call'.last
           /\ call'.ws = bindings[s].ws /\ records[call'.ws] # None
           /\ records[call'.ws].lifecycle \in {"active", "cleanup_ready"}
           /\ records[call'.ws].epic = None /\ TopologyOK(call'.ws)
           /\ call'.record = [records[call'.ws] EXCEPT !.epic = e, !.gen = @ + 1]
           /\ call'.record.epic = e /\ call'.record.gen = records[call'.ws].gen + 1
           /\ call'.record.lifecycle = records[call'.ws].lifecycle
           /\ call'.record.legacy = records[call'.ws].legacy
           /\ EpicFree(e, {call'.ws})
           /\ IsBound(s) /\ Matches(bindings[s]) /\ bindings[s].gen < MaxGeneration
           /\ call'.binding = UpdateBinding(bindings[s], call'.ws, call'.record)
           /\ call'.before.ws = call'.ws /\ call'.before.session = s
           /\ call'.before.record = records[call'.ws]
           /\ call'.before.binding = bindings[s]
<1>1. PICK b \in Binding : b = bindings[s]
  BY DEF AttachEpic, IsBound, TypeOK
<1>2. PICK w \in Workspaces : w = bindings[s].ws
  BY <1>1 DEF Binding
<1>3. PICK old \in Record : old = records[w] /\ old # None
      /\ old.lifecycle \in {"active", "cleanup_ready"}
  BY <1>2 DEF AttachEpic, TopologyOK, TypeOK
<1> DEFINE next == [old EXCEPT !.epic = e, !.gen = @ + 1]
<1>4. next \in Record /\ next.epic = e /\ next.gen = old.gen + 1
      /\ next.lifecycle = old.lifecycle /\ next.legacy = old.legacy
  <2>1. old.gen + 1 \in Nat \ {0}
    BY DEF Record
  <2>2. next \in Record
    BY <2>1 DEF Record
  <2> QED
    BY <2>2 DEF Record
<1>5. /\ Publish("attach", s, w, next, UpdateBinding(b, w, next), old)
      /\ stage = "ready" /\ stage' = "transaction"
      /\ UNCHANGED <<store, legacy, used, undo, granted, faults, crashes>>
      /\ records[w].epic = None /\ EpicFree(e, {w}) /\ IsBound(s) /\ TopologyOK(w)
      /\ Matches(bindings[s]) /\ bindings[s].gen < MaxGeneration
  BY <1>1, <1>2, <1>3 DEF AttachEpic
<1>6. next = [old EXCEPT !.epic = e, !.gen = @ + 1]
  OBVIOUS
<1> HIDE DEF next
<1>7. UpdateBinding(b, w, next) \in Binding
  BY <1>4, UpdateBindingTyped
<1>8. /\ call' \in Call /\ call' # None
      /\ call'.session = s /\ call'.ws = w /\ call'.record = next
      /\ call'.binding = UpdateBinding(b, w, next) /\ call'.last
      /\ call'.before.ws = w /\ call'.before.session = s
      /\ call'.before.record = old /\ call'.before.binding = b
  BY <1>1, <1>3, <1>4, <1>5, <1>7, PublishEffect
<1> QED
  BY <1>1, <1>2, <1>3, <1>4, <1>5, <1>6, <1>8

\* Adopting a version 1 worktree opens a free Epic in a directory never used before.
LEMMA AdoptEffect ==
    ASSUME TypeOK, NEW s \in Sessions, NEW w \in Workspaces, NEW e \in Epics,
           AdoptV1(s, w, e)
    PROVE  /\ stage = "ready" /\ stage' = "transaction"
           /\ UNCHANGED <<store, legacy, undo, granted, faults, crashes>>
           /\ bindings[s] = None /\ w \notin used /\ used' = used \cup {w}
           /\ EpicFree(e, {})
           /\ call' \in Call /\ call' # None /\ call'.session = s /\ call'.last
           /\ call'.ws = w
           /\ call'.record.lifecycle \in {"active", "cleanup_ready"}
           /\ call'.record.epic = e /\ call'.record.gen = 1 /\ call'.record.legacy
           /\ call'.binding = NewBinding(w, call'.record)
           /\ call'.before.ws = w /\ call'.before.session = s
           /\ call'.before.record = None /\ call'.before.binding = None
<1> DEFINE record == [lifecycle |-> legacy[e], epic |-> e, gen |-> 1, legacy |-> TRUE]
<1>1. record \in Record /\ record.epic = e /\ record.gen = 1 /\ record.legacy
      /\ record.lifecycle \in {"active", "cleanup_ready"}
  BY DEF AdoptV1, Record, Lifecycles
<1>2. /\ Publish("adopt", s, w, record, NewBinding(w, record), None)
      /\ stage = "ready" /\ stage' = "transaction"
      /\ UNCHANGED <<store, legacy, undo, granted, faults, crashes>>
      /\ bindings[s] = None /\ w \notin used /\ used' = used \cup {w}
      /\ EpicFree(e, {})
  BY DEF AdoptV1
<1> HIDE DEF record
<1>3. NewBinding(w, record) \in Binding
  BY <1>1, NewBindingTyped
<1>4. /\ call' \in Call /\ call' # None
      /\ call'.session = s /\ call'.ws = w /\ call'.record = record
      /\ call'.binding = NewBinding(w, record) /\ call'.last
      /\ call'.before.ws = w /\ call'.before.session = s
      /\ call'.before.record = None /\ call'.before.binding = bindings[s]
  BY <1>1, <1>2, <1>3, PublishEffect
<1> QED
  BY <1>1, <1>2, <1>4

\* What one write does: the session gets a binding to the workspace's record, or
\* its own binding, at a generation above the one it had.
Written(s, binding) ==
    /\ stage = "ready" /\ binding \in Binding
    /\ bindings' = [bindings EXCEPT ![s] = binding]
    /\ bindings[s] # None => binding.gen = bindings[s].gen + 1
    /\ bindings[s] = None => binding.gen = 1
    /\ \/ granted' = granted
       \/ /\ TopologyOK(binding.ws) /\ Matches(binding)
          /\ granted' = granted \cup {[session |-> s, binding |-> binding]}
    /\ End /\ faults' \in Nat
    /\ UNCHANGED <<records, transaction, trees, legacy, used, crashes>>

\* A binding written on its own lands, is refused or is left for roll-back.
LEMMA WriteEffect ==
    ASSUME TypeOK, NEW s \in Sessions, NEW binding \in Binding,
           stage = "ready", WriteOneBinding(s, binding),
           binding.bound => TopologyOK(binding.ws) /\ Matches(binding),
           bindings[s] # None => binding.gen = bindings[s].gen + 1,
           bindings[s] = None => binding.gen = 1
    PROVE  Written(s, binding) /\ (~binding.bound => granted' = granted)
<1>1. faults \in Nat
  BY DEF TypeOK
<1>2. faults' \in Nat
  BY <1>1 DEF WriteOneBinding, Fault
<1> QED
  BY <1>2 DEF WriteOneBinding, Written, Grant

\* Binding a session writes the workspace's Epic and generation as they are read.
LEMMA BindEffect ==
    ASSUME TypeOK, NEW s \in Sessions, NEW w \in Workspaces, Bind(s, w)
    PROVE  \E binding \in Binding :
               /\ binding.bound /\ binding.ws = w
               /\ binding.epic = records[w].epic /\ binding.wsGen = records[w].gen
               /\ TopologyOK(w)
               /\ bindings[s] # None => bindings[s].gen < MaxGeneration
               /\ Written(s, binding)
<1>1. PICK record \in Record : record = records[w]
  BY DEF Bind, TopologyOK, TypeOK
<1>2. stage = "ready" /\ TopologyOK(w)
  BY DEF Bind
<1>3. PICK new \in Binding :
          /\ new.ws = w /\ new.epic = record.epic /\ new.wsGen = record.gen /\ new.bound
          /\ WriteOneBinding(s, new)
          /\ bindings[s] # None => new.gen = bindings[s].gen + 1
          /\ bindings[s] = None => new.gen = 1
          /\ bindings[s] # None => bindings[s].gen < MaxGeneration
  <2>1. CASE bindings[s] = None
    <3>1. WriteOneBinding(s, NewBinding(w, record))
      BY <1>1, <2>1 DEF Bind
    <3> QED
      BY <2>1, <3>1, NewBindingTyped
  <2>2. CASE bindings[s] # None
    <3>1. PICK old \in Binding : old = bindings[s]
      BY <2>2 DEF TypeOK
    <3>2. WriteOneBinding(s, UpdateBinding(old, w, record))
      BY <1>1, <2>2, <3>1 DEF Bind
    <3>3. bindings[s].gen < MaxGeneration
      BY <2>2 DEF Bind
    <3> QED
      BY <2>2, <3>1, <3>2, <3>3, UpdateBindingTyped
  <2> QED
    BY <2>1, <2>2
<1>4. TopologyOK(new.ws) /\ Matches(new)
  BY <1>1, <1>2, <1>3 DEF Matches
<1> QED
  BY <1>1, <1>2, <1>3, <1>4, WriteEffect

\* Releasing a session clears the flag of its own binding and nothing else.
LEMMA ReleaseEffect ==
    ASSUME TypeOK, NEW s \in Sessions, Release(s)
    PROVE  \E binding \in Binding :
               /\ ~binding.bound /\ binding.ws = bindings[s].ws /\ granted' = granted
               /\ binding.epic = bindings[s].epic /\ binding.wsGen = bindings[s].wsGen
               /\ bindings[s] # None /\ bindings[s].bound
               /\ bindings[s].gen < MaxGeneration
               /\ Written(s, binding)
<1>1. PICK old \in Binding : /\ old = bindings[s] /\ old # None /\ old.bound
                             /\ old.gen < MaxGeneration
  BY DEF Release, IsBound, TypeOK
<1>2. PICK new \in Binding :
          /\ new = [old EXCEPT !.bound = FALSE, !.gen = @ + 1]
          /\ new.ws = old.ws /\ new.gen = old.gen + 1 /\ ~new.bound
          /\ new.epic = old.epic /\ new.wsGen = old.wsGen
  <2> DEFINE new == [old EXCEPT !.bound = FALSE, !.gen = @ + 1]
  <2>1. old.gen + 1 \in Nat \ {0}
    BY DEF Binding
  <2>2. new \in Binding
    <3>1. [old EXCEPT !.bound = FALSE] \in Binding
      BY DEF Binding
    <3>2. [[old EXCEPT !.bound = FALSE] EXCEPT !.gen = old.gen + 1] \in Binding
      BY <2>1, <3>1 DEF Binding
    <3>3. new = [[old EXCEPT !.bound = FALSE] EXCEPT !.gen = old.gen + 1]
      OBVIOUS
    <3> QED
      BY <3>2, <3>3
  <2>3. new.ws = old.ws /\ new.gen = old.gen + 1
        /\ new.epic = old.epic /\ new.wsGen = old.wsGen
    BY DEF Binding
  <2>4. ~new.bound
    BY DEF Binding
  <2> HIDE DEF new
  <2>5. new = [old EXCEPT !.bound = FALSE, !.gen = @ + 1]
    BY DEF new
  <2> QED
    BY <2>2, <2>3, <2>4, <2>5
<1>3. stage = "ready" /\ WriteOneBinding(s, new)
  BY <1>1, <1>2 DEF Release
<1> QED
  BY <1>1, <1>2, <1>3, WriteEffect

\* The allocation tries once more, and then no more.
LEMMA ReconcileEffect ==
    ASSUME TypeOK, call # None, Reconcile
    PROVE  /\ call' \in Call /\ call' # None /\ call'.last
           /\ call'.session = call.session /\ call'.ws = call.ws
           /\ call'.record = call.record /\ call'.binding = call.binding
           /\ call'.before = call.before
<1>1. call \in Call
  BY DEF TypeOK
<1>2. call' = [call EXCEPT !.last = TRUE]
  BY DEF Reconcile
<1>3. call' \in Call
  BY <1>1, <1>2 DEF Call
<1> QED
  BY <1>1, <1>2, <1>3, ContextAssumption DEF Call

-----------------------------------------------------------------------------
(* The invariant holds in the first states, and every action keeps it *)

\* Every action keeps the types.
LEMMA TypedStep == TypeOK /\ StageKept /\ [Next]_vars => TypeOK'
<1> SUFFICES ASSUME TypeOK, StageKept, [Next]_vars PROVE TypeOK'
  OBVIOUS
<1> USE ContextAssumption DEF TypeOK, End, Grant, Fault, AfterFailure, RollBack,
       store, memory, Stages
<1>1. Begin => TypeOK'
  BY DEF Begin
<1>2. Reject => TypeOK'
  BY DEF Reject
<1>3. ASSUME NEW s \in Sessions, Resolve(s)
      PROVE  TypeOK'
  BY <1>3 DEF Resolve, IsBound, Context
<1>4. ASSUME NEW s \in Sessions, BindAgain(s)
      PROVE  TypeOK'
  BY <1>4 DEF BindAgain, IsBound, Context
<1>5. ASSUME NEW s \in Sessions, Release(s)
      PROVE  TypeOK'
  BY <1>5, ReleaseEffect DEF Written
<1>6. ASSUME NEW s \in Sessions, NEW w \in Workspaces, Bind(s, w)
      PROVE  TypeOK'
  BY <1>6, BindEffect DEF Written, Context
<1>7. ASSUME NEW s \in Sessions, NEW w \in Workspaces, Allocate(s, w)
      PROVE  TypeOK'
  BY <1>7, AllocateEffect
<1>8. ASSUME NEW s \in Sessions, NEW e \in Epics, AttachEpic(s, e)
      PROVE  TypeOK'
  <2>1. /\ stage' = "transaction"
        /\ UNCHANGED <<records, bindings, transaction, trees, legacy, used, undo,
                      granted, faults, crashes>>
        /\ call' \in Call
    BY <1>8, AttachEffect
  <2> QED
    BY <2>1
<1>9. ASSUME NEW s \in Sessions, NEW w \in Workspaces, NEW e \in Epics, AdoptV1(s, w, e)
      PROVE  TypeOK'
  BY <1>9, AdoptEffect
<1>10. AddTree => TypeOK'
  BY DEF AddTree, Call, StageKept, Allocating
<1>11. LockTree => TypeOK'
  BY DEF LockTree, Call, StageKept, Allocating
<1>12. TreeFails => TypeOK'
  BY DEF TreeFails
<1>13. Reconcile => TypeOK'
  BY ReconcileEffect DEF Reconcile, StageKept, Allocating
<1>14. ReconcileFails => TypeOK'
  BY DEF ReconcileFails
<1>15. WriteTransaction => TypeOK'
  BY DEF WriteTransaction, Call, StageKept, Publishing
<1>16. WriteRecord => TypeOK'
  BY DEF WriteRecord, Call, StageKept, Publishing
<1>17. WriteBinding => TypeOK'
  BY DEF WriteBinding, Call, StageKept, Publishing
<1>18. Commit => TypeOK'
  BY DEF Commit, Call, Context, StageKept, Publishing
<1>19. CommitFails => TypeOK'
  BY DEF CommitFails, Call, StageKept, Publishing
<1>20. UndoRecord => TypeOK'
  BY DEF UndoRecord, Transaction, StageKept, Undoing, RestoreFault
<1>21. UndoBinding => TypeOK'
  BY DEF UndoBinding, Transaction, StageKept, Undoing, RestoreFault
<1>22. UndoTransaction => TypeOK'
  BY DEF UndoTransaction
<1>23. UndoTransactionFails => TypeOK'
  BY DEF UndoTransactionFails
<1>24. Crash => TypeOK'
  BY DEF Crash
<1>25. ASSUME NEW e \in Epics, LegacyChange(e)
      PROVE  TypeOK'
  BY <1>25 DEF LegacyChange
<1>26. UNCHANGED vars => TypeOK'
  BY DEF vars
<1> QED
  BY <1>1, <1>2, <1>3, <1>4, <1>5, <1>6, <1>7, <1>8, <1>9, <1>10, <1>11,
     <1>12, <1>13, <1>14, <1>15, <1>16, <1>17, <1>18, <1>19, <1>20, <1>21,
     <1>22, <1>23, <1>24, <1>25, <1>26 DEF Next, Progress, Operation

\* Every action leaves the stage that the next one expects.
LEMMA StagedStep == TypeOK /\ StageKept /\ [Next]_vars => StageKept'
<1> SUFFICES ASSUME TypeOK, StageKept, [Next]_vars PROVE StageKept'
  OBVIOUS
<1> USE ContextAssumption DEF StageKept, TypeOK, End, Fault, AfterFailure, RollBack,
       store, memory, Stages, Allocating, Publishing, Undoing
<1>1. Begin => StageKept'
  BY DEF Begin
<1>2. Reject => StageKept'
  BY DEF Reject
<1>3. ASSUME NEW s \in Sessions, Resolve(s)
      PROVE  StageKept'
  BY <1>3 DEF Resolve
<1>4. ASSUME NEW s \in Sessions, BindAgain(s)
      PROVE  StageKept'
  BY <1>4 DEF BindAgain
<1>5. ASSUME NEW s \in Sessions, Release(s)
      PROVE  StageKept'
  BY <1>5, ReleaseEffect DEF Release, WriteOneBinding
<1>6. ASSUME NEW s \in Sessions, NEW w \in Workspaces, Bind(s, w)
      PROVE  StageKept'
  BY <1>6 DEF Bind, WriteOneBinding
<1>7. ASSUME NEW s \in Sessions, NEW w \in Workspaces, Allocate(s, w)
      PROVE  StageKept'
  BY <1>7, AllocateEffect
<1>8. ASSUME NEW s \in Sessions, NEW e \in Epics, AttachEpic(s, e)
      PROVE  StageKept'
  BY <1>8, AttachEffect
<1>9. ASSUME NEW s \in Sessions, NEW w \in Workspaces, NEW e \in Epics, AdoptV1(s, w, e)
      PROVE  StageKept'
  BY <1>9, AdoptEffect
<1>10. AddTree => StageKept'
  BY DEF AddTree
<1>11. LockTree => StageKept'
  BY DEF LockTree
<1>12. TreeFails => StageKept'
  BY DEF TreeFails
<1>13. Reconcile => StageKept'
  BY ReconcileEffect DEF Reconcile
<1>14. ReconcileFails => StageKept'
  BY DEF ReconcileFails
<1>15. WriteTransaction => StageKept'
  BY DEF WriteTransaction, Call
<1>16. WriteRecord => StageKept'
  BY DEF WriteRecord, Call
<1>17. WriteBinding => StageKept'
  BY DEF WriteBinding, Call
<1>18. Commit => StageKept'
  BY DEF Commit
<1>19. CommitFails => StageKept'
  BY DEF CommitFails, Call
<1>20. UndoRecord => StageKept'
  BY DEF UndoRecord
<1>21. UndoBinding => StageKept'
  BY DEF UndoBinding
<1>22. UndoTransaction => StageKept'
  BY DEF UndoTransaction
<1>23. UndoTransactionFails => StageKept'
  BY DEF UndoTransactionFails
<1>24. Crash => StageKept'
  BY DEF Crash
<1>25. ASSUME NEW e \in Epics, LegacyChange(e)
      PROVE  StageKept'
  BY <1>25 DEF LegacyChange
<1>26. UNCHANGED vars => StageKept'
  BY DEF vars
<1> QED
  BY <1>1, <1>2, <1>3, <1>4, <1>5, <1>6, <1>7, <1>8, <1>9, <1>10, <1>11,
     <1>12, <1>13, <1>14, <1>15, <1>16, <1>17, <1>18, <1>19, <1>20, <1>21,
     <1>22, <1>23, <1>24, <1>25, <1>26 DEF Next, Progress, Operation

\* A workspace identity that was never handed out, and a session that was never
\* bound, were told nobody.
LEMMA NothingTold ==
    ASSUME IInv
    PROVE  /\ \A w \in Workspaces \ used : \A c \in granted : c.binding.ws # w
           /\ \A s \in Sessions : bindings[s] = None => \A c \in granted : c.session # s
           /\ call # None /\ ~call.last => \A c \in granted : c.binding.ws # call.ws
<1>1. ASSUME NEW w \in Workspaces, w \notin used, NEW c \in granted
      PROVE  c.binding.ws # w
  BY <1>1 DEF IInv, DiskKept, RecordSafe, Backs
<1>2. ASSUME NEW s \in Sessions, bindings[s] = None, NEW c \in granted
      PROVE  c.session # s
  BY <1>2 DEF IInv, DiskKept, BindingSafe
<1>3. ASSUME call # None, ~call.last, NEW c \in granted
      PROVE  c.binding.ws # call.ws
  <2>1. call \in Call /\ call.before \in Transaction /\ None \notin Transaction
    BY <1>3, ContextAssumption DEF IInv, TypeOK, Call
  <2>2. call.before.ws = call.ws /\ call.before.record = Creating
        /\ RecordSafe(granted, trees, call.before.ws, call.before.record)
    BY <1>3, <2>1 DEF IInv, CallKept, BeforeSafe
  <2>3. Creating.lifecycle = "creating"
    BY DEF Creating
  <2> QED
    BY <2>2, <2>3 DEF RecordSafe, Backs
<1> QED
  BY <1>1, <1>2, <1>3

\* One write: the binding is new to its session.
LEMMA WrittenSafe ==
    ASSUME IInv, NEW s \in Sessions, NEW binding \in Binding, Written(s, binding)
    PROVE  DiskKept' /\ ToldOnce'
<1> DEFINE told == [session |-> s, binding |-> binding]
<1>1. /\ UNCHANGED <<records, trees, used>> /\ transaction' = None /\ undo' = None
      /\ told.session = s /\ told.binding = binding
      /\ binding.ws \in Workspaces /\ binding.gen \in Nat /\ binding.wsGen \in Nat
      /\ \A t \in Sessions : bindings'[t] = IF t = s THEN binding ELSE bindings[t]
  BY DEF Written, IInv, TypeOK, StageKept, End, Binding
<1>2. \A c \in granted : c \in Context /\ c.binding.gen \in Nat
  BY DEF IInv, TypeOK, Context, Binding
<1>3. \/ granted' = granted
      \/ granted' = granted \cup {told} /\ TopologyOK(binding.ws) /\ Matches(binding)
  BY DEF Written
<1> HIDE DEF told
<1>4. \A c \in granted : c.session = s => c.binding.gen < binding.gen
  <2> SUFFICES ASSUME NEW c \in granted, c.session = s PROVE c.binding.gen < binding.gen
    OBVIOUS
  <2>1. bindings[s] \in Binding /\ bindings[s] # None /\ bindings[s].gen \in Nat
        /\ bindings[s].gen >= c.binding.gen
    BY DEF IInv, DiskKept, BindingSafe, TypeOK, Binding
  <2> QED
    BY <1>2, <2>1 DEF Written
<1>5. ASSUME NEW w \in Workspaces, NEW c \in granted', c.binding.ws = w
      PROVE  Backs(trees, c, records[w])
  <2>1. CASE c \in granted
    BY <1>5, <2>1 DEF IInv, DiskKept, RecordSafe
  <2>2. CASE c = told /\ TopologyOK(binding.ws) /\ Matches(binding)
    <3>1. records[w] # None /\ records[w].lifecycle # "creating"
          /\ records[w].epic = binding.epic /\ binding.wsGen = records[w].gen
          /\ (records[w].legacy \/ trees[w] = "locked")
      BY <1>1, <1>5, <2>2 DEF TopologyOK, Matches
    <3> QED
      BY <1>1, <2>2, <3>1, <1>5 DEF Backs
  <2> QED
    BY <1>3, <2>1, <2>2
<1>6. ASSUME NEW t \in Sessions PROVE BindingSafe(granted', t, bindings'[t])
  <2>1. CASE t # s
    BY <1>1, <1>3, <2>1 DEF IInv, DiskKept, BindingSafe
  <2>2. CASE t = s
    BY <1>1, <1>2, <1>3, <1>4, <2>2, RegistryRulesAssumption DEF BindingSafe
  <2> QED
    BY <2>1, <2>2
<1>7. DiskKept'
  <2>1. \A w \in Workspaces : RecordSafe(granted', trees, w, records[w])
    BY <1>5 DEF RecordSafe
  <2> QED
    BY <1>1, <1>6, <2>1 DEF IInv, DiskKept, BeforeSafe
<1>8. ToldOnce'
  BY <1>1, <1>2, <1>3, <1>4 DEF IInv, ToldOnce
<1> QED
  BY <1>7, <1>8

\* What allocation, attachment and adoption are about to publish is safe.
LEMMA AllocateSafe ==
    ASSUME IInv, NEW s \in Sessions, NEW w \in Workspaces, Allocate(s, w)
    PROVE  CallKept'
<1>1. CASE call' = None
  BY <1>1 DEF CallKept
<1>2. CASE call' # None
  <2>1. /\ Creating \in Record /\ w \notin used /\ used' = used \cup {w}
        /\ UNCHANGED <<trees, granted>> /\ stage' = "tree"
        /\ call' \in Call /\ call'.session = s /\ call'.ws = w /\ ~call'.last
        /\ call'.record = [Creating EXCEPT !.lifecycle = "active", !.gen = 2]
        /\ call'.record.epic = None /\ call'.binding = NewBinding(w, call'.record)
        /\ call'.before.ws = w /\ call'.before.session = s
        /\ call'.before.record = Creating
        /\ call'.before.binding = None /\ bindings[s] = None
    BY <1>2, AllocateEffect DEF IInv
  <2>2. \A c \in granted : c.binding.ws # w /\ c.session # s
    BY <2>1, NothingTold
  <2>3. Creating.epic = None
    BY DEF Creating
  <2>4. call'.record.lifecycle = "active"
    BY <2>1 DEF Record
  <2>5. BeforeSafe(granted', trees', used', call'.before)
    BY <2>1, <2>2, <2>3 DEF BeforeSafe, RecordSafe, BindingSafe
  <2>6. PICK record \in Record : record = call'.record
    BY <2>1 DEF Call
  <2>7. call'.binding.ws = w /\ call'.binding.epic = call'.record.epic
        /\ call'.binding.wsGen = call'.record.gen /\ call'.binding.bound
    <3>1. call'.binding = NewBinding(w, record)
      BY <2>1, <2>6
    <3> QED
      BY <2>6, <3>1, NewBindingTyped
  <2>8. RecordSafe(granted', trees', w, call'.record)
        /\ BindingSafe(granted', s, call'.binding)
    BY <2>1, <2>2 DEF RecordSafe, BindingSafe
  <2> QED
    BY <2>1, <2>4, <2>5, <2>7, <2>8 DEF CallKept, Publishing, Undoing
<1> QED
  BY <1>1, <1>2

\* The transaction of an adoption is one the invariant admits.
LEMMA AdoptSafe ==
    ASSUME IInv, NEW s \in Sessions, NEW w \in Workspaces, NEW e \in Epics,
           AdoptV1(s, w, e)
    PROVE  CallKept'
<1>1. /\ stage' = "transaction" /\ UNCHANGED <<records, trees, granted>>
      /\ bindings[s] = None /\ w \notin used /\ used' = used \cup {w}
      /\ EpicFree(e, {})
      /\ call' \in Call /\ call'.session = s /\ call'.last /\ call'.ws = w
      /\ call'.record.lifecycle \in {"active", "cleanup_ready"}
      /\ call'.record.epic = e /\ call'.record.legacy
      /\ call'.binding = NewBinding(w, call'.record)
      /\ call'.before.ws = w /\ call'.before.session = s
      /\ call'.before.record = None /\ call'.before.binding = None
  BY AdoptEffect DEF IInv, store
<1>2. \A c \in granted : c.binding.ws # w /\ c.session # s
  BY <1>1, NothingTold
<1>3. BeforeSafe(granted', trees', used', call'.before)
  BY <1>1, <1>2 DEF BeforeSafe, RecordSafe, BindingSafe
<1>4. call'.record \in Record
  BY <1>1 DEF Call
<1>5. call'.binding.ws = w /\ call'.binding.epic = call'.record.epic
      /\ call'.binding.wsGen = call'.record.gen /\ call'.binding.bound
  BY <1>1, <1>4, NewBindingTyped
<1>6. RecordSafe(granted', trees', w, call'.record)
      /\ BindingSafe(granted', s, call'.binding)
  BY <1>1, <1>2 DEF RecordSafe, BindingSafe
<1>7. EpicFree(e, {w})'
  BY <1>1 DEF EpicFree
<1> QED
  BY <1>1, <1>3, <1>5, <1>6, <1>7 DEF CallKept

\* The transaction of an attachment is one the invariant admits.
LEMMA AttachSafe ==
    ASSUME IInv, NEW s \in Sessions, NEW e \in Epics, AttachEpic(s, e)
    PROVE  CallKept' /\ DiskKept' /\ ToldOnce'
<1>1. /\ stage' = "transaction"
      /\ UNCHANGED <<records, bindings, transaction, trees, used, undo, granted>>
      /\ call' \in Call /\ call'.session = s /\ call'.last
      /\ call'.ws = bindings[s].ws /\ records[call'.ws] # None
      /\ records[call'.ws].lifecycle \in {"active", "cleanup_ready"}
      /\ records[call'.ws].epic = None /\ TopologyOK(call'.ws)
      /\ call'.record.epic = e /\ call'.record.gen = records[call'.ws].gen + 1
      /\ call'.record.lifecycle = records[call'.ws].lifecycle
      /\ call'.record.legacy = records[call'.ws].legacy
      /\ EpicFree(e, {call'.ws}) /\ IsBound(s)
      /\ call'.binding = UpdateBinding(bindings[s], call'.ws, call'.record)
      /\ call'.before.ws = call'.ws /\ call'.before.session = s
      /\ call'.before.record = records[call'.ws]
      /\ call'.before.binding = bindings[s]
  BY AttachEffect DEF IInv, store
<1>2. PICK w \in Workspaces : w = call'.ws
  BY <1>1 DEF Call
<1>3. PICK old \in Record : old = records[w] /\ old # None /\ old.gen \in Nat
  BY <1>1, <1>2 DEF IInv, TypeOK, Record
<1>4. PICK b \in Binding : b = bindings[s] /\ b.gen \in Nat
  BY <1>1 DEF IInv, TypeOK, IsBound, Binding
<1>5. RecordSafe(granted, trees, w, old) /\ BindingSafe(granted, s, b) /\ w \in used
  BY <1>3, <1>4 DEF IInv, DiskKept
<1>6. PICK new \in Record : new = call'.record
  BY <1>1 DEF Call
<1>7. call'.binding.ws = w /\ call'.binding.epic = new.epic
      /\ call'.binding.wsGen = new.gen /\ call'.binding.bound
      /\ call'.binding.gen = b.gen + 1
  BY <1>1, <1>2, <1>4, <1>6, UpdateBindingTyped
<1>8. BeforeSafe(granted', trees', used', call'.before)
  BY <1>1, <1>2, <1>3, <1>4, <1>5 DEF BeforeSafe
<1>9. \A c \in granted : c.binding.gen \in Nat /\ c.binding.wsGen \in Nat
  BY DEF IInv, TypeOK, Context, Binding
<1>10. RecordSafe(granted', trees', w, new)
  <2>1. new.lifecycle = old.lifecycle /\ new.legacy = old.legacy
        /\ new.gen = old.gen + 1 /\ old.epic = None /\ new # None
    BY <1>1, <1>2, <1>3, <1>6, ContextAssumption
  <2> QED
    BY <1>1, <1>3, <1>5, <1>9, <2>1 DEF RecordSafe, Backs
<1>11. BindingSafe(granted', s, call'.binding)
  <2>1. call'.binding \in Binding /\ None \notin Binding
    BY <1>1, RegistryRulesAssumption DEF Call
  <2> QED
    BY <1>1, <1>4, <1>5, <1>7, <1>9, <2>1 DEF BindingSafe
<1>12. new.legacy \/ trees'[w] = "locked"
  BY <1>1, <1>2, <1>6 DEF TopologyOK
<1>13. EpicFree(e, {w})'
  BY <1>1, <1>2 DEF EpicFree
<1>14. CallKept'
  BY <1>1, <1>2, <1>6, <1>7, <1>8, <1>10, <1>11, <1>12, <1>13 DEF CallKept
<1>15. DiskKept' /\ ToldOnce'
  BY <1>1 DEF IInv, DiskKept, ToldOnce
<1> QED
  BY <1>14, <1>15

\* What the session is told when the transition is complete is on disk.
LEMMA CommitSafe ==
    ASSUME IInv, Commit
    PROVE  DiskKept' /\ ToldOnce'
<1>1. /\ stage = "commit" /\ transaction' = None /\ undo' = None
      /\ UNCHANGED <<records, bindings, trees, used>>
      /\ granted' = granted \cup {[session |-> call.session, binding |-> call.binding]}
  BY DEF Commit, Grant, End
<1>2. call # None /\ call \in Call /\ records[call.ws] = call.record
      /\ bindings[call.session] = call.binding /\ stage \in Publishing
  BY <1>1 DEF IInv, StageKept, Publishing, TypeOK
<1>3. PICK s \in Sessions, w \in Workspaces, b \in Binding, r \in Record :
          s = call.session /\ w = call.ws /\ b = call.binding /\ r = call.record
  BY <1>2 DEF Call
<1>4. PICK told \in Context : told = [session |-> s, binding |-> b]
  BY DEF Context
<1>5. told.session = s /\ told.binding = b /\ granted' = granted \cup {told}
  BY <1>1, <1>3, <1>4
<1>6. /\ r.lifecycle # "creating" /\ (r.legacy \/ trees[w] = "locked")
      /\ b.ws = w /\ b.epic = r.epic /\ b.wsGen = r.gen
      /\ BindingSafe(granted, s, b)
  BY <1>2, <1>3 DEF IInv, CallKept
<1>7. r # None /\ b # None /\ r.gen \in Nat /\ b.gen \in Nat
  BY ContextAssumption, RegistryRulesAssumption DEF Record, Binding
<1>8. Backs(trees, told, r)
  BY <1>5, <1>6, <1>7 DEF Backs
<1>9. \A x \in Workspaces : RecordSafe(granted', trees, x, records[x])
  BY <1>2, <1>3, <1>5, <1>6, <1>8 DEF IInv, DiskKept, RecordSafe
<1>10. \A t \in Sessions : BindingSafe(granted', t, bindings[t])
  BY <1>2, <1>3, <1>5, <1>7 DEF IInv, DiskKept, BindingSafe
<1>11. DiskKept'
  BY <1>1, <1>9, <1>10 DEF IInv, DiskKept, BeforeSafe
<1>12. ToldOnce'
  <2> SUFFICES ASSUME NEW c \in granted', NEW d \in granted',
                      c.session = d.session, c.binding.gen = d.binding.gen
               PROVE  c = d
    BY DEF ToldOnce
  <2>1. c \in Context /\ d \in Context
    BY <1>5 DEF IInv, TypeOK
  <2>2. c = told /\ d \in granted => d.binding = b
    BY <1>5, <1>6 DEF BindingSafe
  <2>3. d = told /\ c \in granted => c.binding = b
    BY <1>5, <1>6 DEF BindingSafe
  <2>4. c.binding = d.binding => c = d
    BY <2>1 DEF Context
  <2> QED
    BY <1>5, <2>2, <2>3, <2>4 DEF IInv, ToldOnce
<1> QED
  BY <1>11, <1>12

\* A call goes on with what it planned, when at most its own record and its own
\* worktree change: a worktree that nobody was told of, or that becomes locked.
LEMMA CallGoesOn ==
    ASSUME IInv, call # None, call' \in {call, [call EXCEPT !.last = TRUE]},
           UNCHANGED <<granted, used>>,
           \A w \in Workspaces \ {call.ws} :
               records'[w] = records[w] /\ trees'[w] = trees[w],
           \/ trees'[call.ws] = trees[call.ws] \/ trees'[call.ws] = "locked"
           \/ ~call.last,
           stage' \in Publishing \cup Undoing =>
               call.record.legacy \/ trees'[call.ws] = "locked"
    PROVE  CallKept'
<1>1. call \in Call /\ CallKept
  BY DEF IInv, TypeOK
<1>2. /\ call'.ws = call.ws /\ call'.session = call.session
      /\ call'.record = call.record /\ call'.binding = call.binding
      /\ call'.before = call.before /\ (call'.last = call.last \/ call'.last)
  BY <1>1 DEF Call
<1>3. ASSUME NEW x, NEW record, RecordSafe(granted, trees, x, record)
      PROVE  RecordSafe(granted, trees', x, record)
  <2> SUFFICES ASSUME NEW c \in granted, c.binding.ws = x
               PROVE  Backs(trees', c, record)
    BY DEF RecordSafe
  <2>1. c.binding.ws \in Workspaces
    BY DEF IInv, TypeOK, Context, Binding
  <2>2. Backs(trees, c, record)
    BY <1>3 DEF RecordSafe
  <2>3. c.binding.ws = call.ws => call.last
    BY NothingTold
  <2> QED
    BY <2>1, <2>2, <2>3 DEF Backs
<1>4. BeforeSafe(granted, trees', used, call.before)
      /\ RecordSafe(granted, trees', call.ws, call.record)
  BY <1>1, <1>3 DEF CallKept, BeforeSafe
<1>5. call.record.epic # None =>
          \A w \in Workspaces \ {call.ws} :
              records'[w] # None => records'[w].epic # call.record.epic
  BY <1>1 DEF CallKept, EpicFree
<1>6. call'.record.epic # None =>
          \A w \in Workspaces \ {call'.ws} :
              records'[w] # None => records'[w].epic # call'.record.epic
  BY <1>2, <1>5
<1>7. ~call'.last => call.before.record = Creating
  BY <1>1, <1>2 DEF CallKept
<1> QED
  BY <1>1, <1>2, <1>4, <1>6, <1>7 DEF CallKept, EpicFree

\* Every action keeps what the running call is about to publish safe.
LEMMA CallKeptStep == IInv /\ [Next]_vars => CallKept'
<1> SUFFICES ASSUME IInv, [Next]_vars PROVE CallKept'
  OBVIOUS
<1> USE DEF End, AfterFailure, RollBack, store, memory
<1>a. TypeOK /\ StageKept /\ CallKept
  BY DEF IInv
<1>b. call # None =>
          /\ call.ws \in Workspaces /\ call.before.ws = call.ws
          /\ stage \in Publishing \cup Undoing =>
                 call.record.legacy \/ trees[call.ws] = "locked"
  BY <1>a, ContextAssumption DEF TypeOK, Call, CallKept
<1>c. /\ stage \in {"tree", "lock", "reconcile"} => call # None /\ ~call.last
      /\ stage \in Allocating \cup Publishing => call # None
      /\ call # None /\ stage \in Undoing => undo = call.before
      /\ undo # None => undo.ws \in Workspaces
      /\ stage \in {"idle", "ready"} => call = None
  BY <1>a DEF StageKept, Allocating, Publishing, Undoing, TypeOK, Transaction
<1>d. call' = None => CallKept'
  BY DEF CallKept
<1>e. ASSUME call # None, call' = call,
             UNCHANGED <<records, trees, granted, used>>,
             stage' \in Publishing \cup Undoing => stage \in Publishing \cup Undoing
      PROVE  CallKept'
  BY <1>a, <1>e DEF CallKept, EpicFree
<1>1. Begin => CallKept'
  BY <1>c, <1>d DEF Begin
<1>2. Reject => CallKept'
  BY <1>d DEF Reject
<1>3. ASSUME NEW s \in Sessions, Resolve(s)
      PROVE  CallKept'
  BY <1>3, <1>d DEF Resolve
<1>4. ASSUME NEW s \in Sessions, BindAgain(s)
      PROVE  CallKept'
  BY <1>4, <1>d DEF BindAgain
<1>5. ASSUME NEW s \in Sessions, Release(s)
      PROVE  CallKept'
  BY <1>a, <1>5, <1>d, ReleaseEffect DEF Written
<1>6. ASSUME NEW s \in Sessions, NEW w \in Workspaces, Bind(s, w)
      PROVE  CallKept'
  BY <1>a, <1>6, <1>d, BindEffect DEF Written
<1>7. ASSUME NEW s \in Sessions, NEW w \in Workspaces, Allocate(s, w)
      PROVE  CallKept'
  BY <1>7, AllocateSafe
<1>8. ASSUME NEW s \in Sessions, NEW e \in Epics, AttachEpic(s, e)
      PROVE  CallKept'
  BY <1>8, AttachSafe
<1>9. ASSUME NEW s \in Sessions, NEW w \in Workspaces, NEW e \in Epics, AdoptV1(s, w, e)
      PROVE  CallKept'
  BY <1>9, AdoptSafe
<1>10. AddTree => CallKept'
  <2> SUFFICES ASSUME AddTree PROVE CallKept'
    OBVIOUS
  <2>1. stage' \notin Publishing \cup Undoing /\ call # None /\ ~call.last
    BY <1>c DEF AddTree, Publishing, Undoing
  <2>2. \A w \in Workspaces \ {call.ws} : trees'[w] = trees[w]
    BY <1>a DEF AddTree, TypeOK
  <2> QED
    BY <2>1, <2>2, CallGoesOn DEF AddTree
<1>11. LockTree => CallKept'
  <2> SUFFICES ASSUME LockTree PROVE CallKept'
    OBVIOUS
  <2>1. call # None /\ ~call.last
    BY <1>c DEF LockTree
  <2>2. \A w \in Workspaces : trees'[w] = IF w = call.ws THEN "locked" ELSE trees[w]
    BY <1>a DEF LockTree, TypeOK
  <2> QED
    BY <1>b, <2>1, <2>2, CallGoesOn DEF LockTree
<1>12. TreeFails => CallKept'
  <2> SUFFICES ASSUME TreeFails, call' # None PROVE CallKept'
    BY <1>d
  <2>1. stage' \notin Publishing \cup Undoing /\ call # None /\ ~call.last /\ call' = call
    BY <1>c DEF TreeFails, Publishing, Undoing
  <2>2. \A w \in Workspaces \ {call.ws} : trees'[w] = trees[w]
    BY <1>a DEF TreeFails, TypeOK
  <2> QED
    BY <2>1, <2>2, CallGoesOn DEF TreeFails
<1>13. Reconcile => CallKept'
  <2> SUFFICES ASSUME Reconcile PROVE CallKept'
    OBVIOUS
  <2>1. call # None /\ ~call.last
    BY <1>c DEF Reconcile
  <2>2. \A w \in Workspaces : trees'[w] = IF w = call.ws THEN "locked" ELSE trees[w]
    BY <1>a DEF Reconcile, TypeOK
  <2> QED
    BY <1>b, <2>1, <2>2, CallGoesOn DEF Reconcile
<1>14. ReconcileFails => CallKept'
  BY <1>d DEF ReconcileFails
<1>15. WriteTransaction => CallKept'
  BY <1>c, <1>d, <1>e DEF WriteTransaction, Publishing, Undoing, Allocating
<1>16. WriteRecord => CallKept'
  <2> SUFFICES ASSUME WriteRecord PROVE CallKept'
    OBVIOUS
  <2>1. call # None /\ stage \in Publishing /\ call' = call
    BY <1>c DEF WriteRecord, Publishing
  <2>2. \A w \in Workspaces \ {call.ws} : records'[w] = records[w]
    BY <1>a DEF WriteRecord, TypeOK
  <2> QED
    BY <1>b, <2>1, <2>2, CallGoesOn DEF WriteRecord
<1>17. WriteBinding => CallKept'
  BY <1>c, <1>e DEF WriteBinding, Publishing
<1>18. Commit => CallKept'
  BY <1>d DEF Commit
<1>19. CommitFails => CallKept'
  BY <1>c, <1>e DEF CommitFails, Publishing
<1>20. UndoRecord => CallKept'
  <2> SUFFICES ASSUME UndoRecord, call' # None PROVE CallKept'
    BY <1>d
  <2>1. call # None /\ stage \in Undoing /\ call' = call
    BY <1>c DEF UndoRecord, Undoing
  <2>2. \A w \in Workspaces \ {call.ws} : records'[w] = records[w]
    BY <1>a, <1>b, <1>c, <2>1 DEF UndoRecord, TypeOK
  <2> QED
    BY <1>b, <2>1, <2>2, CallGoesOn DEF UndoRecord
<1>21. UndoBinding => CallKept'
  BY <1>c, <1>d, <1>e DEF UndoBinding, Undoing
<1>22. UndoTransaction => CallKept'
  BY <1>c, <1>d, <1>e DEF UndoTransaction, Undoing
<1>23. UndoTransactionFails => CallKept'
  BY <1>c, <1>d, <1>e DEF UndoTransactionFails, Undoing
<1>24. Crash => CallKept'
  BY <1>d DEF Crash
<1>25. ASSUME NEW e \in Epics, LegacyChange(e)
      PROVE  CallKept'
  BY <1>25, <1>d, <1>e DEF LegacyChange
<1>26. UNCHANGED vars => CallKept'
  BY <1>d, <1>e DEF vars
<1> QED
  BY <1>1, <1>2, <1>3, <1>4, <1>5, <1>6, <1>7, <1>8, <1>9, <1>10, <1>11,
     <1>12, <1>13, <1>14, <1>15, <1>16, <1>17, <1>18, <1>19, <1>20, <1>21,
     <1>22, <1>23, <1>24, <1>25, <1>26 DEF Next, Progress, Operation

\* What is on disk is safe as long as it is not written, and what is kept for
\* roll-back is safe.
LEMMA UntouchedSafe ==
    ASSUME DiskKept, UNCHANGED <<records, bindings, trees, used, granted>>,
           BeforeSafe(granted, trees, used, transaction'),
           BeforeSafe(granted, trees, used, undo')
    PROVE  DiskKept'
BY DEF DiskKept

\* A worktree changes that nobody was told of, or it becomes what was told.
LEMMA TreeSafe ==
    ASSUME IInv, UNCHANGED <<records, bindings, transaction, used, granted>>,
           NEW w \in Workspaces, NEW tree, trees' = [trees EXCEPT ![w] = tree],
           tree = "locked" \/ \A c \in granted : c.binding.ws # w,
           undo' \in {undo, None}
    PROVE  DiskKept'
<1>1. \A x \in Workspaces \ {w} : trees'[x] = trees[x]
  BY DEF IInv, TypeOK
<1>2. trees'[w] = tree
  BY DEF IInv, TypeOK
<1>3. \A x, record : RecordSafe(granted, trees, x, record) =>
                         RecordSafe(granted, trees', x, record)
  <2> SUFFICES ASSUME NEW x, NEW record, RecordSafe(granted, trees, x, record),
                      NEW c \in granted, c.binding.ws = x
               PROVE  Backs(trees', c, record)
    BY DEF RecordSafe
  <2>1. c.binding.ws \in Workspaces
    BY DEF IInv, TypeOK, Context, Binding
  <2>2. Backs(trees, c, record)
    BY DEF RecordSafe
  <2> QED
    BY <1>1, <1>2, <2>1, <2>2 DEF Backs
<1>4. BeforeSafe(granted, trees', used, transaction)
      /\ BeforeSafe(granted, trees', used, undo')
  BY <1>3 DEF IInv, DiskKept, BeforeSafe
<1> QED
  BY <1>3, <1>4 DEF IInv, DiskKept

\* A record is written that is safe and alone with its Epic.
LEMMA RecordWriteSafe ==
    ASSUME IInv, UNCHANGED <<bindings, transaction, trees, used, granted>>,
           NEW w \in Workspaces, NEW record, records' = [records EXCEPT ![w] = record],
           RecordSafe(granted, trees, w, record), w \in used,
           record # None /\ record.epic # None => EpicFree(record.epic, {w}),
           BeforeSafe(granted, trees, used, undo')
    PROVE  DiskKept'
<1>1. \A x \in Workspaces : records'[x] = IF x = w THEN record ELSE records[x]
  BY DEF IInv, TypeOK
<1>2. ASSUME NEW x \in Workspaces, NEW y \in Workspaces,
             records'[x] # None, records'[y] # None,
             records'[x].epic = records'[y].epic, records'[x].epic # None
      PROVE  x = y
  BY <1>1, <1>2 DEF IInv, DiskKept, EpicFree
<1>3. \A x \in Workspaces : RecordSafe(granted, trees, x, records'[x])
  BY <1>1 DEF IInv, DiskKept
<1> QED
  BY <1>1, <1>2, <1>3 DEF IInv, DiskKept

\* A binding is written that is safe.
LEMMA BindingWriteSafe ==
    ASSUME IInv, UNCHANGED <<records, transaction, trees, used, granted>>,
           NEW s \in Sessions, NEW binding, bindings' = [bindings EXCEPT ![s] = binding],
           BindingSafe(granted, s, binding),
           BeforeSafe(granted, trees, used, undo')
    PROVE  DiskKept'
<1>1. \A t \in Sessions : bindings'[t] = IF t = s THEN binding ELSE bindings[t]
  BY DEF IInv, TypeOK
<1>2. \A t \in Sessions : BindingSafe(granted, t, bindings'[t])
  BY <1>1 DEF IInv, DiskKept
<1> QED
  BY <1>2 DEF IInv, DiskKept

\* Every action keeps what is on disk safe.
LEMMA DiskKeptStep == IInv /\ [Next]_vars => DiskKept'
<1> SUFFICES ASSUME IInv, [Next]_vars PROVE DiskKept'
  OBVIOUS
<1> USE DEF End, AfterFailure, RollBack, store, memory
<1>a. TypeOK /\ StageKept /\ CallKept /\ DiskKept
  BY DEF IInv
<1>b. /\ BeforeSafe(granted, trees, used, transaction)
      /\ BeforeSafe(granted, trees, used, undo)
      /\ BeforeSafe(granted, trees, used, None)
      /\ call # None => BeforeSafe(granted, trees, used, call.before)
  BY <1>a DEF CallKept, DiskKept, BeforeSafe
<1>c. call # None =>
          /\ call.ws \in Workspaces /\ call.session \in Sessions
          /\ call.before # None
          /\ call.before.ws = call.ws /\ call.before.session = call.session
  BY <1>a, ContextAssumption DEF TypeOK, Call, CallKept
<1>d. undo # None => undo.ws \in Workspaces /\ undo.session \in Sessions
  BY <1>a DEF TypeOK, Transaction
<1>e. /\ stage \in {"tree", "lock", "reconcile", "transaction", "record", "binding",
                     "commit"} => call # None
      /\ stage \in {"tree", "lock", "reconcile"} => ~call.last
      /\ stage \in {"undoRecord", "undoBinding", "undoTransaction"} => undo # None
  BY <1>a DEF StageKept, Allocating, Publishing, Undoing
<1>f. \A w \in Workspaces : call # None /\ ~call.last /\ w = call.ws =>
          \A c \in granted : c.binding.ws # w
  BY NothingTold
<1>1. Begin => DiskKept'
  BY <1>a, <1>b, UntouchedSafe DEF Begin
<1>2. Reject => DiskKept'
  BY <1>a, <1>b, UntouchedSafe DEF Reject
<1>3. ASSUME NEW s \in Sessions, Resolve(s)
      PROVE  DiskKept'
  BY <1>3, ContextAssumption
     DEF Resolve, TopologyOK, Matches, IsBound, Grant, IInv, TypeOK, StageKept, DiskKept,
         BeforeSafe, RecordSafe, BindingSafe, Backs, Record, Binding, Context
<1>4. ASSUME NEW s \in Sessions, BindAgain(s)
      PROVE  DiskKept'
  BY <1>4, ContextAssumption
     DEF BindAgain, TopologyOK, Matches, IsBound, Grant, IInv, TypeOK, StageKept, DiskKept,
         BeforeSafe, RecordSafe, BindingSafe, Backs, Record, Binding, Context
<1>5. ASSUME NEW s \in Sessions, Release(s)
      PROVE  DiskKept'
  BY <1>a, <1>5, ReleaseEffect, WrittenSafe
<1>6. ASSUME NEW s \in Sessions, NEW w \in Workspaces, Bind(s, w)
      PROVE  DiskKept'
  BY <1>a, <1>6, BindEffect, WrittenSafe
<1>7. ASSUME NEW s \in Sessions, NEW w \in Workspaces, Allocate(s, w)
      PROVE  DiskKept'
  BY <1>7, AllocateEffect, ContextAssumption
     DEF Creating, IInv, TypeOK, StageKept, DiskKept, BeforeSafe, RecordSafe, BindingSafe,
         Backs, Record
<1>8. ASSUME NEW s \in Sessions, NEW e \in Epics, AttachEpic(s, e)
      PROVE  DiskKept'
  BY <1>8, AttachSafe
<1>9. ASSUME NEW s \in Sessions, NEW w \in Workspaces, NEW e \in Epics, AdoptV1(s, w, e)
      PROVE  DiskKept'
  BY <1>9, AdoptEffect
     DEF IInv, DiskKept, BeforeSafe, RecordSafe, BindingSafe, Backs
<1>10. AddTree => DiskKept'
  BY <1>c, <1>e, <1>f, TreeSafe DEF AddTree
<1>11. LockTree => DiskKept'
  BY <1>c, <1>e, TreeSafe DEF LockTree
<1>12. TreeFails => DiskKept'
  <2> SUFFICES ASSUME TreeFails PROVE DiskKept'
    OBVIOUS
  <2>1. CASE UNCHANGED trees
    BY <1>a, <1>b, <2>1, UntouchedSafe DEF TreeFails
  <2>2. PICK tree : \/ UNCHANGED trees
                    \/ trees' = [trees EXCEPT ![call.ws] = tree]
    BY DEF TreeFails
  <2>3. stage \in {"tree", "lock"} /\ undo' \in {undo, None}
        /\ UNCHANGED <<records, bindings, transaction, used, granted>>
    BY DEF TreeFails
  <2> QED
    BY <1>c, <1>e, <1>f, <2>1, <2>2, <2>3, TreeSafe
<1>13. Reconcile => DiskKept'
  BY <1>c, <1>e, TreeSafe DEF Reconcile
<1>14. ReconcileFails => DiskKept'
  <2> SUFFICES ASSUME ReconcileFails PROVE DiskKept'
    OBVIOUS
  <2>1. CASE UNCHANGED trees
    BY <1>a, <1>b, <2>1, UntouchedSafe DEF ReconcileFails
  <2>2. CASE trees' = [trees EXCEPT ![call.ws] = "locked"]
    BY <1>c, <1>e, <2>2, TreeSafe DEF ReconcileFails
  <2> QED
    BY <2>1, <2>2 DEF ReconcileFails
<1>15. WriteTransaction => DiskKept'
  BY <1>a, <1>b, <1>e, UntouchedSafe DEF WriteTransaction
<1>16. WriteRecord => DiskKept'
  <2> SUFFICES ASSUME WriteRecord PROVE DiskKept'
    OBVIOUS
  <2>1. BeforeSafe(granted, trees, used, undo')
        /\ UNCHANGED <<bindings, transaction, trees, used, granted>> /\ call # None
    BY <1>b, <1>e DEF WriteRecord
  <2>2. CASE UNCHANGED records
    BY <1>a, <1>b, <2>1, <2>2, UntouchedSafe
  <2>3. CASE records' = [records EXCEPT ![call.ws] = call.record]
    <3>1. /\ RecordSafe(granted, trees, call.ws, call.record)
          /\ call.record.epic # None => EpicFree(call.record.epic, {call.ws})
          /\ call.ws \in used
      BY <1>a, <1>b, <1>c, <2>1 DEF CallKept, BeforeSafe
    <3> QED
      BY <1>c, <2>1, <2>3, <3>1, RecordWriteSafe
  <2> QED
    BY <2>2, <2>3 DEF WriteRecord
<1>17. WriteBinding => DiskKept'
  <2> SUFFICES ASSUME WriteBinding PROVE DiskKept'
    OBVIOUS
  <2>1. BeforeSafe(granted, trees, used, undo')
        /\ UNCHANGED <<records, transaction, trees, used, granted>> /\ call # None
    BY <1>b, <1>e DEF WriteBinding
  <2>2. CASE UNCHANGED bindings
    BY <1>a, <1>b, <2>1, <2>2, UntouchedSafe
  <2>3. CASE bindings' = [bindings EXCEPT ![call.session] = call.binding]
    BY <1>a, <1>c, <2>1, <2>3, BindingWriteSafe DEF CallKept
  <2> QED
    BY <2>2, <2>3 DEF WriteBinding
<1>18. Commit => DiskKept'
  BY CommitSafe
<1>19. CommitFails => DiskKept'
  BY <1>a, <1>b, <1>e, UntouchedSafe DEF CommitFails
<1>20. UndoRecord => DiskKept'
  <2> SUFFICES ASSUME UndoRecord PROVE DiskKept'
    OBVIOUS
  <2>1. BeforeSafe(granted, trees, used, undo')
        /\ UNCHANGED <<bindings, transaction, trees, used, granted>> /\ undo # None
    BY <1>b, <1>e DEF UndoRecord
  <2>2. CASE UNCHANGED records
    BY <1>a, <1>b, <2>1, <2>2, UntouchedSafe
  <2>3. CASE records' = [records EXCEPT ![undo.ws] = undo.record]
    <3>1. /\ RecordSafe(granted, trees, undo.ws, undo.record) /\ undo.ws \in used
          /\ undo.record # None => undo.record.epic = None
      BY <1>b, <2>1 DEF BeforeSafe
    <3> QED
      BY <1>d, <2>1, <2>3, <3>1, RecordWriteSafe
  <2> QED
    BY <2>2, <2>3 DEF UndoRecord
<1>21. UndoBinding => DiskKept'
  <2> SUFFICES ASSUME UndoBinding PROVE DiskKept'
    OBVIOUS
  <2>1. BeforeSafe(granted, trees, used, undo')
        /\ UNCHANGED <<records, transaction, trees, used, granted>> /\ undo # None
    BY <1>b, <1>e DEF UndoBinding
  <2>2. CASE UNCHANGED bindings
    BY <1>a, <1>b, <2>1, <2>2, UntouchedSafe
  <2>3. CASE bindings' = [bindings EXCEPT ![undo.session] = undo.binding]
    <3>1. BindingSafe(granted, undo.session, undo.binding)
      BY <1>b, <2>1 DEF BeforeSafe
    <3> QED
      BY <1>d, <2>1, <2>3, <3>1, BindingWriteSafe
  <2> QED
    BY <2>2, <2>3 DEF UndoBinding
<1>22. UndoTransaction => DiskKept'
  BY <1>a, <1>b, UntouchedSafe DEF UndoTransaction
<1>23. UndoTransactionFails => DiskKept'
  BY <1>a, <1>b, UntouchedSafe DEF UndoTransactionFails
<1>24. Crash => DiskKept'
  BY <1>a, <1>b, UntouchedSafe DEF Crash
<1>25. ASSUME NEW e \in Epics, LegacyChange(e)
      PROVE  DiskKept'
  BY <1>a, <1>b, <1>25, UntouchedSafe DEF LegacyChange
<1>26. UNCHANGED vars => DiskKept'
  BY <1>a, <1>b, UntouchedSafe DEF vars
<1> QED
  BY <1>1, <1>2, <1>3, <1>4, <1>5, <1>6, <1>7, <1>8, <1>9, <1>10, <1>11,
     <1>12, <1>13, <1>14, <1>15, <1>16, <1>17, <1>18, <1>19, <1>20, <1>21,
     <1>22, <1>23, <1>24, <1>25, <1>26 DEF Next, Progress, Operation

\* No action tells a session a second thing under one generation.
LEMMA ToldOnceStep == IInv /\ [Next]_vars => ToldOnce'
<1> SUFFICES ASSUME IInv, [Next]_vars PROVE ToldOnce'
  OBVIOUS
<1> USE ContextAssumption DEF TypeOK, StageKept, End, Grant, Fault, AfterFailure, RollBack,
       store, memory, Stages, Allocating, Publishing, Undoing, Call, Transaction,
       IInv, CallKept, DiskKept, ToldOnce, BindingSafe, Binding, Context
<1>1. Begin => ToldOnce'
  BY DEF Begin
<1>2. Reject => ToldOnce'
  BY DEF Reject
<1>3. ASSUME NEW s \in Sessions, Resolve(s)
      PROVE  ToldOnce'
  BY <1>3 DEF Resolve
<1>4. ASSUME NEW s \in Sessions, BindAgain(s)
      PROVE  ToldOnce'
  BY <1>4 DEF BindAgain
<1>5. ASSUME NEW s \in Sessions, Release(s)
      PROVE  ToldOnce'
  BY <1>5, ReleaseEffect, WrittenSafe
<1>6. ASSUME NEW s \in Sessions, NEW w \in Workspaces, Bind(s, w)
      PROVE  ToldOnce'
  BY <1>6, BindEffect, WrittenSafe
<1>7. ASSUME NEW s \in Sessions, NEW w \in Workspaces, Allocate(s, w)
      PROVE  ToldOnce'
  BY <1>7, AllocateEffect
<1>8. ASSUME NEW s \in Sessions, NEW e \in Epics, AttachEpic(s, e)
      PROVE  ToldOnce'
  BY <1>8, AttachSafe
<1>9. ASSUME NEW s \in Sessions, NEW w \in Workspaces, NEW e \in Epics, AdoptV1(s, w, e)
      PROVE  ToldOnce'
  BY <1>9, AdoptEffect
<1>10. AddTree => ToldOnce'
  BY DEF AddTree
<1>11. LockTree => ToldOnce'
  BY DEF LockTree
<1>12. TreeFails => ToldOnce'
  BY DEF TreeFails
<1>13. Reconcile => ToldOnce'
  BY ReconcileEffect DEF Reconcile
<1>14. ReconcileFails => ToldOnce'
  BY DEF ReconcileFails
<1>15. WriteTransaction => ToldOnce'
  BY DEF WriteTransaction
<1>16. WriteRecord => ToldOnce'
  BY DEF WriteRecord
<1>17. WriteBinding => ToldOnce'
  BY DEF WriteBinding
<1>18. Commit => ToldOnce'
  BY CommitSafe
<1>19. CommitFails => ToldOnce'
  BY DEF CommitFails
<1>20. UndoRecord => ToldOnce'
  BY DEF UndoRecord
<1>21. UndoBinding => ToldOnce'
  BY DEF UndoBinding
<1>22. UndoTransaction => ToldOnce'
  BY DEF UndoTransaction
<1>23. UndoTransactionFails => ToldOnce'
  BY DEF UndoTransactionFails
<1>24. Crash => ToldOnce'
  BY DEF Crash
<1>25. ASSUME NEW e \in Epics, LegacyChange(e)
      PROVE  ToldOnce'
  BY <1>25 DEF LegacyChange
<1>26. UNCHANGED vars => ToldOnce'
  BY DEF vars
<1> QED
  BY <1>1, <1>2, <1>3, <1>4, <1>5, <1>6, <1>7, <1>8, <1>9, <1>10, <1>11,
     <1>12, <1>13, <1>14, <1>15, <1>16, <1>17, <1>18, <1>19, <1>20, <1>21,
     <1>22, <1>23, <1>24, <1>25, <1>26 DEF Next, Progress, Operation

\* No action unbinds a session in the middle of a transition.
LEMMA RoutedStep == IInv /\ [Next]_vars => Routed'
<1> SUFFICES ASSUME IInv, [Next]_vars PROVE Routed'
  OBVIOUS
<1> USE ContextAssumption DEF TypeOK, StageKept, End, Grant, Fault, AfterFailure, RollBack,
       store, memory, Stages, Allocating, Publishing, Undoing, Call, Transaction,
       IInv, CallKept, Routed, Keeps, IsBound, Binding
<1>1. Begin => Routed'
  BY DEF Begin
<1>2. Reject => Routed'
  BY DEF Reject
<1>3. ASSUME NEW s \in Sessions, Resolve(s)
      PROVE  Routed'
  BY <1>3 DEF Resolve
<1>4. ASSUME NEW s \in Sessions, BindAgain(s)
      PROVE  Routed'
  BY <1>4 DEF BindAgain
<1>5. ASSUME NEW s \in Sessions, Release(s)
      PROVE  Routed'
  BY <1>5, ReleaseEffect DEF Written
<1>6. ASSUME NEW s \in Sessions, NEW w \in Workspaces, Bind(s, w)
      PROVE  Routed'
  BY <1>6, BindEffect DEF Written
<1>7. ASSUME NEW s \in Sessions, NEW w \in Workspaces, Allocate(s, w)
      PROVE  Routed'
  BY <1>7, AllocateEffect
<1>8. ASSUME NEW s \in Sessions, NEW e \in Epics, AttachEpic(s, e)
      PROVE  Routed'
  BY <1>8, AttachEffect
<1>9. ASSUME NEW s \in Sessions, NEW w \in Workspaces, NEW e \in Epics, AdoptV1(s, w, e)
      PROVE  Routed'
  BY <1>9, AdoptEffect
<1>10. AddTree => Routed'
  BY DEF AddTree
<1>11. LockTree => Routed'
  BY DEF LockTree
<1>12. TreeFails => Routed'
  BY DEF TreeFails
<1>13. Reconcile => Routed'
  BY ReconcileEffect DEF Reconcile
<1>14. ReconcileFails => Routed'
  BY DEF ReconcileFails
<1>15. WriteTransaction => Routed'
  BY DEF WriteTransaction
<1>16. WriteRecord => Routed'
  BY DEF WriteRecord
<1>17. WriteBinding => Routed'
  <2> SUFFICES ASSUME WriteBinding PROVE Routed'
    OBVIOUS
  <2>1. IsBound(call.session)' \/ bindings' = bindings
    BY RegistryRulesAssumption DEF WriteBinding
  <2>2. \A t \in Sessions : t # call.session => bindings'[t] = bindings[t]
    BY DEF WriteBinding
  <2> QED
    BY <2>1, <2>2 DEF WriteBinding
<1>18. Commit => Routed'
  BY DEF Commit
<1>19. CommitFails => Routed'
  BY DEF CommitFails
<1>20. UndoRecord => Routed'
  BY DEF UndoRecord
<1>21. UndoBinding => Routed'
  BY DEF UndoBinding
<1>22. UndoTransaction => Routed'
  BY DEF UndoTransaction
<1>23. UndoTransactionFails => Routed'
  BY DEF UndoTransactionFails
<1>24. Crash => Routed'
  BY DEF Crash
<1>25. ASSUME NEW e \in Epics, LegacyChange(e)
      PROVE  Routed'
  BY <1>25 DEF LegacyChange
<1>26. UNCHANGED vars => Routed'
  BY DEF vars
<1> QED
  BY <1>1, <1>2, <1>3, <1>4, <1>5, <1>6, <1>7, <1>8, <1>9, <1>10, <1>11,
     <1>12, <1>13, <1>14, <1>15, <1>16, <1>17, <1>18, <1>19, <1>20, <1>21,
     <1>22, <1>23, <1>24, <1>25, <1>26 DEF Next, Progress, Operation


\* An empty registry satisfies the invariant.
LEMMA InitSafe == Init => IInv
<1> SUFFICES ASSUME Init PROVE IInv
  OBVIOUS
<1>1. TypeOK
  BY DEF Init, TypeOK, Stages
<1>2. StageKept /\ CallKept /\ Routed
  BY DEF Init, StageKept, CallKept, Routed, Keeps, Allocating, Publishing, Undoing
<1>3. DiskKept /\ ToldOnce
  BY DEF Init, DiskKept, ToldOnce, RecordSafe, BindingSafe, BeforeSafe
<1> QED
  BY <1>1, <1>2, <1>3 DEF IInv

\* No step of any operation, failure or death breaks the invariant.
LEMMA NextSafe == IInv /\ [Next]_vars => IInv'
<1> SUFFICES ASSUME IInv, [Next]_vars PROVE IInv'
  OBVIOUS
<1>1. TypeOK' /\ StageKept'
  BY TypedStep, StagedStep DEF IInv
<1>2. CallKept' /\ DiskKept' /\ ToldOnce' /\ Routed'
  BY CallKeptStep, DiskKeptStep, ToldOnceStep, RoutedStep
<1> QED
  BY <1>1, <1>2 DEF IInv

\* The inductive invariant holds in every reachable state, whatever fails.
THEOREM Invariant == Spec => []IInv
  BY InitSafe, NextSafe, PTL DEF Spec

-----------------------------------------------------------------------------
(* What it shows, whatever fails *)

\* Records, bindings, transactions and calls are well formed at every step of
\* every operation.
THEOREM TypeCorrect == Spec => []TypeOK
<1>1. IInv => TypeOK
  BY DEF IInv
<1> QED
  BY <1>1, Invariant, PTL

\* A session is told one thing under one generation, and no two workspaces are
\* given out for one Epic.
THEOREM ContextsStayUnambiguous == Spec => []ContextsUnambiguous
<1>1. IInv => ContextsUnambiguous
  <2> SUFFICES ASSUME IInv, NEW c \in granted, NEW d \in granted,
                      c.binding.epic = d.binding.epic, c.binding.epic # None
               PROVE  c.binding.ws = d.binding.ws
    BY DEF IInv, ToldOnce, ContextsUnambiguous
  <2>1. c.binding.ws \in Workspaces /\ d.binding.ws \in Workspaces
    BY DEF IInv, TypeOK, Context, Binding
  <2>2. Backs(trees, c, records[c.binding.ws]) /\ Backs(trees, d, records[d.binding.ws])
    BY <2>1 DEF IInv, DiskKept, RecordSafe
  <2> QED
    BY <2>1, <2>2 DEF IInv, DiskKept, Backs
<1> QED
  BY <1>1, Invariant, PTL

\* The workspace that a session was given stays complete, in Git and on disk.
THEOREM GrantsStayBacked == Spec => []GrantsBacked
<1>1. IInv => GrantsBacked
  <2> SUFFICES ASSUME IInv, NEW c \in granted
               PROVE  Backs(trees, c, records[c.binding.ws])
    BY DEF GrantsBacked, Backs
  <2>1. c.binding.ws \in Workspaces
    BY DEF IInv, TypeOK, Context, Binding
  <2> QED
    BY <2>1 DEF IInv, DiskKept, RecordSafe
<1> QED
  BY <1>1, Invariant, PTL

\* Nothing that fails in a transition makes a bound session look unbound.
THEOREM BoundSessionsStayRouted == Spec => []BoundSessionsRouted
<1>1. IInv => BoundSessionsRouted
  <2> SUFFICES ASSUME IInv, NEW s \in Sessions,
                      CommittedBindings[s] # None, CommittedBindings[s].bound
               PROVE  IsBound(s)
    BY DEF BoundSessionsRouted, HasBinding
  <2>1. CASE transaction = None \/ s # transaction.session
    BY <2>1 DEF CommittedBindings, IsBound, IInv, TypeOK
  <2>2. CASE transaction # None /\ s = transaction.session
    <3>1. CommittedBindings[s] = transaction.binding
      BY <2>2 DEF CommittedBindings, IInv, TypeOK
    <3> QED
      BY <2>2, <3>1 DEF IInv, Routed, Keeps
  <2> QED
    BY <2>1, <2>2
<1> QED
  BY <1>1, Invariant, PTL


-----------------------------------------------------------------------------
(* The implementation of ContextRegistry, when no removal fails late *)

EarlyOnly == "unlink" \notin Faults

\* The transaction file masks whatever differs from what it holds.
LEMMA MaskedStep == EarlyOnly /\ IInv /\ RInv /\ [Next]_vars => Masked'
<1> SUFFICES ASSUME EarlyOnly, IInv, RInv, [Next]_vars PROVE Masked'
  OBVIOUS
<1> USE ContextAssumption DEF EarlyOnly, IInv, RInv, TypeOK, StageKept, End, Fault, AfterFailure, RollBack,
       RestoreFault, store, memory, Masked, CallKept, Allocating, Publishing, Undoing, Call, Transaction
<1>1. Begin => Masked'
  BY DEF Begin
<1>2. Reject => Masked'
  BY DEF Reject
<1>3. ASSUME NEW s \in Sessions, Resolve(s)
      PROVE  Masked'
  BY <1>3 DEF Resolve
<1>4. ASSUME NEW s \in Sessions, BindAgain(s)
      PROVE  Masked'
  BY <1>4 DEF BindAgain
<1>5. ASSUME NEW s \in Sessions, Release(s)
      PROVE  Masked'
  BY <1>5, ReleaseEffect DEF Written
<1>6. ASSUME NEW s \in Sessions, NEW w \in Workspaces, Bind(s, w)
      PROVE  Masked'
  BY <1>6, BindEffect DEF Written
<1>7. ASSUME NEW s \in Sessions, NEW w \in Workspaces, Allocate(s, w)
      PROVE  Masked'
  BY <1>7, AllocateEffect
<1>8. ASSUME NEW s \in Sessions, NEW e \in Epics, AttachEpic(s, e)
      PROVE  Masked'
  BY <1>8, AttachEffect
<1>9. ASSUME NEW s \in Sessions, NEW w \in Workspaces, NEW e \in Epics, AdoptV1(s, w, e)
      PROVE  Masked'
  BY <1>9, AdoptEffect DEF DiskKept
<1>10. AddTree => Masked'
  BY DEF AddTree
<1>11. LockTree => Masked'
  BY DEF LockTree
<1>12. TreeFails => Masked'
  BY DEF TreeFails
<1>13. Reconcile => Masked'
  BY ReconcileEffect DEF Reconcile
<1>14. ReconcileFails => Masked'
  BY DEF ReconcileFails
<1>15. WriteTransaction => Masked'
  BY DEF WriteTransaction
<1>16. WriteRecord => Masked'
  BY DEF WriteRecord
<1>17. WriteBinding => Masked'
  BY DEF WriteBinding
<1>18. Commit => Masked'
  BY DEF Commit
<1>19. CommitFails => Masked'
  BY DEF CommitFails
<1>20. UndoRecord => Masked'
  BY DEF UndoRecord
<1>21. UndoBinding => Masked'
  BY DEF UndoBinding
<1>22. UndoTransaction => Masked'
  BY DEF UndoTransaction
<1>23. UndoTransactionFails => Masked'
  BY DEF UndoTransactionFails
<1>24. Crash => Masked'
  BY DEF Crash
<1>25. ASSUME NEW e \in Epics, LegacyChange(e)
      PROVE  Masked'
  BY <1>25 DEF LegacyChange
<1>26. UNCHANGED vars => Masked'
  BY DEF vars
<1> QED
  BY <1>1, <1>2, <1>3, <1>4, <1>5, <1>6, <1>7, <1>8, <1>9, <1>10, <1>11,
     <1>12, <1>13, <1>14, <1>15, <1>16, <1>17, <1>18, <1>19, <1>20, <1>21,
     <1>22, <1>23, <1>24, <1>25, <1>26 DEF Next, Progress, Operation

\* What an attachment is about to publish is one transition of the registry.
LEMMA AttachTransition ==
    ASSUME TypeOK, NEW s \in Sessions, NEW e \in Epics, AttachEpic(s, e)
    PROVE  Transition'
<1>1. /\ call' \in Call
      /\ call'.ws = bindings[s].ws /\ records[call'.ws] # None
      /\ records[call'.ws].lifecycle \in {"active", "cleanup_ready"}
      /\ call'.record.epic = e /\ call'.record.gen = records[call'.ws].gen + 1
      /\ IsBound(s) /\ Matches(bindings[s]) /\ bindings[s].gen < MaxGeneration
      /\ call'.binding = UpdateBinding(bindings[s], call'.ws, call'.record)
      /\ call'.before.record = records[call'.ws]
      /\ call'.before.binding = bindings[s]
  BY AttachEffect
<1>2. /\ call'.before.record # None /\ call'.before.record.lifecycle # "creating"
      /\ call'.record.epic \in Epics
      /\ call'.record.gen = call'.before.record.gen + 1
      /\ call'.before.binding # None /\ call'.before.binding.bound
      /\ call'.before.binding.ws = call'.ws
      /\ call'.before.binding.gen < MaxGeneration
      /\ call'.before.binding.wsGen = call'.before.record.gen
  BY <1>1 DEF IsBound, Matches
<1>3. call'.binding = UpdateBinding(call'.before.binding, call'.ws, call'.record)
  BY <1>1
<1> QED
  BY <1>2, <1>3 DEF Transition

\* What a call publishes is a transition of the registry.
LEMMA TransitionStep == IInv /\ RInv /\ [Next]_vars => Transition'
<1> SUFFICES ASSUME IInv, RInv, [Next]_vars PROVE Transition'
  OBVIOUS
<1> USE ContextAssumption DEF IInv, RInv, TypeOK, StageKept, End, Fault, AfterFailure, RollBack,
       RestoreFault, store, memory, Transition, Allocating, Publishing, Undoing
<1>1. Begin => Transition'
  BY DEF Begin
<1>2. Reject => Transition'
  BY DEF Reject
<1>3. ASSUME NEW s \in Sessions, Resolve(s)
      PROVE  Transition'
  BY <1>3 DEF Resolve
<1>4. ASSUME NEW s \in Sessions, BindAgain(s)
      PROVE  Transition'
  BY <1>4 DEF BindAgain
<1>5. ASSUME NEW s \in Sessions, Release(s)
      PROVE  Transition'
  BY <1>5, ReleaseEffect DEF Written
<1>6. ASSUME NEW s \in Sessions, NEW w \in Workspaces, Bind(s, w)
      PROVE  Transition'
  BY <1>6, BindEffect DEF Written
<1>7. ASSUME NEW s \in Sessions, NEW w \in Workspaces, Allocate(s, w)
      PROVE  Transition'
  BY <1>7, AllocateEffect
<1>8. ASSUME NEW s \in Sessions, NEW e \in Epics, AttachEpic(s, e)
      PROVE  Transition'
  BY <1>8, AttachTransition
<1>9. ASSUME NEW s \in Sessions, NEW w \in Workspaces, NEW e \in Epics, AdoptV1(s, w, e)
      PROVE  Transition'
  BY <1>9, AdoptEffect
<1>10. AddTree => Transition'
  BY DEF AddTree
<1>11. LockTree => Transition'
  BY DEF LockTree
<1>12. TreeFails => Transition'
  BY DEF TreeFails
<1>13. Reconcile => Transition'
  BY ReconcileEffect DEF Reconcile
<1>14. ReconcileFails => Transition'
  BY DEF ReconcileFails
<1>15. WriteTransaction => Transition'
  BY DEF WriteTransaction
<1>16. WriteRecord => Transition'
  BY DEF WriteRecord
<1>17. WriteBinding => Transition'
  BY DEF WriteBinding
<1>18. Commit => Transition'
  BY DEF Commit
<1>19. CommitFails => Transition'
  BY DEF CommitFails
<1>20. UndoRecord => Transition'
  BY DEF UndoRecord
<1>21. UndoBinding => Transition'
  BY DEF UndoBinding
<1>22. UndoTransaction => Transition'
  BY DEF UndoTransaction
<1>23. UndoTransactionFails => Transition'
  BY DEF UndoTransactionFails
<1>24. Crash => Transition'
  BY DEF Crash
<1>25. ASSUME NEW e \in Epics, LegacyChange(e)
      PROVE  Transition'
  BY <1>25 DEF LegacyChange
<1>26. UNCHANGED vars => Transition'
  BY DEF vars
<1> QED
  BY <1>1, <1>2, <1>3, <1>4, <1>5, <1>6, <1>7, <1>8, <1>9, <1>10, <1>11,
     <1>12, <1>13, <1>14, <1>15, <1>16, <1>17, <1>18, <1>19, <1>20, <1>21,
     <1>22, <1>23, <1>24, <1>25, <1>26 DEF Next, Progress, Operation

\* What the registry sees of a record, and which one it sees.
View(record) ==
    IF record = None \/ record = Creating THEN None
    ELSE [epic |-> record.epic, gen |-> record.gen]
SettledRecord(w) ==
    IF transaction # None /\ w = transaction.ws THEN transaction.record ELSE records[w]
SettledBinding(s) ==
    IF transaction # None /\ s = transaction.session THEN transaction.binding
    ELSE bindings[s]

CommittedAsSeen ==
    /\ CommittedRecords = [w \in Workspaces |-> View(SettledRecord(w))]
    /\ CommittedBindings = [s \in Sessions |-> SettledBinding(s)]
\* Settling reads one workspace and one session from the transaction at most.
LEMMA CommittedView == TypeOK => CommittedAsSeen
<1> SUFFICES ASSUME TypeOK PROVE CommittedAsSeen
  OBVIOUS
<1> USE DEF CommittedAsSeen
<1>1. CASE transaction = None
  BY <1>1 DEF CommittedRecords, CommittedBindings, View, SettledRecord, SettledBinding,
              TypeOK
<1>2. CASE transaction # None
  <2>1. transaction.ws \in Workspaces /\ transaction.session \in Sessions
    BY <1>2 DEF TypeOK, Transaction
  <2>2. CommittedBindings = [s \in Sessions |-> SettledBinding(s)]
    BY <1>2, <2>1 DEF CommittedBindings, SettledBinding, TypeOK
  <2>3. \A w \in Workspaces :
            [records EXCEPT ![transaction.ws] = transaction.record][w] = SettledRecord(w)
    BY <1>2, <2>1 DEF SettledRecord, TypeOK
  <2> QED
    BY <1>2, <2>2, <2>3 DEF CommittedRecords, View
<1> QED
  BY <1>1, <1>2

\* What a transition that is under way does is not seen.
Unseen ==
    /\ \A w \in Workspaces : View(SettledRecord(w)') = View(SettledRecord(w))
    /\ \A s \in Sessions : SettledBinding(s)' = SettledBinding(s)
\* A step that changes no settled entry is not one of the abstract registry.
LEMMA UnseenStutters ==
    ASSUME TypeOK, TypeOK', Unseen
    PROVE  UNCHANGED <<CommittedRecords, CommittedBindings>>
<1>1. CommittedAsSeen /\ CommittedAsSeen'
  BY CommittedView, PTL
<1> QED
  BY <1>1 DEF CommittedAsSeen, Unseen

\* The committed registry is typed, and an abstract record determines its fields.
LEMMA ViewTyped ==
    ASSUME NEW record \in Record \cup {None}
    PROVE  /\ View(record) \in Workspace \cup {None}
           /\ View(record) # None <=> record # None /\ record # Creating
           /\ View(record) # None =>
                  View(record) = [epic |-> record.epic, gen |-> record.gen]
<1>1. CASE record = None \/ record = Creating
  BY <1>1 DEF View
<1>2. CASE record # None /\ record # Creating
  <2>1. [epic |-> record.epic, gen |-> record.gen] \in Workspace
    BY <1>2 DEF Record, Workspace
  <2> QED
    BY <1>2, <2>1, RegistryRulesAssumption DEF View
<1> QED
  BY <1>1, <1>2

\* Bindings with the same fields are the same.
LEMMA SameBinding ==
    ASSUME NEW b \in Binding
    PROVE  b = [ws |-> b.ws, epic |-> b.epic, gen |-> b.gen, wsGen |-> b.wsGen,
                bound |-> b.bound]
BY DEF Binding

\* A binding written on its own is the abstract bind.
LEMMA BindRefines ==
    ASSUME IInv, IInv', NEW s \in Sessions, NEW w \in Workspaces, Bind(s, w)
    PROVE  Registry!Bind(s, w)
<1>1. PICK b \in Binding :
          /\ b.bound /\ b.ws = w /\ b.epic = records[w].epic /\ b.wsGen = records[w].gen
          /\ TopologyOK(w)
          /\ bindings[s] # None => bindings[s].gen < MaxGeneration
          /\ Written(s, b)
  BY BindEffect DEF IInv
<1>2. transaction = None /\ transaction' = None /\ UNCHANGED records
      /\ bindings' = [bindings EXCEPT ![s] = b]
  BY <1>1 DEF Written, IInv, StageKept
<1>3. CommittedBindings = bindings /\ CommittedBindings' = bindings'
      /\ UNCHANGED CommittedRecords
  BY <1>2 DEF CommittedBindings, CommittedRecords
<1>4. records[w] \in Record /\ records[w] # None /\ records[w].lifecycle # "creating"
  BY <1>1 DEF TopologyOK, IInv, TypeOK
<1>5. CommittedRecords[w] = [epic |-> records[w].epic, gen |-> records[w].gen]
      /\ CommittedRecords[w] # None
  <2>1. CommittedRecords[w] = View(records[w])
    BY <1>2, CommittedView DEF CommittedAsSeen, SettledRecord, IInv
  <2>2. records[w] # Creating
    BY <1>4 DEF Creating
  <2> QED
    BY <1>4, <2>1, <2>2, ViewTyped
<1>6. bindings[s] # None => bindings[s].gen \in Nat
  BY DEF IInv, TypeOK, Binding
<1>7. Registry!MayChange(s) /\ b.gen = Registry!NextGen(s)
  BY <1>1, <1>3, <1>6, RegistryRulesAssumption
     DEF Written, Registry!MayChange, Registry!NextGen
<1>8. b = Registry!Bound(w, CommittedRecords[w], Registry!NextGen(s))
  BY <1>1, <1>5, <1>7, SameBinding DEF Registry!Bound
<1> QED
  BY <1>2, <1>3, <1>5, <1>7, <1>8 DEF Registry!Bind

\* A release written on its own is the abstract release.
LEMMA ReleaseRefines ==
    ASSUME IInv, IInv', NEW s \in Sessions, Release(s)
    PROVE  Registry!Release(s)
<1>1. PICK b \in Binding :
          /\ ~b.bound /\ b.ws = bindings[s].ws /\ b.epic = bindings[s].epic
          /\ b.wsGen = bindings[s].wsGen
          /\ bindings[s] # None /\ bindings[s].bound
          /\ bindings[s].gen < MaxGeneration
          /\ Written(s, b)
  BY ReleaseEffect DEF IInv
<1>2. transaction = None /\ transaction' = None /\ UNCHANGED records
      /\ bindings' = [bindings EXCEPT ![s] = b]
  BY <1>1 DEF Written, IInv, StageKept
<1>3. CommittedBindings = bindings /\ CommittedBindings' = bindings'
      /\ UNCHANGED CommittedRecords
  BY <1>2 DEF CommittedBindings, CommittedRecords
<1>4. PICK old \in Binding : old = bindings[s] /\ old.gen \in Nat
  BY <1>1 DEF IInv, TypeOK, Binding
<1>5. Registry!MayChange(s) /\ b.gen = old.gen + 1 /\ Registry!NextGen(s) = old.gen + 1
  BY <1>1, <1>3, <1>4, RegistryRulesAssumption
     DEF Written, Registry!MayChange, Registry!NextGen
<1>6. b = [old EXCEPT !.bound = FALSE, !.gen = old.gen + 1]
  <2> DEFINE new == [old EXCEPT !.bound = FALSE, !.gen = old.gen + 1]
  <2>1. new \in Binding
    <3>1. [old EXCEPT !.bound = FALSE] \in Binding
      BY DEF Binding
    <3>2. old.gen + 1 \in Nat \ {0}
      BY DEF Binding
    <3>3. [[old EXCEPT !.bound = FALSE] EXCEPT !.gen = old.gen + 1] \in Binding
      BY <3>1, <3>2 DEF Binding
    <3>4. new = [[old EXCEPT !.bound = FALSE] EXCEPT !.gen = old.gen + 1]
      OBVIOUS
    <3> QED
      BY <3>3, <3>4
  <2>2. new.ws = old.ws /\ new.epic = old.epic /\ new.gen = old.gen + 1
        /\ new.wsGen = old.wsGen
    BY DEF Binding
  <2>3. ~new.bound
    BY DEF Binding
  <2> HIDE DEF new
  <2>4. new.bound = b.bound
    <3>1. new.bound \in BOOLEAN /\ b.bound \in BOOLEAN
      BY <2>1 DEF Binding
    <3> QED
      BY <1>1, <2>3, <3>1
  <2>5. b = new
    BY <1>1, <1>4, <1>5, <2>1, <2>2, <2>4, SameBinding
  <2> QED
    BY <2>5 DEF new
<1> QED
  BY <1>1, <1>2, <1>3, <1>4, <1>5, <1>6 DEF Registry!Release

\* Removing the transaction file commits one transition of the abstract registry.
LEMMA CommitRefines ==
    ASSUME IInv, IInv', RInv, Commit
    PROVE  Registry!Next
<1>1. /\ stage = "commit" /\ transaction' = None /\ UNCHANGED <<records, bindings>>
  BY DEF Commit
<1>2. /\ call # None /\ call \in Call /\ records[call.ws] = call.record
      /\ bindings[call.session] = call.binding /\ transaction = call.before
      /\ call.before \in Transaction /\ transaction # None
  BY <1>1, ContextAssumption DEF IInv, StageKept, Publishing, TypeOK, Call
<1>3. PICK s \in Sessions, w \in Workspaces, b \in Binding, r \in Record,
           oldB \in Binding \cup {None}, oldR \in Record \cup {None} :
          /\ s = call.session /\ w = call.ws /\ b = call.binding /\ r = call.record
          /\ oldR = call.before.record /\ oldB = call.before.binding
  BY <1>2 DEF Call, Transaction
<1>4. transaction.ws = w /\ transaction.session = s
      /\ transaction.record = oldR /\ transaction.binding = oldB
  BY <1>2, <1>3 DEF IInv, CallKept
<1>5. CommittedAsSeen /\ CommittedAsSeen'
  BY CommittedView, PTL DEF IInv
<1>6. /\ CommittedRecords = [x \in Workspaces |-> IF x = w THEN View(oldR)
                                                  ELSE View(records[x])]
      /\ CommittedBindings = [t \in Sessions |-> IF t = s THEN oldB ELSE bindings[t]]
  BY <1>2, <1>4, <1>5 DEF CommittedAsSeen, SettledRecord, SettledBinding
<1>7. /\ CommittedRecords' = [x \in Workspaces |-> View(records[x])]
      /\ CommittedBindings' = [t \in Sessions |-> bindings[t]]
  BY <1>1, <1>5 DEF CommittedAsSeen, SettledRecord, SettledBinding
<1>8. r.lifecycle # "creating" /\ (r.epic # None => EpicFree(r.epic, {w}))
      /\ (oldR # None => oldR.epic = None)
  BY <1>2, <1>3 DEF IInv, CallKept, BeforeSafe
<1>9. View(r) = [epic |-> r.epic, gen |-> r.gen]
  <2>1. r # Creating /\ r # None
    BY <1>8, ContextAssumption DEF Creating
  <2> QED
    BY <2>1 DEF View
<1> DEFINE workspace == [epic |-> r.epic, gen |-> r.gen]
<1>10. CommittedRecords' = [CommittedRecords EXCEPT ![w] = workspace]
       /\ CommittedRecords[w] = View(oldR) /\ CommittedRecords'[w] = workspace
  BY <1>2, <1>3, <1>6, <1>7, <1>9
<1>11. CommittedBindings' = [CommittedBindings EXCEPT ![s] = b]
       /\ CommittedBindings[s] = oldB
  BY <1>2, <1>3, <1>6, <1>7
<1>12. r.epic # None => Registry!EpicFree(r.epic, w)
  <2> SUFFICES ASSUME r.epic # None, NEW x \in Workspaces \ {w},
                      CommittedRecords[x] # None
               PROVE  CommittedRecords[x].epic # r.epic
    BY DEF Registry!EpicFree
  <2>1. records[x] \in Record \cup {None} /\ CommittedRecords[x] = View(records[x])
    BY <1>6 DEF IInv, TypeOK
  <2>2. records[x] # None /\ CommittedRecords[x].epic = records[x].epic
    BY <2>1, ViewTyped
  <2> QED
    BY <1>8, <2>2 DEF EpicFree
<1>13. workspace.epic = r.epic /\ workspace.gen = r.gen
  OBVIOUS
<1> HIDE DEF workspace
<1>14. ASSUME r.epic \in Epics \cup {None}, r.gen \in {1, 2},
              View(oldR) = None, oldB = None, b = NewBinding(w, r)
       PROVE  Registry!Next
  <2>1. b = Registry!Bound(w, workspace, 1)
    BY <1>13, <1>14 DEF NewBinding, Registry!Bound
  <2>2. Registry!Open(s, w, r.epic, r.gen)
    BY <1>10, <1>11, <1>12, <1>14, <2>1 DEF Registry!Open, workspace
  <2> QED
    BY <1>14, <2>2 DEF Registry!Next
<1>15. CASE /\ r = [Creating EXCEPT !.lifecycle = "active", !.gen = 2]
            /\ oldR = Creating /\ oldB = None /\ b = NewBinding(w, r)
  <2>1. r.gen = 2
    BY <1>15 DEF Record
  <2>2. r.epic \in Epics \cup {None}
    BY DEF Record
  <2>3. View(oldR) = None
    BY <1>15 DEF View
  <2> QED
    BY <1>14, <1>15, <2>1, <2>2, <2>3
<1>16. CASE /\ r.epic \in Epics /\ r.gen = 1
            /\ oldR = None /\ oldB = None /\ b = NewBinding(w, r)
  <2>1. View(oldR) = None
    BY <1>16 DEF View
  <2> QED
    BY <1>14, <1>16, <2>1
<1>17. CASE /\ oldR # None /\ oldR.lifecycle # "creating"
            /\ r.epic \in Epics /\ r.gen = oldR.gen + 1
            /\ oldB # None /\ oldB.bound /\ oldB.ws = w
            /\ oldB.gen < MaxGeneration /\ oldB.wsGen = oldR.gen
            /\ b = UpdateBinding(oldB, w, r)
  <2>1. View(oldR) = [epic |-> None, gen |-> oldR.gen] /\ View(oldR) # None
    <3>1. oldR # Creating
      BY <1>17 DEF Creating
    <3> QED
      BY <1>8, <1>17, <3>1, ViewTyped
  <2>2. View(oldR).epic = None /\ View(oldR).gen = oldR.gen
    BY <2>1
  <2>3. oldB.gen \in Nat /\ MaxGeneration \in Nat
    BY <1>17, RegistryRulesAssumption DEF Binding
  <2>4. Registry!NextGen(s) = oldB.gen + 1 /\ Registry!MayChange(s)
    BY <1>11, <1>17, <2>3 DEF Registry!NextGen, Registry!MayChange
  <2>5. b = Registry!Bound(w, workspace, oldB.gen + 1)
    <3>1. /\ b.ws = w /\ b.epic = r.epic /\ b.gen = oldB.gen + 1
          /\ b.wsGen = r.gen /\ b.bound
      BY <1>17, UpdateBindingTyped
    <3>2. b = [ws |-> w, epic |-> r.epic, gen |-> oldB.gen + 1, wsGen |-> r.gen,
               bound |-> TRUE]
      BY <3>1, SameBinding
    <3> QED
      BY <3>2, <1>13 DEF Registry!Bound
  <2>6. r.epic # None
    BY <1>17, RegistryRulesAssumption
  <2>7. workspace = [epic |-> r.epic, gen |-> View(oldR).gen + 1]
    BY <1>17, <2>2 DEF workspace
  <2>8. Registry!Attach(s, r.epic)
    <3>1. CommittedBindings[s].ws = w /\ CommittedBindings[s].bound
          /\ CommittedBindings[s] # None
          /\ CommittedBindings[s].wsGen = CommittedRecords[w].gen
      BY <1>10, <1>11, <1>17, <2>2
    <3>2. CommittedRecords[w] # None /\ CommittedRecords[w].epic = None
          /\ Registry!EpicFree(r.epic, w)
      BY <1>10, <1>12, <2>1, <2>2, <2>6
    <3>3. CommittedRecords' = [CommittedRecords EXCEPT
              ![w] = [epic |-> r.epic, gen |-> CommittedRecords[w].gen + 1]]
      BY <1>10, <2>7
    <3>4. CommittedBindings' = [CommittedBindings EXCEPT
              ![s] = Registry!Bound(w, CommittedRecords'[w], Registry!NextGen(s))]
      BY <1>10, <1>11, <2>4, <2>5
    <3> QED
      BY <2>4, <3>1, <3>2, <3>3, <3>4 DEF Registry!Attach
  <2> QED
    BY <1>17, <2>8 DEF Registry!Next
<1> QED
  BY <1>2, <1>3, <1>15, <1>16, <1>17 DEF RInv, Transition

\* What the registry sees.
Seen ==
    \/ Commit
    \/ \E s \in Sessions : Release(s) \/ \E w \in Workspaces : Bind(s, w)

\* Announcing a worktree is not yet a transition.
LEMMA AllocateUnseen ==
    ASSUME IInv, NEW s \in Sessions, NEW w \in Workspaces, Allocate(s, w)
    PROVE  Unseen
<1>1. /\ records' = [records EXCEPT ![w] = Creating]
      /\ transaction' = transaction /\ bindings' = bindings
      /\ stage = "ready" /\ w \notin used
  BY AllocateEffect DEF IInv
<1>2. transaction = None /\ records[w] = None
  BY <1>1 DEF IInv, StageKept, DiskKept
<1>3. \A x \in Workspaces : records'[x] = IF x = w THEN Creating ELSE records[x]
  BY <1>1 DEF IInv, TypeOK
<1>4. View(Creating) = None /\ View(None) = None
  BY DEF View
<1> QED
  BY <1>1, <1>2, <1>3, <1>4 DEF Unseen, SettledRecord, SettledBinding

\* Every other step leaves the committed registry alone.
LEMMA UnseenStep == EarlyOnly /\ IInv /\ RInv /\ [Next]_vars => Seen \/ Unseen
<1> SUFFICES ASSUME EarlyOnly, IInv, RInv, [Next]_vars PROVE Seen \/ Unseen
  OBVIOUS
<1> USE ContextAssumption DEF EarlyOnly, IInv, RInv, TypeOK, StageKept, Fault,
       RestoreFault, store, Masked, CallKept, Allocating, Publishing, Undoing, Call, Transaction,
       Unseen, SettledRecord, SettledBinding
<1>1. Begin => Seen \/ Unseen
  BY DEF Begin
<1>2. Reject => Seen \/ Unseen
  BY DEF Reject
<1>3. ASSUME NEW s \in Sessions, Resolve(s)
      PROVE  Seen \/ Unseen
  BY <1>3 DEF Resolve
<1>4. ASSUME NEW s \in Sessions, BindAgain(s)
      PROVE  Seen \/ Unseen
  BY <1>4 DEF BindAgain
<1>5. ASSUME NEW s \in Sessions, Release(s)
      PROVE  Seen \/ Unseen
  BY <1>5 DEF Seen
<1>6. ASSUME NEW s \in Sessions, NEW w \in Workspaces, Bind(s, w)
      PROVE  Seen \/ Unseen
  BY <1>6 DEF Seen
<1>7. ASSUME NEW s \in Sessions, NEW w \in Workspaces, Allocate(s, w)
      PROVE  Seen \/ Unseen
  BY <1>7, AllocateUnseen
<1>8. ASSUME NEW s \in Sessions, NEW e \in Epics, AttachEpic(s, e)
      PROVE  Seen \/ Unseen
  <2>1. UNCHANGED <<records, bindings, transaction>>
    BY <1>8, AttachEffect
  <2> QED
    BY <2>1
<1>9. ASSUME NEW s \in Sessions, NEW w \in Workspaces, NEW e \in Epics, AdoptV1(s, w, e)
      PROVE  Seen \/ Unseen
  <2>1. UNCHANGED <<records, bindings, transaction>>
    BY <1>9, AdoptEffect
  <2> QED
    BY <2>1
<1>10. AddTree => Seen \/ Unseen
  BY DEF AddTree
<1>11. LockTree => Seen \/ Unseen
  BY DEF LockTree
<1>12. TreeFails => Seen \/ Unseen
  BY DEF TreeFails
<1>13. Reconcile => Seen \/ Unseen
  BY DEF Reconcile
<1>14. ReconcileFails => Seen \/ Unseen
  BY DEF ReconcileFails
<1>15. WriteTransaction => Seen \/ Unseen
  BY DEF WriteTransaction
<1>16. WriteRecord => Seen \/ Unseen
  BY DEF WriteRecord
<1>17. WriteBinding => Seen \/ Unseen
  BY DEF WriteBinding
<1>18. Commit => Seen \/ Unseen
  BY DEF Seen
<1>19. CommitFails => Seen \/ Unseen
  BY DEF CommitFails
<1>20. UndoRecord => Seen \/ Unseen
  BY DEF UndoRecord
<1>21. UndoBinding => Seen \/ Unseen
  BY DEF UndoBinding
<1>22. UndoTransaction => Seen \/ Unseen
  BY DEF UndoTransaction
<1>23. UndoTransactionFails => Seen \/ Unseen
  BY DEF UndoTransactionFails
<1>24. Crash => Seen \/ Unseen
  BY DEF Crash
<1>25. ASSUME NEW e \in Epics, LegacyChange(e)
      PROVE  Seen \/ Unseen
  BY <1>25 DEF LegacyChange
<1>26. UNCHANGED vars => Seen \/ Unseen
  BY DEF vars
<1> QED
  BY <1>1, <1>2, <1>3, <1>4, <1>5, <1>6, <1>7, <1>8, <1>9, <1>10, <1>11,
     <1>12, <1>13, <1>14, <1>15, <1>16, <1>17, <1>18, <1>19, <1>20, <1>21,
     <1>22, <1>23, <1>24, <1>25, <1>26 DEF Next, Progress, Operation

\* Every step is a step of the registry, or none that it sees.
LEMMA StepRefines ==
    EarlyOnly /\ IInv /\ IInv' /\ RInv /\ [Next]_vars
        => [Registry!Next]_<<CommittedRecords, CommittedBindings>>
<1> SUFFICES ASSUME EarlyOnly, IInv, IInv', RInv, [Next]_vars
             PROVE  \/ Registry!Next
                    \/ UNCHANGED <<CommittedRecords, CommittedBindings>>
  OBVIOUS
<1>1. Seen => Registry!Next
  BY BindRefines, ReleaseRefines, CommitRefines DEF Seen, Registry!Next
<1>2. Unseen => UNCHANGED <<CommittedRecords, CommittedBindings>>
  BY UnseenStutters DEF IInv
<1> QED
  BY <1>1, <1>2, UnseenStep

\* The initial registry is the abstract one's.
LEMMA InitRefines == Init => RInv /\ Registry!Init
<1> SUFFICES ASSUME Init PROVE RInv /\ Registry!Init
  OBVIOUS
<1>1. RInv
  BY DEF Init, RInv, Masked, Transition, Undoing
<1>2. TypeOK
  BY InitSafe DEF IInv
<1>3. CommittedRecords = [w \in Workspaces |-> None]
      /\ CommittedBindings = [s \in Sessions |-> None]
  BY <1>2, CommittedView
     DEF CommittedAsSeen, View, SettledRecord, SettledBinding, Init
<1> QED
  BY <1>1, <1>3 DEF Registry!Init

\* Allocation, attachment and adoption, each of which writes several files, and
\* binding and release, each of which writes one, are the whole transitions of
\* the registry, with any number of failures and deaths between the writes.
THEOREM ImplementsRegistry ==
    ASSUME "unlink" \notin Faults PROVE Spec => RefinesRegistry
<1>1. EarlyOnly
  BY DEF EarlyOnly
<1>2. Spec => []RInv
  <2>1. Init => RInv
    BY InitRefines
  <2>2. EarlyOnly /\ IInv /\ RInv /\ [Next]_vars => RInv'
    BY MaskedStep, TransitionStep DEF RInv
  <2> QED
    BY <1>1, <2>1, <2>2, Invariant, PTL DEF Spec, EarlyOnly
<1>3. Init => Registry!Init
  BY InitRefines
<1> QED
  BY <1>1, <1>2, <1>3, StepRefines, Invariant, PTL
     DEF Spec, EarlyOnly, RefinesRegistry, Registry!Spec, Registry!vars

-----------------------------------------------------------------------------
(* What the implemented registry is known to keep *)

RP == INSTANCE ContextRegistry_proofs
    WITH workspaces <- CommittedRecords, bindings <- CommittedBindings

\* The registry the refinement names and the one the proofs name agree on the next generation.
LEMMA SameNextGen == \A s : Registry!NextGen(s) = RP!NextGen(s)
  BY DEF Registry!NextGen, RP!NextGen

\* They agree on the next-state relation.
LEMMA SameNext == Registry!Next <=> RP!Next
<1>1. \A s, w, e, gen : Registry!Open(s, w, e, gen) <=> RP!Open(s, w, e, gen)
  BY DEF Registry!Open, RP!Open, Registry!Bound, RP!Bound, Registry!EpicFree, RP!EpicFree
<1>2. \A s, e : Registry!Attach(s, e) <=> RP!Attach(s, e)
  BY SameNextGen
     DEF Registry!Attach, RP!Attach, Registry!Bound, RP!Bound, Registry!EpicFree,
         RP!EpicFree, Registry!MayChange, RP!MayChange
<1>3. \A s, w : Registry!Bind(s, w) <=> RP!Bind(s, w)
  BY SameNextGen
     DEF Registry!Bind, RP!Bind, Registry!Bound, RP!Bound, Registry!MayChange, RP!MayChange
<1>4. \A s : Registry!Release(s) <=> RP!Release(s)
  BY SameNextGen DEF Registry!Release, RP!Release, Registry!MayChange, RP!MayChange
<1> QED
  BY <1>1, <1>2, <1>3, <1>4 DEF Registry!Next, RP!Next

\* So what is proved of the one holds of the other.
LEMMA SameSpec == Registry!Spec => RP!Spec
<1>1. Registry!Init <=> RP!Init
  BY DEF Registry!Init, RP!Init
<1> QED
  BY <1>1, SameNext, PTL DEF Registry!Spec, RP!Spec, Registry!vars, RP!vars

\* The registry's assumption on its constants is that of the contexts.
LEMMA SameAssumption ==
    None \notin Epics \cup RP!Workspace \cup RP!Binding /\ MaxGeneration \in Nat \ {0}
BY RegistryRulesAssumption DEF Workspace, Binding, RP!Workspace, RP!Binding

\* No committed binding speaks of a workspace generation that was not published,
\* or of another Epic than that generation has.
THEOREM BindingsStayGrounded ==
    ASSUME "unlink" \notin Faults PROVE Spec => []BindingsGrounded
<1>1. RP!BindingsGrounded => Registry!BindingsGrounded
  BY DEF RP!BindingsGrounded, Registry!BindingsGrounded
<1>2. RP!Spec => []RP!BindingsGrounded
  BY SameAssumption, RP!BindingsAreGrounded, PTL
<1>3. Spec => Registry!Spec
  BY ImplementsRegistry DEF RefinesRegistry
<1>4. TypeOK /\ Registry!BindingsGrounded => BindingsGrounded
  BY DEF BindingsGrounded
<1> QED
  BY <1>1, <1>2, <1>3, <1>4, SameSpec, TypeCorrect, PTL

\* No failure and no death takes back what was committed: a record or a binding
\* that changes has a higher generation, so that a caller's expected generation
\* is met by one content only.
THEOREM GenerationsNeverReused ==
    ASSUME "unlink" \notin Faults PROVE Spec => Registry!GenerationsGrow
<1>1. RP!GenerationsGrow => Registry!GenerationsGrow
  BY DEF RP!GenerationsGrow, Registry!GenerationsGrow, RP!vars, Registry!vars
<1>2. RP!Spec => RP!GenerationsGrow
  BY SameAssumption, RP!GenerationsOnlyGrow
<1>3. Spec => Registry!Spec
  BY ImplementsRegistry DEF RefinesRegistry
<1> QED
  BY <1>1, <1>2, <1>3, SameSpec

-----------------------------------------------------------------------------
(* The lock that makes the calls one at a time                             *)
(*                                                                         *)
(* Whatever the number of processes, deaths and failures, the lock         *)
(* excludes as long as no recovery takes away a lock it did not inspect;   *)
(* and there are two situations in which none can.                         *)

Lock == INSTANCE ExecutionLock WITH faults <- lockFaults

\* A process that is in its operation, or about to remove the lock it read
\* back, owns the lock.
OwnerInv == \A p \in Procs : pc[p] \in {"critical", "remove"} => lock = p

\* Initially nobody holds the lock and nobody is in an operation.
LEMMA LockInit ==
    ASSUME Free \notin Procs
    PROVE  Lock!Init => Lock!TypeOK /\ OwnerInv
BY DEF Lock!Init, Lock!TypeOK, OwnerInv, Lock!Points

\* What the lock may turn into, and who may have turned it.
LEMMA LockEffect ==
    ASSUME Lock!TypeOK, Lock!Next
    PROVE  \E p \in Procs :
              /\ pc' = [pc EXCEPT ![p] = pc'[p]]
              /\ pc'[p] \in Lock!Points /\ pc[p] # "dead"
              /\ lockFaults' \in Nat
              /\ \/ lock' = lock
                 \/ lock = Free /\ lock' = p /\ pc[p] = "acquire"
                 \/ lock' = Free /\ pc[p] = "rename" /\ pc'[p] \in {"wait", "idle"}
                 \/ lock' = Free /\ pc[p] = "remove" /\ pc'[p] = "idle"
              /\ pc'[p] = "critical" => lock = Free /\ lock' = p
              /\ pc'[p] = "remove" => lock = p /\ lock' = p
              /\ pc'[p] = "rename" =>
                    /\ lock' = lock /\ lock # Free
                    /\ Dead(lock) /\ lock \notin Unprovable
<1>1. PICK p \in Procs :
          \/ Lock!Step(p) \/ Lock!GiveUp(p) \/ Lock!Die(p)
          \/ Lock!LinkFails(p) \/ Lock!QuarantineFails(p) \/ Lock!RemoveFails(p)
  BY DEF Lock!Next
<1>2. pc \in [Procs -> Lock!Points] /\ lockFaults \in Nat
  BY DEF Lock!TypeOK
<1>3. CASE Lock!Call(p)
  BY <1>2, <1>3 DEF Lock!Call, Lock!Goto, Lock!Points
<1>4. CASE Lock!Link(p) \/ Lock!LinkFails(p) \/ Lock!LinkExists(p)
  BY <1>2, <1>4
     DEF Lock!Link, Lock!LinkFails, Lock!LinkExists, Lock!Goto, Lock!Points, Lock!Fault
<1>5. CASE Lock!Inspect(p)
  BY <1>2, <1>5 DEF Lock!Inspect, Lock!Goto, Lock!Points, Dead, Lock!Dead
<1>6. CASE Lock!Quarantine(p) \/ Lock!QuarantineFails(p)
  BY <1>2, <1>6
     DEF Lock!Quarantine, Lock!QuarantineFails, Lock!Goto, Lock!Points, Lock!Fault
<1>7. CASE Lock!Retry(p) \/ Lock!GiveUp(p) \/ Lock!Finish(p)
  BY <1>2, <1>7 DEF Lock!Retry, Lock!GiveUp, Lock!Finish, Lock!Goto, Lock!Points
<1>8. CASE Lock!ReadBack(p)
  BY <1>2, <1>8 DEF Lock!ReadBack, Lock!Goto, Lock!Points
<1>9. CASE Lock!Remove(p) \/ Lock!RemoveFails(p)
  BY <1>2, <1>9 DEF Lock!Remove, Lock!RemoveFails, Lock!Goto, Lock!Points, Lock!Fault
<1>10. CASE Lock!Die(p)
  BY <1>2, <1>10 DEF Lock!Die, Dead, Lock!Dead, Lock!Goto, Lock!Points
<1> QED
  BY <1>1, <1>3, <1>4, <1>5, <1>6, <1>7, <1>8, <1>9, <1>10 DEF Lock!Step

\* Steps of the lock protocol keep the types.
LEMMA LockNextTyped == Lock!TypeOK /\ [Lock!Next]_(Lock!vars) => Lock!TypeOK'
<1> SUFFICES ASSUME Lock!TypeOK, [Lock!Next]_(Lock!vars) PROVE Lock!TypeOK'
  OBVIOUS
<1>1. CASE Lock!Next
  BY <1>1, LockEffect DEF Lock!TypeOK
<1>2. CASE UNCHANGED Lock!vars
  BY <1>2 DEF Lock!TypeOK, Lock!vars
<1> QED
  BY <1>1, <1>2

\* The lock file always bears the evidence of one owner.
LEMMA LockTyped == Lock!Spec => []Lock!TypeOK
<1>1. Lock!Init => Lock!TypeOK
  BY DEF Lock!Init, Lock!TypeOK, Lock!Points
<1> QED
  BY <1>1, LockNextTyped, PTL DEF Lock!Spec

\* A step that is not a recovery overtaken by another process keeps the
\* owners in possession.
LEMMA OwnerPreserved ==
    ASSUME Free \notin Procs
    PROVE  Lock!TypeOK /\ OwnerInv /\ [Lock!Next]_(Lock!vars) /\ [Lock!RecoversDeadLock]_(Lock!vars)
               => OwnerInv'
<1> SUFFICES ASSUME Lock!TypeOK, OwnerInv,
                    [Lock!Next]_(Lock!vars), [Lock!RecoversDeadLock]_(Lock!vars),
                    NEW q \in Procs, pc'[q] \in {"critical", "remove"}
             PROVE  lock' = q
  BY DEF OwnerInv
<1>1. CASE UNCHANGED Lock!vars
  BY <1>1 DEF OwnerInv, Lock!vars
<1>2. CASE Lock!Next /\ ~UNCHANGED Lock!vars
  <2>1. Lock!RecoversDeadLock
    BY <1>2
  <2>2. PICK p \in Procs :
              /\ pc' = [pc EXCEPT ![p] = pc'[p]]
              /\ \/ lock' = lock
                 \/ lock = Free /\ lock' = p /\ pc[p] = "acquire"
                 \/ lock' = Free /\ pc[p] = "rename" /\ pc'[p] \in {"wait", "idle"}
                 \/ lock' = Free /\ pc[p] = "remove" /\ pc'[p] = "idle"
              /\ pc'[p] = "critical" => lock = Free /\ lock' = p
              /\ pc'[p] = "remove" => lock = p /\ lock' = p
    BY <1>2, LockEffect
  <2>3. CASE q = p
    BY <2>2, <2>3
  <2>4. CASE q # p
    <3>1. pc[q] \in {"critical", "remove"} /\ lock = q
      BY <2>2, <2>4 DEF Lock!TypeOK, OwnerInv
    <3>2. q # Free
      OBVIOUS
    <3>3. ~(pc[p] = "rename" /\ pc'[p] \in {"wait", "idle"} /\ lock' = Free)
      BY <2>1, <3>1, <3>2 DEF Lock!RecoversDeadLock, Dead, Lock!Dead
    <3>4. pc[p] # "remove"
      BY <2>4, <3>1 DEF OwnerInv
    <3> QED
      BY <2>2, <3>1, <3>2, <3>3, <3>4
  <2> QED
    BY <2>3, <2>4
<1> QED
  BY <1>1, <1>2

\* One lock file has one owner, so one operation runs.
LEMMA OwnerExcludes == OwnerInv => MutualExclusion
BY DEF OwnerInv, MutualExclusion

\* The race is the only flaw: as long as every quarantine takes the dead lock
\* that was inspected, two operations never run at once.
THEOREM ExclusionBarringTheRace ==
    ASSUME Free \notin Procs
    PROVE  Lock!Spec /\ [][Lock!RecoversDeadLock]_(Lock!vars) => []MutualExclusion
<1>1. Lock!Init => Lock!TypeOK /\ OwnerInv
  BY LockInit
<1> QED
  BY <1>1, LockNextTyped, OwnerPreserved, OwnerExcludes, PTL DEF Lock!Spec

\* Under the same condition, the lock of a live process is removed by that
\* process alone.
THEOREM LiveLockKeptBarringTheRace ==
    ASSUME Free \notin Procs
    PROVE  Lock!Spec /\ [][Lock!RecoversDeadLock]_(Lock!vars) => LiveLockKept
<1> DEFINE Kept == \A p \in Procs : lock = p /\ ~Dead(p) /\ lock' # p =>
                       pc[p] = "remove" /\ pc'[p] = "idle"
<1>1. Lock!TypeOK /\ OwnerInv /\ [Lock!Next]_(Lock!vars) /\ [Lock!RecoversDeadLock]_(Lock!vars)
          => [Kept]_<<lock, pc>>
  <2> SUFFICES ASSUME Lock!TypeOK, OwnerInv, Lock!Next, Lock!RecoversDeadLock,
                      NEW q \in Procs, lock = q, ~Dead(q), lock' # q
               PROVE  pc[q] = "remove" /\ pc'[q] = "idle"
    BY DEF Lock!vars
  <2>1. PICK p \in Procs :
              \/ lock' = lock
              \/ lock = Free /\ lock' = p /\ pc[p] = "acquire"
              \/ lock' = Free /\ pc[p] = "rename" /\ pc'[p] \in {"wait", "idle"}
              \/ lock' = Free /\ pc[p] = "remove" /\ pc'[p] = "idle"
    BY LockEffect
  <2>2. q # Free
    OBVIOUS
  <2>3. ~(pc[p] = "rename" /\ pc'[p] \in {"wait", "idle"})
    BY DEF Lock!RecoversDeadLock, Dead, Lock!Dead
  <2>4. pc[p] = "remove" => p = q
    BY DEF OwnerInv
  <2> QED
    BY <2>1, <2>2, <2>3, <2>4
<1>2. Lock!Init => Lock!TypeOK /\ OwnerInv
  BY LockInit
<1> QED
  BY <1>1, <1>2, LockNextTyped, OwnerPreserved, PTL DEF Lock!Spec, LiveLockKept

\* When no death can be proved, nothing is ever recovered and the lock
\* excludes unconditionally.
THEOREM ExclusionWithoutRecovery ==
    ASSUME Free \notin Procs, Unprovable = Procs
    PROVE  Lock!Spec => []MutualExclusion
<1> DEFINE NoRecovery == \A p \in Procs : pc[p] # "rename"
<1>1. Lock!Init => Lock!TypeOK /\ OwnerInv /\ NoRecovery
  BY LockInit DEF Lock!Init
<1>2. Lock!TypeOK /\ NoRecovery /\ [Lock!Next]_(Lock!vars) => NoRecovery'
  <2> SUFFICES ASSUME Lock!TypeOK, NoRecovery, [Lock!Next]_(Lock!vars) PROVE NoRecovery'
    OBVIOUS
  <2>1. CASE Lock!Next
    BY <2>1, LockEffect DEF Lock!TypeOK
  <2>2. CASE UNCHANGED Lock!vars
    BY <2>2 DEF Lock!vars
  <2> QED
    BY <2>1, <2>2
<1>3. NoRecovery => Lock!RecoversDeadLock
  BY DEF Lock!RecoversDeadLock, Dead, Lock!Dead
<1> QED
  BY <1>1, <1>2, <1>3, LockNextTyped, OwnerPreserved, OwnerExcludes, PTL DEF Lock!Spec

\* Two processes never race: the one that recovers is the one that is left.
THEOREM ExclusionOfTwo ==
    ASSUME Free \notin Procs, NEW a \in Procs, NEW b \in Procs, Procs = {a, b}
    PROVE  Lock!Spec => []MutualExclusion
<1> DEFINE Recovering == \A p \in Procs : pc[p] = "rename" => lock # Free /\ Dead(lock)
<1>1. Lock!Init => Lock!TypeOK /\ OwnerInv /\ Recovering
  BY LockInit DEF Lock!Init
<1>2. Lock!TypeOK /\ Recovering /\ [Lock!Next]_(Lock!vars) => Recovering'
  <2> SUFFICES ASSUME Lock!TypeOK, Recovering, [Lock!Next]_(Lock!vars),
                      NEW q \in Procs, pc'[q] = "rename"
               PROVE  lock' # Free /\ Dead(lock)'
    OBVIOUS
  <2>1. CASE UNCHANGED Lock!vars
    BY <2>1 DEF Lock!vars, Dead, Lock!Dead
  <2>2. CASE Lock!Next
    <3>1. PICK p \in Procs :
              /\ pc' = [pc EXCEPT ![p] = pc'[p]] /\ pc[p] # "dead"
              /\ pc'[p] = "rename" =>
                    /\ lock' = lock /\ lock # Free
                    /\ Dead(lock) /\ lock \notin Unprovable
              /\ \/ lock' = lock
                 \/ lock = Free /\ lock' = p /\ pc[p] = "acquire"
                 \/ lock' = Free /\ pc[p] = "rename" /\ pc'[p] \in {"wait", "idle"}
                 \/ lock' = Free /\ pc[p] = "remove" /\ pc'[p] = "idle"
      BY <2>2, LockEffect
    <3>2. CASE q = p
      BY <3>1, <3>2 DEF Lock!TypeOK, Dead, Lock!Dead
    <3>3. CASE q # p
      <4>1. pc[q] = "rename" /\ lock \in Procs /\ pc[lock] = "dead"
        BY <3>1, <3>3 DEF Lock!TypeOK, Dead, Lock!Dead
      <4>2. lock = p
        BY <3>3, <4>1
      <4> QED
        BY <3>1, <4>1, <4>2
    <3> QED
      BY <3>2, <3>3
  <2> QED
    BY <2>1, <2>2
<1>3. Lock!TypeOK /\ Recovering => Lock!RecoversDeadLock
  BY DEF Lock!RecoversDeadLock, Dead, Lock!Dead
<1> QED
  BY <1>1, <1>2, <1>3, LockNextTyped, OwnerPreserved, OwnerExcludes, PTL DEF Lock!Spec
=============================================================================
