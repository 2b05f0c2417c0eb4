-------------------------- MODULE ExecutionContext --------------------------
(***************************************************************************)
(* extensions/generic-tools/execution-context.ts: workspace records and    *)
(* session bindings, one JSON file each, the transaction that publishes a  *)
(* pair of them, the Git worktrees behind them, and the legacy workspaces  *)
(* that a session may adopt.                                               *)
(*                                                                         *)
(* One call runs at a time, under the lock of ExecutionLock, and is split  *)
(* at every durable effect; it may die between any two of them (Crash) or  *)
(* see a reported failure (Fault).  Two things happen outside the lock:    *)
(* hasBinding reads, and the legacy provider changes its worktrees.        *)
(***************************************************************************)
EXTENDS RegistryRules

CONSTANTS
    MaxFaults,   \* bound: reported failures
    MaxCrashes,  \* bound: process deaths inside a call
    Faults       \* the kinds of failure the environment may report

(***************************************************************************)
(* "before": a write, a removal or a Git command fails without an effect.  *)
(* "after": a write or a Git command fails, having had its effect.         *)
(* "unlink": a removal fails in the directory fsync, having removed.       *)
(***************************************************************************)
FaultKinds == {"before", "after", "unlink"}

Lifecycles == {"creating", "active", "cleanup_ready", "closed"}

\* "legacy": the worktree is the one the legacy provider made for the Epic.
Record  == [lifecycle : Lifecycles, epic : Epics \cup {None}, gen : Nat \ {0},
            legacy : BOOLEAN]
Transaction == [ws : Workspaces, session : Sessions,
                record : Record \cup {None}, binding : Binding \cup {None}]
Call == [op : {"allocate", "attach", "adopt"}, session : Sessions,
         ws : Workspaces, record : Record, binding : Binding,
         before : Transaction, last : BOOLEAN]
Context == [session : Sessions, binding : Binding]

ASSUME ContextAssumption ==
    /\ MaxFaults \in Nat /\ MaxCrashes \in Nat
    /\ Faults \subseteq FaultKinds
    /\ None \notin Record \cup Transaction \cup Call

VARIABLES
    records,      \* workspaces/<id>.json
    bindings,     \* bindings/<host>/<session key>.json
    transaction,  \* the transaction file: the records before the transition
    trees,        \* Git worktrees of provisional workspaces
    legacy,       \* lifecycle of the legacy workspace of each Epic
    used,         \* workspace identities handed out
    stage, call, undo,  \* the running call and the transaction it rolls back
    granted,      \* contexts returned to a session so far
    faults, crashes

store  == <<records, bindings, transaction, trees>>
memory == <<stage, call, undo>>
vars   == <<store, legacy, used, memory, granted, faults, crashes>>

Stages == {"idle", "ready", "tree", "lock", "transaction", "record", "binding",
           "commit", "undoRecord", "undoBinding", "undoTransaction", "reconcile"}

Fault(kind) == kind \in Faults /\ faults < MaxFaults /\ faults' = faults + 1

-----------------------------------------------------------------------------
(* Records *)

NewBinding(w, record) ==
    [ws |-> w, epic |-> record.epic, gen |-> 1, wsGen |-> record.gen,
     bound |-> TRUE]
\* Mutant: a rebinding keeps the generation.
UpdateBindingInPlace(binding, w, record) ==
    [NewBinding(w, record) EXCEPT !.gen = binding.gen]
UpdateBinding(binding, w, record) ==
    [NewBinding(w, record) EXCEPT !.gen = binding.gen + 1]

\* assertWorkspaceTopology: a usable lifecycle, and the worktree in Git's
\* list with the ownership lock.
TopologyOK(w) ==
    /\ records[w] # None
    /\ records[w].lifecycle \in {"active", "cleanup_ready"}
    /\ IF records[w].legacy
       THEN legacy[records[w].epic] \in {"active", "cleanup_ready"}
       ELSE trees[w] = "locked"

\* assertBindingMatchesWorkspace
Matches(binding) ==
    /\ binding.epic = records[binding.ws].epic
    /\ binding.wsGen = records[binding.ws].gen

\* requireBoundBinding
IsBound(s) == bindings[s] # None /\ bindings[s].bound

\* assertNoWorkspaceForEpic
EpicFree(e, except) ==
    \A w \in Workspaces \ except : records[w] # None => records[w].epic # e

\* hasBinding takes no lock.
HasBinding(s) == IsBound(s)

-----------------------------------------------------------------------------
Init ==
    /\ records = [w \in Workspaces |-> None]
    /\ bindings = [s \in Sessions |-> None]
    /\ transaction = None
    /\ trees = [w \in Workspaces |-> "absent"]
    /\ legacy = [e \in Epics |-> "absent"]
    /\ used = {}
    /\ stage = "idle" /\ call = None /\ undo = None
    /\ granted = {}
    /\ faults = 0 /\ crashes = 0

End == stage' = "idle" /\ call' = None /\ undo' = None

Grant(s, binding) == granted' = granted \cup {[session |-> s, binding |-> binding]}

\* Mutant: a pending transaction is left for later.
BeginAnyway ==
    /\ stage = "idle"
    /\ stage' = "ready"
    /\ UNCHANGED <<store, legacy, used, call, undo, granted, faults, crashes>>

\* The lock is acquired; a pending transaction is rolled back first.
Begin ==
    /\ stage = "idle"
    /\ IF transaction = None THEN stage' = "ready" ELSE stage' = "undoRecord"
    /\ undo' = transaction
    /\ UNCHANGED <<store, legacy, used, call, granted, faults, crashes>>

\* The call is refused, fails without an effect or only reads.
Reject ==
    /\ stage = "ready"
    /\ End
    /\ UNCHANGED <<store, legacy, used, granted, faults, crashes>>

-----------------------------------------------------------------------------
(* Operations of one write *)

\* resolveSession
Resolve(s) ==
    /\ stage = "ready"
    /\ IsBound(s) /\ records[bindings[s].ws] # None
    /\ Matches(bindings[s]) /\ TopologyOK(bindings[s].ws)
    /\ Grant(s, bindings[s])
    /\ End
    /\ UNCHANGED <<store, legacy, used, faults, crashes>>

\* The write may be reported as failed although it happened.
WriteOneBinding(s, binding) ==
    /\ bindings' = [bindings EXCEPT ![s] = binding]
    /\ \/ /\ IF binding.bound THEN Grant(s, binding) ELSE UNCHANGED granted
          /\ UNCHANGED faults
       \/ Fault("after") /\ UNCHANGED granted
    /\ End
    /\ UNCHANGED <<records, transaction, trees, legacy, used, crashes>>

\* bindSession, with the exact generations of what it binds and rebinds.
Bind(s, w) ==
    /\ stage = "ready" /\ TopologyOK(w)
    /\ \/ /\ bindings[s] = None
          /\ WriteOneBinding(s, NewBinding(w, records[w]))
       \/ /\ bindings[s] # None /\ bindings[s].gen < MaxGeneration
          /\ bindings[s].ws = w => ~bindings[s].bound
          /\ WriteOneBinding(s, UpdateBinding(bindings[s], w, records[w]))

\* bindSession of a session that is bound to w already.
BindAgain(s) ==
    /\ stage = "ready"
    /\ IsBound(s) /\ TopologyOK(bindings[s].ws) /\ Matches(bindings[s])
    /\ Grant(s, bindings[s])
    /\ End
    /\ UNCHANGED <<store, legacy, used, faults, crashes>>

\* releaseSession
Release(s) ==
    /\ stage = "ready"
    /\ IsBound(s) /\ bindings[s].gen < MaxGeneration
    /\ WriteOneBinding(s, [bindings[s] EXCEPT !.bound = FALSE, !.gen = @ + 1])

-----------------------------------------------------------------------------
(* Operations that publish a workspace and a binding *)

Publish(op, s, w, record, binding, previousRecord) ==
    call' = [op |-> op, session |-> s, ws |-> w, record |-> record,
             binding |-> binding, last |-> op # "allocate",
             before |-> [ws |-> w, session |-> s, record |-> previousRecord,
                         binding |-> bindings[s]]]

Creating == [lifecycle |-> "creating", epic |-> None, gen |-> 1, legacy |-> FALSE]

\* allocateProvisional, up to the record that announces the worktree.
Allocate(s, w) ==
    /\ stage = "ready"
    /\ bindings[s] = None /\ w \notin used
    /\ used' = used \cup {w}
    /\ records' = [records EXCEPT ![w] = Creating]
    /\ \/ /\ LET active == [Creating EXCEPT !.lifecycle = "active", !.gen = 2]
             IN  Publish("allocate", s, w, active, NewBinding(w, active), Creating)
          /\ stage' = "tree" /\ UNCHANGED <<undo, faults>>
       \/ Fault("after") /\ End
    /\ UNCHANGED <<bindings, transaction, trees, legacy, granted, crashes>>

AttachEpic(s, e) ==
    /\ stage = "ready"
    /\ IsBound(s) /\ bindings[s].gen < MaxGeneration
    /\ TopologyOK(bindings[s].ws) /\ Matches(bindings[s])
    /\ LET w    == bindings[s].ws
           next == [records[w] EXCEPT !.epic = e, !.gen = @ + 1]
       IN  /\ records[w].epic = None
           /\ EpicFree(e, {w})
           /\ Publish("attach", s, w, next, UpdateBinding(bindings[s], w, next),
                      records[w])
    /\ stage' = "transaction"
    /\ UNCHANGED <<store, legacy, used, undo, granted, faults, crashes>>

AdoptV1(s, w, e) ==
    /\ stage = "ready"
    /\ bindings[s] = None /\ w \notin used
    /\ legacy[e] \in {"active", "cleanup_ready"}
    /\ EpicFree(e, {})
    /\ used' = used \cup {w}
    /\ LET record == [lifecycle |-> legacy[e], epic |-> e, gen |-> 1, legacy |-> TRUE]
       IN  Publish("adopt", s, w, record, NewBinding(w, record), None)
    /\ stage' = "transaction"
    /\ UNCHANGED <<store, legacy, undo, granted, faults, crashes>>

\* What follows a failure: allocation tries once to complete itself.
AfterFailure ==
    IF call # None /\ ~call.last
    THEN stage' = "reconcile" /\ undo' = None /\ UNCHANGED call
    ELSE End

\* git worktree add, git worktree lock
AddTree ==
    /\ stage = "tree"
    /\ trees' = [trees EXCEPT ![call.ws] = "unlocked"]
    /\ stage' = "lock"
    /\ UNCHANGED <<records, bindings, transaction, legacy, used, call, undo,
                   granted, faults, crashes>>
LockTree ==
    /\ stage = "lock"
    /\ trees' = [trees EXCEPT ![call.ws] = "locked"]
    /\ stage' = "transaction"
    /\ UNCHANGED <<records, bindings, transaction, legacy, used, call, undo,
                   granted, faults, crashes>>
TreeFails ==
    /\ stage \in {"tree", "lock"}
    /\ \/ Fault("before") /\ UNCHANGED trees
       \/ /\ Fault("after")
          /\ trees' = [trees EXCEPT
                 ![call.ws] = IF stage = "tree" THEN "unlocked" ELSE "locked"]
    /\ AfterFailure
    /\ UNCHANGED <<records, bindings, transaction, legacy, used, granted, crashes>>

\* Mutant: the worktree is taken for granted.
ReconcileBlindly ==
    /\ stage = "reconcile"
    /\ call' = [call EXCEPT !.last = TRUE]
    /\ stage' = "transaction"
    /\ UNCHANGED <<store, legacy, used, undo, granted, faults, crashes>>

\* recoverProvisionalAllocation
Reconcile ==
    /\ stage = "reconcile" /\ trees[call.ws] # "absent"
    /\ trees' = [trees EXCEPT ![call.ws] = "locked"]
    /\ call' = [call EXCEPT !.last = TRUE]
    /\ stage' = "transaction"
    /\ UNCHANGED <<records, bindings, transaction, legacy, used, undo, granted,
                   faults, crashes>>
ReconcileFails ==
    /\ stage = "reconcile"
    /\ \/ trees[call.ws] = "absent" /\ UNCHANGED <<trees, faults>>
       \/ trees[call.ws] # "absent" /\ Fault("before") /\ UNCHANGED trees
       \/ /\ trees[call.ws] # "absent" /\ Fault("after")
          /\ trees' = [trees EXCEPT ![call.ws] = "locked"]
    /\ End
    /\ UNCHANGED <<records, bindings, transaction, legacy, used, granted, crashes>>

-----------------------------------------------------------------------------
(* publishWorkspaceAndBinding *)

WriteTransaction ==
    /\ stage = "transaction"
    /\ \/ /\ transaction' = call.before
          /\ stage' = "record"
          /\ UNCHANGED <<call, undo, faults>>
       \/ Fault("before") /\ UNCHANGED transaction /\ AfterFailure
       \/ Fault("after") /\ transaction' = call.before /\ AfterFailure
    /\ UNCHANGED <<records, bindings, trees, legacy, used, granted, crashes>>

RollBack == stage' = "undoRecord" /\ undo' = call.before /\ UNCHANGED call

WriteRecord ==
    /\ stage = "record"
    /\ \/ /\ records' = [records EXCEPT ![call.ws] = call.record]
          /\ \/ stage' = "binding" /\ UNCHANGED <<call, undo, faults>>
             \/ Fault("after") /\ RollBack
       \/ Fault("before") /\ UNCHANGED records /\ RollBack
    /\ UNCHANGED <<bindings, transaction, trees, legacy, used, granted, crashes>>

WriteBinding ==
    /\ stage = "binding"
    /\ \/ /\ bindings' = [bindings EXCEPT ![call.session] = call.binding]
          /\ \/ stage' = "commit" /\ UNCHANGED <<call, undo, faults>>
             \/ Fault("after") /\ RollBack
       \/ Fault("before") /\ UNCHANGED bindings /\ RollBack
    /\ UNCHANGED <<records, transaction, trees, legacy, used, granted, crashes>>

Commit ==
    /\ stage = "commit"
    /\ transaction' = None
    /\ Grant(call.session, call.binding)
    /\ End
    /\ UNCHANGED <<records, bindings, trees, legacy, used, faults, crashes>>

\* The transition is rolled back, even when the transaction file is gone.
CommitFails ==
    /\ stage = "commit"
    /\ \/ Fault("before") /\ UNCHANGED transaction
       \/ Fault("unlink") /\ transaction' = None
    /\ RollBack
    /\ UNCHANGED <<records, bindings, trees, legacy, used, granted, crashes>>

-----------------------------------------------------------------------------
(* rollbackTransaction, of a failed publication or of a pending transaction *)

\* Restoring a record is a write, or the removal of a file that may be there.
RestoreFault(previous, present) ==
    \/ previous # None /\ Fault("after")
    \/ previous = None /\ present # None /\ Fault("unlink")

UndoRecord ==
    /\ stage = "undoRecord"
    /\ \/ /\ records' = [records EXCEPT ![undo.ws] = undo.record]
          /\ \/ stage' = "undoBinding" /\ UNCHANGED <<call, undo, faults>>
             \/ RestoreFault(undo.record, records[undo.ws]) /\ AfterFailure
       \/ Fault("before") /\ UNCHANGED records /\ AfterFailure
    /\ UNCHANGED <<bindings, transaction, trees, legacy, used, granted, crashes>>

\* Mutants: the binding is removed, or left, instead of restored; the
\* transaction file stays.
UndoBindingRemoves ==
    /\ stage = "undoBinding"
    /\ bindings' = [bindings EXCEPT ![undo.session] = None]
    /\ stage' = "undoTransaction"
    /\ UNCHANGED <<records, transaction, trees, legacy, used, call, undo, granted,
                   faults, crashes>>
UndoBindingNot ==
    /\ stage = "undoBinding"
    /\ stage' = "undoTransaction"
    /\ UNCHANGED <<store, legacy, used, call, undo, granted, faults, crashes>>
UndoTransactionNot ==
    /\ stage = "undoTransaction"
    /\ IF call = None
       THEN stage' = "ready" /\ undo' = None /\ UNCHANGED call
       ELSE AfterFailure
    /\ UNCHANGED <<store, legacy, used, granted, faults, crashes>>

UndoBinding ==
    /\ stage = "undoBinding"
    /\ \/ /\ bindings' = [bindings EXCEPT ![undo.session] = undo.binding]
          /\ \/ stage' = "undoTransaction" /\ UNCHANGED <<call, undo, faults>>
             \/ RestoreFault(undo.binding, bindings[undo.session]) /\ AfterFailure
       \/ Fault("before") /\ UNCHANGED bindings /\ AfterFailure
    /\ UNCHANGED <<records, transaction, trees, legacy, used, granted, crashes>>

UndoTransaction ==
    /\ stage = "undoTransaction"
    /\ transaction' = None
    /\ \/ UNCHANGED faults /\ IF call = None
                              THEN stage' = "ready" /\ undo' = None /\ UNCHANGED call
                              ELSE AfterFailure
       \/ transaction # None /\ Fault("unlink") /\ AfterFailure
    /\ UNCHANGED <<records, bindings, trees, legacy, used, granted, crashes>>

UndoTransactionFails ==
    /\ stage = "undoTransaction" /\ transaction # None
    /\ Fault("before") /\ AfterFailure
    /\ UNCHANGED <<store, legacy, used, granted, crashes>>

-----------------------------------------------------------------------------
(* The environment *)

\* The legacy provider of workspaces.ts, under a lock of its own: creation,
\* readiness for cleanup, and cleanup, which removes the worktree.
LegacyChange(e) ==
    /\ \/ legacy[e] = "absent" /\ legacy' = [legacy EXCEPT ![e] = "active"]
       \/ legacy[e] = "active" /\ legacy' = [legacy EXCEPT ![e] = "cleanup_ready"]
       \/ legacy[e] = "cleanup_ready" /\ legacy' = [legacy EXCEPT ![e] = "closed"]
    /\ UNCHANGED <<store, used, memory, granted, faults, crashes>>

\* The process dies; its lock is stale and the next call takes it.
Crash ==
    /\ stage # "idle" /\ crashes < MaxCrashes
    /\ crashes' = crashes + 1
    /\ End
    /\ UNCHANGED <<store, legacy, used, granted, faults>>

Operation ==
    \/ Reject
    \/ \E s \in Sessions :
        \/ Resolve(s) \/ BindAgain(s) \/ Release(s)
        \/ \E w \in Workspaces : Bind(s, w) \/ Allocate(s, w)
        \/ \E e \in Epics : AttachEpic(s, e) \/ \E w \in Workspaces : AdoptV1(s, w, e)

Progress ==
    \/ Begin \/ Operation
    \/ AddTree \/ LockTree \/ TreeFails \/ Reconcile \/ ReconcileFails
    \/ WriteTransaction \/ WriteRecord \/ WriteBinding \/ Commit \/ CommitFails
    \/ UndoRecord \/ UndoBinding \/ UndoTransaction \/ UndoTransactionFails

Next == Progress \/ Crash \/ \E e \in Epics : LegacyChange(e)

Spec == Init /\ [][Next]_vars

(***************************************************************************)
(* Calls are synchronous code and keep coming, so some step of a call is   *)
(* always taken, be it one that reports a failure.                         *)
(***************************************************************************)
FairSpec == Spec /\ WF_vars(Progress)

-----------------------------------------------------------------------------
(* Properties *)

TypeOK ==
    /\ records \in [Workspaces -> Record \cup {None}]
    /\ bindings \in [Sessions -> Binding \cup {None}]
    /\ transaction \in Transaction \cup {None}
    /\ trees \in [Workspaces -> {"absent", "unlocked", "locked"}]
    /\ legacy \in [Epics -> {"absent", "active", "cleanup_ready", "closed"}]
    /\ used \subseteq Workspaces
    /\ stage \in Stages
    /\ call \in Call \cup {None}
    /\ undo \in Transaction \cup {None}
    /\ granted \subseteq Context
    /\ faults \in Nat /\ crashes \in Nat

\* The registry a pending transaction leaves authoritative: its records are
\* those before the transition.  A record that announces a worktree is not a
\* workspace yet.
CommittedRecords ==
    LET settled == IF transaction = None THEN records
                   ELSE [records EXCEPT ![transaction.ws] = transaction.record]
    IN  [w \in Workspaces |->
            IF settled[w] = None \/ settled[w] = Creating THEN None
            ELSE [epic |-> settled[w].epic, gen |-> settled[w].gen]]
CommittedBindings ==
    IF transaction = None THEN bindings
    ELSE [bindings EXCEPT ![transaction.session] = transaction.binding]

\* Every step is a whole transition of ContextRegistry, or none.
Registry == INSTANCE ContextRegistry
    WITH workspaces <- CommittedRecords, bindings <- CommittedBindings
RefinesRegistry == Registry!Spec

\* The state is well typed and, between calls, no committed binding refers to a
\* workspace generation that was not published, or to another Epic than that
\* generation has.
BindingsGrounded == TypeOK /\ (stage = "idle" => Registry!BindingsGrounded)

\* A session is never told two different things under one binding generation,
\* and nobody is given two workspaces for one Epic.
ContextsUnambiguous ==
    \A c, d \in granted :
        /\ c.session = d.session /\ c.binding.gen = d.binding.gen => c = d
        /\ c.binding.epic = d.binding.epic /\ c.binding.epic # None =>
               c.binding.ws = d.binding.ws

\* A workspace that was given to a session is complete, in Git and on disk,
\* at the generation it was given, or at a later one.
GrantsBacked ==
    \A c \in granted :
        LET w == c.binding.ws
        IN  /\ records[w] # None
            /\ records[w].lifecycle # "creating"
            /\ records[w].gen >= c.binding.wsGen
            /\ records[w].legacy \/ trees[w] = "locked"

\* A session with a committed binding is never reported as unbound, which would
\* route its tools to the main checkout: not in the middle of a transition, of
\* its roll-back or after a death.
BoundSessionsRouted ==
    \A s \in Sessions :
        CommittedBindings[s] # None /\ CommittedBindings[s].bound => HasBinding(s)

\* An interrupted transition is resolved, one way or the other.
TransactionsResolved == transaction # None ~> transaction = None
=============================================================================
