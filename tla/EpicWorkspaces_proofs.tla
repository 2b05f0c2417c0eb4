------------------------ MODULE EpicWorkspaces_proofs ------------------------
(***************************************************************************)
(* Proofs about EpicWorkspaces, for any set of processes and any number of *)
(* failures, deaths and edits: an active workspace is owned, a closed one  *)
(* is gone, no work is removed, and no call undoes another.                *)
(***************************************************************************)
EXTENDS EpicWorkspaces, TLAPS

\* What a process that holds the lock directory relies on: where a creation is,
\* nothing was there before git worktree add, and nothing is taken down before
\* the record says that cleanup started.
StepsKept ==
    \A p \in Procs :
        /\ pc[p] \in {"add", "lock", "confirm"} => record.state = "creating"
        /\ pc[p] = "add" => ~tree.dir /\ ~tree.entry
        /\ pc[p] \in {"unlock", "remove", "close"} =>
               record.state = "cleanup_ready" /\ record.started

\* Cleanup starts in the state it is announced by, and an entry has its branch.
RecordKept ==
    /\ record.started => record.state \in {"cleanup_ready", "closed"}
    /\ tree.entry => branch

IInv == ActiveIsOwned /\ ClosedIsGone /\ StepsKept /\ RecordKept

\* The states of a record.
LEMMA RankStates ==
    DOMAIN Rank = {"absent", "creating", "active", "cleanup_ready", "closed"}
BY DEF Rank

\* The invariant holds initially.
LEMMA InitInv == Init => IInv
<1> SUFFICES ASSUME Init PROVE IInv
  OBVIOUS
<1>1. TypeOK
  <2>1. record \in [state : DOMAIN Rank, started : BOOLEAN]
    BY RankStates DEF Init
  <2>2. tree \in Trees /\ seen \in [Procs -> Trees]
    BY DEF Init, Trees, NoTree
  <2> QED
    BY <2>1, <2>2 DEF Init, TypeOK
<1> QED
  BY <1>1 DEF Init, IInv, ActiveIsOwned, ClosedIsGone, StepsKept, RecordKept, NoTree

\* The step that follows a call's own step at p.
Moves(p, step) == pc' = [pc EXCEPT ![p] = step] /\ lock' = lock

\* A write of the record moves it on, or reports a failure.
LEMMA WriteEffect ==
    ASSUME NEW p \in Procs, NEW state, NEW started, NEW next,
           Write(p, state, started, next)
    PROVE  \/ record' = [state |-> state, started |-> started]
              /\ (Moves(p, next) \/ Moves(p, "leave"))
           \/ record' = record /\ Moves(p, "leave")
BY DEF Write, Continue, Return, Moves

\* The holder of the lock moves to a step of its own.
LEMMA MoveTyped ==
    ASSUME TypeOK, NEW p \in Procs, lock = p,
           NEW step \in {"add", "lock", "confirm", "unlock", "remove", "close", "leave"},
           Moves(p, step),
           record' \in [state : DOMAIN Rank, started : BOOLEAN],
           tree' \in Trees, dirty' \in BOOLEAN, branch' \in BOOLEAN, seen' = seen
    PROVE  TypeOK'
BY DEF TypeOK, Moves


\* The step of a call that writes the record, and nothing else.
LEMMA WriteTyped ==
    ASSUME TypeOK, NEW p \in Procs, lock = p, NEW state \in DOMAIN Rank,
           NEW started \in BOOLEAN,
           NEW next \in {"add", "lock", "confirm", "unlock", "remove", "close", "leave"},
           Write(p, state, started, next), Quiet
    PROVE  TypeOK'
<1>1. /\ record' \in [state : DOMAIN Rank, started : BOOLEAN]
      /\ Moves(p, next) \/ Moves(p, "leave")
  <2>1. CASE record' = [state |-> state, started |-> started]
             /\ (Moves(p, next) \/ Moves(p, "leave"))
    BY <2>1
  <2>2. CASE record' = record /\ Moves(p, "leave")
    BY <2>2 DEF TypeOK
  <2> QED
    BY <2>1, <2>2, WriteEffect
<1>2. tree' \in Trees /\ dirty' \in BOOLEAN /\ branch' \in BOOLEAN /\ seen' = seen
  BY DEF Quiet, TypeOK
<1> QED
  BY <1>1, <1>2, MoveTyped

\* A call that returns keeps what it relies on.
LEMMA RefuseKeeps ==
    ASSUME IInv, NEW p \in Procs, lock = p, Refuse(p)
    PROVE  IInv'
<1>1. Moves(p, "leave") /\ UNCHANGED <<record, tree, dirty, branch, seen>>
  BY DEF Refuse, Return, Continue, Moves, Quiet
<1>2. TypeOK'
  BY <1>1, MoveTyped DEF IInv, ActiveIsOwned, TypeOK
<1> QED
  BY <1>1, <1>2 DEF IInv, Moves, ActiveIsOwned, ClosedIsGone, StepsKept, RecordKept, TypeOK

\* The creation of a worktree keeps the invariant.
LEMMA CreationKeeps ==
    ASSUME IInv, NEW p \in Procs,
           \/ EnsureCreates(p) \/ AddTree(p) \/ LockTree(p) \/ Confirm(p)
           \/ EnsureResumes(p) \/ EnsureReturns(p)
    PROVE  IInv'
<1> USE DEF IInv
<1>1. CASE EnsureCreates(p)
  <2>1. /\ lock = p /\ record.state = "absent" /\ Available /\ Quiet
        /\ Write(p, "creating", FALSE, "add")
    BY <1>1 DEF EnsureCreates, Holds
  <2>2. TypeOK'
    BY <2>1, WriteTyped, RankStates DEF ActiveIsOwned
  <2>3. \/ record' = [state |-> "creating", started |-> FALSE]
           /\ (Moves(p, "add") \/ Moves(p, "leave"))
        \/ record' = record /\ Moves(p, "leave")
    BY <2>1, WriteEffect
  <2> QED
    BY <2>1, <2>2, <2>3
       DEF Quiet, Available, Moves, ActiveIsOwned, ClosedIsGone, StepsKept,
           RecordKept, TypeOK
<1>2. CASE AddTree(p)
  <2>1. lock = p /\ pc[p] = "add" /\ UNCHANGED <<record, dirty, seen>>
    BY <1>2 DEF AddTree, Holds
  <2>2. /\ Moves(p, "lock") \/ Moves(p, "leave")
        /\ \/ branch' = TRUE /\ tree' = [dir |-> TRUE, entry |-> TRUE, locked |-> FALSE]
           \/ branch' \in BOOLEAN /\ tree' = tree /\ Moves(p, "leave")
    BY <1>2 DEF AddTree, Continue, Return, Moves
  <2>3. tree' \in Trees /\ dirty' \in BOOLEAN /\ branch' \in BOOLEAN
    <3>1. CASE branch' = TRUE /\ tree' = [dir |-> TRUE, entry |-> TRUE, locked |-> FALSE]
      BY <2>1, <3>1 DEF ActiveIsOwned, TypeOK, Trees
    <3>2. CASE branch' \in BOOLEAN /\ tree' = tree
      BY <2>1, <3>2 DEF ActiveIsOwned, TypeOK
    <3> QED
      BY <2>2, <3>1, <3>2
  <2>4. TypeOK'
    BY <2>1, <2>2, <2>3, MoveTyped DEF ActiveIsOwned, TypeOK
  <2> QED
    BY <2>1, <2>2, <2>4
       DEF Moves, ActiveIsOwned, ClosedIsGone, StepsKept, RecordKept, TypeOK
<1>3. CASE LockTree(p)
  <2>1. lock = p /\ pc[p] = "lock" /\ UNCHANGED <<record, dirty, branch, seen>>
        /\ Moves(p, "confirm")
    BY <1>3 DEF LockTree, Holds, Continue, Moves
  <2>2. tree' = tree \/ tree' = [tree EXCEPT !.locked = TRUE]
    BY <1>3 DEF LockTree
  <2>3. tree' \in Trees /\ tree'.dir = tree.dir /\ tree'.entry = tree.entry
    BY <2>2 DEF ActiveIsOwned, TypeOK, Trees
  <2>4. TypeOK'
    BY <2>1, <2>3, MoveTyped DEF ActiveIsOwned, TypeOK
  <2> QED
    BY <2>1, <2>3, <2>4
       DEF Moves, ActiveIsOwned, ClosedIsGone, StepsKept, RecordKept, TypeOK
<1>4. CASE Confirm(p) /\ Blockers(tree) = {}
  <2>1. /\ lock = p /\ pc[p] = "confirm" /\ Quiet
        /\ Write(p, "active", record.started, "leave")
    BY <1>4 DEF Confirm, Holds
  <2>2. tree.dir /\ tree.entry /\ tree.locked
    BY <1>4 DEF Blockers
  <2>3. record.state = "creating" /\ record.started \in BOOLEAN
    BY <2>1 DEF StepsKept, ActiveIsOwned, TypeOK
  <2>4. TypeOK'
    BY <2>1, <2>3, WriteTyped, RankStates DEF ActiveIsOwned
  <2>5. /\ record' = [state |-> "active", started |-> record.started] \/ record' = record
        /\ Moves(p, "leave")
    BY <2>1, WriteEffect
  <2> QED
    BY <2>1, <2>2, <2>3, <2>4, <2>5
       DEF Quiet, Moves, ActiveIsOwned, ClosedIsGone, StepsKept, RecordKept, TypeOK
<1>5. CASE EnsureResumes(p) /\ Blockers(tree) = {}
  <2>1. /\ lock = p /\ record.state = "creating" /\ Quiet
        /\ Write(p, "active", record.started, "leave")
    BY <1>5 DEF EnsureResumes, Holds
  <2>2. tree.dir /\ tree.entry /\ tree.locked
    BY <1>5 DEF Blockers
  <2>3. record.started \in BOOLEAN
    BY DEF ActiveIsOwned, TypeOK
  <2>4. TypeOK'
    BY <2>1, <2>3, WriteTyped, RankStates DEF ActiveIsOwned
  <2>5. /\ record' = [state |-> "active", started |-> record.started] \/ record' = record
        /\ Moves(p, "leave")
    BY <2>1, WriteEffect
  <2> QED
    BY <2>1, <2>2, <2>4, <2>5
       DEF Quiet, Moves, ActiveIsOwned, ClosedIsGone, StepsKept, RecordKept, TypeOK
<1>6. CASE EnsureResumes(p) /\ Blockers(tree) = {"ownership_lock_mismatch"}
  <2>1. /\ lock = p /\ record.state = "creating"
        /\ UNCHANGED <<record, dirty, branch, seen>>
        /\ Moves(p, "confirm") \/ Moves(p, "leave")
        /\ tree' = tree \/ tree' = [tree EXCEPT !.locked = TRUE]
    BY <1>6 DEF EnsureResumes, Holds, Continue, Return, Moves
  <2>2. tree' \in Trees /\ tree'.dir = tree.dir /\ tree'.entry = tree.entry
    BY <2>1 DEF ActiveIsOwned, TypeOK, Trees
  <2>3. TypeOK'
    BY <2>1, <2>2, MoveTyped DEF ActiveIsOwned, TypeOK
  <2> QED
    BY <2>1, <2>2, <2>3
       DEF Moves, ActiveIsOwned, ClosedIsGone, StepsKept, RecordKept, TypeOK
<1>7. CASE lock = p /\ Refuse(p)
  BY <1>7, RefuseKeeps
<1> QED
  BY <1>1, <1>2, <1>3, <1>4, <1>5, <1>6, <1>7
     DEF Confirm, EnsureResumes, EnsureReturns, Holds

\* Its removal keeps the invariant, whatever the call saw before it took the
\* lock.
LEMMA RemovalKeeps ==
    ASSUME IInv, NEW p \in Procs,
           \/ Mark(p) \/ CleanupBegins(p) \/ CleanupRefused(p)
           \/ UnlockTree(p) \/ RemoveTree(p) \/ CloseTree(p)
    PROVE  IInv'
<1> USE DEF IInv
<1>1. CASE Mark(p) /\ record.state = "active" /\ Blockers(seen[p]) = {}
  <2>1. lock = p /\ Quiet /\ Write(p, "cleanup_ready", FALSE, "leave")
    BY <1>1 DEF Mark, Holds
  <2>2. TypeOK'
    BY <2>1, WriteTyped, RankStates DEF ActiveIsOwned
  <2>3. /\ record' = [state |-> "cleanup_ready", started |-> FALSE] \/ record' = record
        /\ Moves(p, "leave")
    BY <2>1, WriteEffect
  <2> QED
    BY <1>1, <2>1, <2>2, <2>3
       DEF Quiet, Moves, ActiveIsOwned, ClosedIsGone, StepsKept, RecordKept, TypeOK
<1>2. CASE CleanupBegins(p)
  <2> DEFINE next == IF seen[p].locked THEN "unlock" ELSE "remove"
  <2>1. lock = p /\ record.state = "cleanup_ready" /\ Quiet
        /\ \/ /\ record.started /\ Continue(p, next) /\ record' = record
           \/ ~record.started /\ Write(p, "cleanup_ready", TRUE, next)
    BY <1>2 DEF CleanupBegins, Holds
  <2>2. next \in {"unlock", "remove"}
    OBVIOUS
  <2> HIDE DEF next
  <2>3. /\ \/ record' = record /\ Moves(p, "leave")
           \/ /\ record'.state = "cleanup_ready" /\ record'.started
              /\ Moves(p, next) \/ Moves(p, "leave")
        /\ TypeOK'
    <3>1. CASE record.started /\ Continue(p, next) /\ record' = record
      BY <2>1, <2>2, <3>1, MoveTyped DEF Quiet, Continue, Moves, ActiveIsOwned, TypeOK
    <3>2. CASE ~record.started /\ Write(p, "cleanup_ready", TRUE, next)
      <4>1. TypeOK'
        BY <2>1, <2>2, <3>2, WriteTyped, RankStates DEF ActiveIsOwned
      <4>2. \/ /\ record' = [state |-> "cleanup_ready", started |-> TRUE]
               /\ Moves(p, next) \/ Moves(p, "leave")
            \/ record' = record /\ Moves(p, "leave")
        BY <3>2, WriteEffect
      <4> QED
        BY <4>1, <4>2
    <3> QED
      BY <2>1, <3>1, <3>2
  <2> QED
    BY <2>1, <2>2, <2>3
       DEF Quiet, Moves, ActiveIsOwned, ClosedIsGone, StepsKept, RecordKept, TypeOK
<1>3. CASE UnlockTree(p)
  <2>1. lock = p /\ pc[p] = "unlock" /\ UNCHANGED <<record, dirty, branch, seen>>
        /\ (Moves(p, "remove") \/ Moves(p, "leave"))
    BY <1>3 DEF UnlockTree, Holds, Continue, Return, Moves
  <2>2. tree' = tree \/ tree' = [tree EXCEPT !.locked = FALSE]
    BY <1>3 DEF UnlockTree
  <2>3. tree' \in Trees /\ tree'.dir = tree.dir /\ tree'.entry = tree.entry
    BY <2>2 DEF ActiveIsOwned, TypeOK, Trees
  <2>4. TypeOK'
    BY <2>1, <2>3, MoveTyped DEF ActiveIsOwned, TypeOK
  <2> QED
    BY <2>1, <2>3, <2>4
       DEF Moves, ActiveIsOwned, ClosedIsGone, StepsKept, RecordKept, TypeOK
<1>4. CASE RemoveTree(p)
  <2>1. lock = p /\ pc[p] = "remove" /\ UNCHANGED <<record, dirty, branch, seen>>
        /\ (Moves(p, "close") \/ Moves(p, "leave"))
    BY <1>4 DEF RemoveTree, Holds, Continue, Return, Moves
  <2>2. tree' = tree \/ tree' = NoTree \/ tree' = [tree EXCEPT !.dir = FALSE]
    BY <1>4 DEF RemoveTree
  <2>3. tree' \in Trees /\ (tree'.dir => tree.dir) /\ (tree'.entry => tree.entry)
    <3>1. CASE tree' = tree
      BY <3>1 DEF ActiveIsOwned, TypeOK
    <3>2. CASE tree' = NoTree
      BY <3>2 DEF Trees, NoTree
    <3>3. CASE tree' = [tree EXCEPT !.dir = FALSE]
      BY <3>3 DEF ActiveIsOwned, TypeOK, Trees
    <3> QED
      BY <2>2, <3>1, <3>2, <3>3
  <2>4. TypeOK'
    BY <2>1, <2>3, MoveTyped DEF ActiveIsOwned, TypeOK
  <2> QED
    BY <2>1, <2>3, <2>4
       DEF Moves, ActiveIsOwned, ClosedIsGone, StepsKept, RecordKept, TypeOK
<1>5. CASE CloseTree(p) /\ branch
  <2>1. /\ lock = p /\ record.state = "cleanup_ready" /\ record.started
        /\ ~tree.dir /\ Quiet /\ Write(p, "closed", record.started, "leave")
    BY <1>5 DEF CloseTree, Holds, Removed, StepsKept
  <2>2. TypeOK'
    <3>1. TypeOK /\ record.started \in BOOLEAN
      BY DEF ActiveIsOwned, TypeOK
    <3> QED
      BY <2>1, <3>1, WriteTyped, RankStates
  <2>3. /\ record' = [state |-> "closed", started |-> record.started] \/ record' = record
        /\ Moves(p, "leave")
    BY <2>1, WriteEffect
  <2> QED
    BY <1>5, <2>1, <2>2, <2>3
       DEF Quiet, Moves, ActiveIsOwned, ClosedIsGone, StepsKept, RecordKept, TypeOK
<1>6. CASE lock = p /\ Refuse(p)
  BY <1>6, RefuseKeeps
<1> QED
  BY <1>1, <1>2, <1>3, <1>4, <1>5, <1>6 DEF Mark, CleanupRefused, CloseTree, Holds

\* Waiting for the lock, leaving and dying keep it.
LEMMA WaitingKeeps ==
    ASSUME IInv, NEW p \in Procs,
           \/ \E op \in Ops : Call(p, op) \/ Acquire(p, op)
           \/ GiveUp(p) \/ Leave(p) \/ Crash(p)
    PROVE  IInv'
<1> USE EpicWorkspacesAssumption DEF IInv
<1>1. ASSUME NEW op \in Ops, Call(p, op)
      PROVE  IInv'
  BY <1>1, RankStates
     DEF Call, Ops, bounds, ActiveIsOwned, TypeOK, ClosedIsGone, StepsKept, RecordKept
<1>2. ASSUME NEW op \in Ops, Acquire(p, op)
      PROVE  IInv'
  BY <1>2, RankStates
     DEF Acquire, Ops, bounds, ActiveIsOwned, TypeOK, ClosedIsGone, StepsKept, RecordKept
<1>3. CASE GiveUp(p)
  BY <1>3 DEF GiveUp, Ops, bounds, ActiveIsOwned, TypeOK, ClosedIsGone, StepsKept, RecordKept
<1>4. CASE Leave(p)
  BY <1>4 DEF Leave, Holds, Quiet, ActiveIsOwned, TypeOK, ClosedIsGone, StepsKept, RecordKept
<1>5. CASE Crash(p)
  <2>1. lock = p /\ lock' = Dead /\ pc' = [pc EXCEPT ![p] = "idle"]
        /\ UNCHANGED <<record, dirty, seen>>
    BY <1>5 DEF Crash
  <2>2. \/ UNCHANGED <<tree, branch>>
        \/ pc[p] = "add" /\ branch' = TRUE /\ tree' = tree
        \/ /\ pc[p] = "remove"
           /\ tree' = [tree EXCEPT !.dir = FALSE] /\ branch' = branch
    BY <1>5 DEF Crash
  <2>3. tree' \in Trees /\ branch' \in BOOLEAN /\ (tree'.dir => tree.dir)
        /\ tree'.entry = tree.entry
    BY <2>2 DEF ActiveIsOwned, TypeOK, Trees
  <2>4. TypeOK'
    BY <2>1, <2>3 DEF ActiveIsOwned, TypeOK
  <2> QED
    BY <2>1, <2>2, <2>3, <2>4
       DEF ActiveIsOwned, TypeOK, ClosedIsGone, StepsKept, RecordKept
<1> QED
  BY <1>1, <1>2, <1>3, <1>4, <1>5

\* So does what people do meanwhile.
LEMMA PeopleKeep ==
    ASSUME IInv, OperatorRemovesLock \/ OperatorPrunes \/ Edit \/ Commit
    PROVE  IInv'
<1> USE EpicWorkspacesAssumption DEF IInv
<1>1. CASE OperatorRemovesLock
  BY <1>1 DEF OperatorRemovesLock, bounds, ActiveIsOwned, TypeOK, ClosedIsGone,
              StepsKept, RecordKept
<1>2. CASE OperatorPrunes
  <2>1. tree.entry /\ ~tree.dir /\ tree' = NoTree
        /\ UNCHANGED <<record, dirty, branch, lock, pc, seen>>
    BY <1>2 DEF OperatorPrunes
  <2>2. tree' \in Trees /\ ~tree'.dir /\ ~tree'.entry
    BY <2>1 DEF NoTree, Trees
  <2> QED
    BY <2>1, <2>2 DEF ActiveIsOwned, TypeOK, ClosedIsGone, StepsKept, RecordKept
<1>3. CASE Edit \/ Commit
  <2>1. dirty' \in BOOLEAN /\ UNCHANGED <<record, tree, branch, lock, pc, seen>>
    BY <1>3 DEF Edit, Commit
  <2> QED
    BY <2>1 DEF ActiveIsOwned, TypeOK, ClosedIsGone, StepsKept, RecordKept
<1> QED
  BY <1>1, <1>2, <1>3

\* The invariant is inductive.
LEMMA NextInv == IInv /\ [Next]_vars => IInv'
<1> SUFFICES ASSUME IInv, [Next]_vars PROVE IInv'
  OBVIOUS
<1>1. ASSUME NEW p \in Procs, Step(p) \/ Crash(p) \/ \E op \in Ops : Call(p, op)
      PROVE  IInv'
  BY <1>1, CreationKeeps, RemovalKeeps, WaitingKeeps DEF Step
<1>2. CASE UNCHANGED vars
  BY <1>2 DEF vars, IInv, ActiveIsOwned, TypeOK, ClosedIsGone, StepsKept, RecordKept
<1> QED
  BY <1>1, <1>2, PeopleKeep DEF Next

\* The invariant holds of every behaviour.
LEMMA Invariant == Spec => []IInv
<1> QED
  BY InitInv, NextInv, PTL DEF Spec

\* The state is well typed, calls are serialised by the lock directory, and the
\* worktree of an active Epic is registered, locked and on its branch, whatever
\* fails or dies while it is made (ensureWorkspace).
THEOREM ActiveStaysOwned == Spec => []ActiveIsOwned
<1>1. IInv => ActiveIsOwned
  BY DEF IInv
<1> QED
  BY <1>1, Invariant, PTL

\* Closure is recorded only once the directory is gone, and the branch is kept,
\* also by calls that looked at Git before they waited for the lock
\* (cleanupWorkspace).
THEOREM ClosedStaysGone == Spec => []ClosedIsGone
<1>1. IInv => ClosedIsGone
  BY DEF IInv
<1> QED
  BY <1>1, Invariant, PTL

\* No step removes a directory with work in it that is not committed, whatever
\* the call saw of it before.
THEOREM WorkIsKept == Spec => WorkKept
<1>1. ASSUME IInv, [Next]_vars, tree.dir, dirty
      PROVE  tree'.dir
  <2>1. ASSUME NEW p \in Procs, AddTree(p)
        PROVE  tree'.dir
    BY <1>1, <2>1 DEF AddTree
  <2>2. ASSUME NEW p \in Procs, LockTree(p) \/ EnsureResumes(p) \/ UnlockTree(p)
        PROVE  tree'.dir
    <3>1. \/ tree' = tree \/ tree' = [tree EXCEPT !.locked = TRUE]
          \/ tree' = [tree EXCEPT !.locked = FALSE]
      BY <2>2 DEF LockTree, EnsureResumes, UnlockTree, Quiet, Refuse
    <3> QED
      BY <1>1, <3>1 DEF IInv, ActiveIsOwned, TypeOK, Trees
  <2>3. ASSUME NEW p \in Procs, RemoveTree(p) \/ Crash(p)
        PROVE  tree'.dir
    BY <1>1, <2>3 DEF RemoveTree, Crash, Removable
  <2>4. CASE OperatorPrunes
    BY <1>1, <2>4 DEF OperatorPrunes
  <2>5. CASE UNCHANGED tree
    BY <1>1, <2>5
  <2> QED
    BY <1>1, <2>1, <2>2, <2>3, <2>4, <2>5
       DEF Next, Step, vars, Call, Acquire, GiveUp, Leave, EnsureCreates, Confirm,
           EnsureReturns, Mark, CleanupBegins, CleanupRefused, CloseTree, Quiet,
           Refuse, OperatorRemovesLock, Edit, Commit
<1> QED
  BY <1>1, Invariant, PTL DEF Spec, WorkKept

\* The steps of a record.
RecordStep ==
    \/ record' = record
    \/ record.state = "absent" /\ record' = [state |-> "creating", started |-> FALSE]
    \/ record.state = "creating" /\ record' = [state |-> "active", started |-> FALSE]
    \/ record.state = "active" /\ record' = [state |-> "cleanup_ready", started |-> FALSE]
    \/ record.state = "cleanup_ready" /\ record' = [state |-> "cleanup_ready", started |-> TRUE]
    \/ record.state = "cleanup_ready" /\ record' = [state |-> "closed", started |-> TRUE]

\* No step skips a state of the record, nor announces a cleanup twice.
LEMMA RecordSteps == IInv /\ [Next]_vars => RecordStep
<1> SUFFICES ASSUME IInv, [Next]_vars PROVE RecordStep
  OBVIOUS
<1> USE DEF IInv, StepsKept, RecordKept, RecordStep, Holds
<1>1. ASSUME NEW p \in Procs, EnsureCreates(p)
      PROVE  RecordStep
  BY <1>1, WriteEffect DEF EnsureCreates
<1>2. ASSUME NEW p \in Procs, Confirm(p) \/ EnsureResumes(p)
      PROVE  RecordStep
  <2>1. record.state = "creating" /\ ~record.started /\ record.started \in BOOLEAN
    BY <1>2 DEF Confirm, EnsureResumes, ActiveIsOwned, TypeOK
  <2>2. record' = [state |-> "active", started |-> record.started] \/ record' = record
    BY <1>2, WriteEffect DEF Confirm, EnsureResumes, Refuse
  <2> QED
    BY <2>1, <2>2
<1>3. ASSUME NEW p \in Procs, Mark(p)
      PROVE  RecordStep
  BY <1>3, WriteEffect DEF Mark, Refuse
<1>4. ASSUME NEW p \in Procs, CleanupBegins(p)
      PROVE  RecordStep
  BY <1>4, WriteEffect DEF CleanupBegins
<1>5. ASSUME NEW p \in Procs, CloseTree(p)
      PROVE  RecordStep
  <2>1. record.state = "cleanup_ready" /\ record.started /\ record.started \in BOOLEAN
    BY <1>5 DEF CloseTree, Removed, ActiveIsOwned, TypeOK
  <2>2. record' = [state |-> "closed", started |-> record.started] \/ record' = record
    BY <1>5, WriteEffect DEF CloseTree, Refuse
  <2> QED
    BY <2>1, <2>2
<1> QED
  BY <1>1, <1>2, <1>3, <1>4, <1>5
     DEF Next, Step, vars, Call, Acquire, GiveUp, Leave, AddTree, LockTree,
         EnsureReturns, CleanupRefused, UnlockTree, RemoveTree, Crash,
         Refuse, OperatorRemovesLock, OperatorPrunes, Edit, Commit

\* The life of a worktree never goes backwards, although mark and cleanup act on
\* what they saw before they waited for the lock.
THEOREM LifecycleOnlyForward == Spec => LifecycleForward
<1>1. ASSUME IInv, RecordStep
      PROVE  /\ Rank[record.state] <= Rank[record'.state]
             /\ record.started => record'.started
  <2>1. CASE record' = record
    BY <1>1, <2>1, RankStates DEF IInv, ActiveIsOwned, TypeOK, Rank
  <2>2. record.started => record.state \in {"cleanup_ready", "closed"}
    BY <1>1 DEF IInv, RecordKept
  <2> QED
    BY <1>1, <2>1, <2>2 DEF RecordStep, Rank
<1> QED
  BY <1>1, RecordSteps, Invariant, PTL DEF Spec, LifecycleForward

\* The lifecycle as a session that adopts the worktree reads it (adoptV1
\* refuses one that is still being created).
Adoptable == IF record.state \in {"absent", "creating"} THEN "absent" ELSE record.state

\* Seen from there, the provider takes exactly the steps that ExecutionContext
\* assumes of it (LegacyChange), one at a time and none backwards.
THEOREM ChangesAsAssumed ==
    Spec => /\ Adoptable = "absent"
            /\ [][\/ Adoptable = "absent" /\ Adoptable' = "active"
                  \/ Adoptable = "active" /\ Adoptable' = "cleanup_ready"
                  \/ Adoptable = "cleanup_ready" /\ Adoptable' = "closed"]_Adoptable
<1>1. Init => Adoptable = "absent"
  BY DEF Init, Adoptable
<1>2. RecordStep =>
          [\/ Adoptable = "absent" /\ Adoptable' = "active"
           \/ Adoptable = "active" /\ Adoptable' = "cleanup_ready"
           \/ Adoptable = "cleanup_ready" /\ Adoptable' = "closed"]_Adoptable
  BY DEF RecordStep, Adoptable
<1> QED
  BY <1>1, <1>2, RecordSteps, Invariant, PTL DEF Spec
=============================================================================
