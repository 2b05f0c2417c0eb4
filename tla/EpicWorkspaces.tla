--------------------------- MODULE EpicWorkspaces ----------------------------
(***************************************************************************)
(* The Git worktree of one Epic, as extensions/generic-tools/workspaces.ts *)
(* creates and removes it.  A record in the Git common directory announces *)
(* each step; a lock directory admits one call at a time.  Git commands    *)
(* fail, time out after they took effect, or are cut off half-way; a       *)
(* process may die at any point; people work in the worktree meanwhile.    *)
(***************************************************************************)
EXTENDS Naturals

CONSTANTS
    Procs,       \* processes that call the tools
    NoOne,       \* nobody holds the lock
    Dead,        \* the lock was left behind, by a death or a failed release
    MaxFaults,   \* bound: failing commands and writes in a behaviour
    MaxCrashes,  \* bound: process deaths in a behaviour
    MaxEdits     \* bound: how often the worktree becomes dirty

ASSUME EpicWorkspacesAssumption ==
    /\ NoOne \notin Procs /\ Dead \notin Procs /\ NoOne # Dead
    /\ MaxFaults \in Nat /\ MaxCrashes \in Nat /\ MaxEdits \in Nat

VARIABLES
    record,  \* the record of the Epic: its state, and has cleanup started?
    tree,    \* the worktree: its directory, its entry in Git, Git's lock on it
    dirty,   \* it has changes that are not committed
    branch,  \* the branch of the Epic exists
    lock,    \* who holds the lock directory
    pc,      \* what each process does
    seen,    \* the worktree as the process saw it before it took the lock
    faults, crashes, edits

bounds == <<faults, crashes, edits>>
vars   == <<record, tree, dirty, branch, lock, pc, seen, bounds>>

\* The states of a record, in the order of its life.
Rank == [absent |-> 0, creating |-> 1, active |-> 2, cleanup_ready |-> 3, closed |-> 4]
Ops == {"ensure", "mark", "cleanup"}
Trees == [dir : BOOLEAN, entry : BOOLEAN, locked : BOOLEAN]
NoTree == [dir |-> FALSE, entry |-> FALSE, locked |-> FALSE]

-----------------------------------------------------------------------------
(* Observations *)

\* reconcileResult: how the worktree, with Git's entry as observed, differs
\* from what a record that is not closed says.
Blockers(entry) ==
    (IF tree.dir THEN {} ELSE {"workspace_missing"}) \cup
    (IF ~entry.entry THEN {"registration_missing"}
     ELSE (IF entry.locked THEN {} ELSE {"ownership_lock_mismatch"}) \cup
          (IF tree.dir /\ dirty THEN {"workspace_dirty"} ELSE {}))

\* Mutant: an unlocked worktree always blocks.
CleanupBlockersStrict(entry) == Blockers(entry)
\* reconcileCleanup: a cleanup that started may have unlocked the worktree.
CleanupBlockers(entry) ==
    Blockers(entry) \ (IF record.started THEN {"ownership_lock_mismatch"} ELSE {})

\* Mutant: Git's word is enough.
RemovedEntry(entry) == record.started /\ ~entry.entry
\* ... and may have removed it.
Removed(entry) == record.started /\ ~entry.entry /\ ~tree.dir

-----------------------------------------------------------------------------
(* Steps of a call *)

Holds(p, step) == lock = p /\ pc[p] = step
Continue(p, step) == pc' = [pc EXCEPT ![p] = step] /\ UNCHANGED lock
\* The call returns or throws, once it has removed the lock directory.
Return(p) == Continue(p, "leave")

Fault == faults < MaxFaults /\ faults' = faults + 1

\* writeState, then the next step.  A rename that fails changes nothing; one
\* whose directory cannot be synchronised throws but has taken effect.
Write(p, state, started, next) ==
    \/ /\ record' = [state |-> state, started |-> started]
       /\ \/ Continue(p, next) /\ UNCHANGED faults
          \/ Fault /\ Return(p)
    \/ UNCHANGED record /\ Fault /\ Return(p)

\* Nothing but the call moves.
Quiet == UNCHANGED <<tree, dirty, branch, seen, crashes, edits>>

Refuse(p) == Return(p) /\ Quiet /\ UNCHANGED <<record, faults>>

-----------------------------------------------------------------------------
Init ==
    /\ record = [state |-> "absent", started |-> FALSE]
    /\ tree = NoTree /\ dirty = FALSE /\ branch = FALSE
    /\ lock = NoOne
    /\ pc = [p \in Procs |-> "idle"] /\ seen = [p \in Procs |-> NoTree]
    /\ faults = 0 /\ crashes = 0 /\ edits = 0

\* loadContext observes the repository before the lock is taken.
Call(p, op) ==
    /\ pc[p] = "idle"
    /\ pc' = [pc EXCEPT ![p] = op]
    /\ seen' = [seen EXCEPT ![p] = tree]
    /\ UNCHANGED <<record, tree, dirty, branch, lock, bounds>>

Acquire(p, op) ==
    /\ pc[p] = op /\ lock = NoOne /\ lock' = p
    /\ UNCHANGED <<record, tree, dirty, branch, pc, seen, bounds>>

\* The lock is busy for too long.
GiveUp(p) ==
    /\ pc[p] \in Ops /\ lock \notin {NoOne, p}
    /\ pc' = [pc EXCEPT ![p] = "idle"]
    /\ UNCHANGED <<record, tree, dirty, branch, lock, seen, bounds>>

\* A release that fails leaves the lock behind.
Leave(p) ==
    /\ Holds(p, "leave") /\ pc' = [pc EXCEPT ![p] = "idle"]
    /\ \/ lock' = NoOne /\ UNCHANGED faults
       \/ Fault /\ lock' = Dead
    /\ Quiet /\ UNCHANGED record

-----------------------------------------------------------------------------
(* ensureWorkspace *)

\* assertCreationIdentitiesAvailable: the path and the branch are free.
Available == ~tree.dir /\ ~tree.entry /\ ~branch

EnsureCreates(p) ==
    /\ Holds(p, "ensure") /\ record.state = "absent" /\ Available
    /\ Write(p, "creating", FALSE, "add")
    /\ Quiet

\* git worktree add -b: the branch, then the worktree.
AddTree(p) ==
    /\ Holds(p, "add")
    /\ \/ /\ branch' = TRUE
          /\ tree' = [dir |-> TRUE, entry |-> TRUE, locked |-> FALSE]
          /\ \/ Continue(p, "lock") /\ UNCHANGED faults
             \/ Fault /\ Return(p)
       \/ Fault /\ branch' \in BOOLEAN /\ UNCHANGED tree /\ Return(p)
    /\ UNCHANGED <<record, dirty, seen, crashes, edits>>

\* git worktree lock fails, with or without effect: what matters is what is
\* observed afterwards.
LockTree(p) ==
    /\ Holds(p, "lock")
    /\ \/ tree' = [tree EXCEPT !.locked = TRUE] /\ UNCHANGED faults
       \/ Fault /\ tree' \in {tree, [tree EXCEPT !.locked = TRUE]}
    /\ Continue(p, "confirm")
    /\ UNCHANGED <<record, dirty, branch, seen, crashes, edits>>

\* Mutant: what the commands left is not looked at.
ConfirmBlindly(p) ==
    /\ Holds(p, "confirm") /\ Write(p, "active", record.started, "leave") /\ Quiet
Confirm(p) ==
    /\ Holds(p, "confirm")
    /\ IF Blockers(tree) = {}
       THEN Write(p, "active", record.started, "leave") /\ Quiet
       ELSE Refuse(p)

\* Mutant: an interrupted creation is never repaired.
EnsureOnlyExact(p) ==
    /\ Holds(p, "ensure") /\ record.state = "creating"
    /\ IF Blockers(tree) = {} THEN Write(p, "active", FALSE, "leave") /\ Quiet ELSE Refuse(p)
\* A creation that was interrupted is taken up where only the lock is missing.
EnsureResumes(p) ==
    /\ Holds(p, "ensure") /\ record.state = "creating"
    /\ CASE Blockers(tree) = {} -> Write(p, "active", record.started, "leave") /\ Quiet
         [] Blockers(tree) = {"ownership_lock_mismatch"} ->
                /\ \/ /\ Continue(p, "confirm") /\ UNCHANGED faults
                      /\ tree' = [tree EXCEPT !.locked = TRUE]
                   \/ /\ Fault /\ Return(p)
                      /\ tree' \in {tree, [tree EXCEPT !.locked = TRUE]}
                /\ UNCHANGED <<record, dirty, branch, seen, crashes, edits>>
         [] OTHER -> Refuse(p)

\* An existing worktree is returned or reported; a closed one stays closed; a
\* new one is refused, also for a primary checkout that is not clean.
EnsureReturns(p) == Holds(p, "ensure") /\ record.state # "creating" /\ Refuse(p)

-----------------------------------------------------------------------------
(* markWorkspaceCleanupReady and cleanupWorkspace, with the entry as it was *)
(* seen before the lock was taken                                           *)

\* Mutant: the state of the record is not read under the lock.
MarkAnyState(p) ==
    /\ Holds(p, "mark")
    /\ IF Blockers(seen[p]) = {}
       THEN Write(p, "cleanup_ready", FALSE, "leave") /\ Quiet
       ELSE Refuse(p)
Mark(p) ==
    /\ Holds(p, "mark")
    /\ IF record.state = "active" /\ Blockers(seen[p]) = {}
       THEN Write(p, "cleanup_ready", FALSE, "leave") /\ Quiet
       ELSE Refuse(p)

\* beginCleanup writes the record unless an earlier cleanup did.
CleanupBegins(p) ==
    LET next == IF seen[p].locked THEN "unlock" ELSE "remove"
    IN  /\ Holds(p, "cleanup") /\ record.state = "cleanup_ready"
        /\ ~Removed(seen[p]) /\ CleanupBlockers(seen[p]) = {}
        /\ IF record.started THEN Continue(p, next) /\ UNCHANGED <<record, faults>>
                             ELSE Write(p, "cleanup_ready", TRUE, next)
        /\ Quiet

CleanupRefused(p) ==
    /\ Holds(p, "cleanup")
    /\ record.state = "cleanup_ready" =>
           ~Removed(seen[p]) /\ CleanupBlockers(seen[p]) # {}
    /\ Refuse(p)

\* git worktree unlock fails on a worktree that is not locked any more.
UnlockTree(p) ==
    /\ Holds(p, "unlock")
    /\ \/ /\ tree.entry /\ tree.locked
          /\ tree' = [tree EXCEPT !.locked = FALSE]
          /\ \/ Continue(p, "remove") /\ UNCHANGED faults
             \/ Fault /\ Return(p)
       \/ ~(tree.entry /\ tree.locked) /\ UNCHANGED <<tree, faults>> /\ Return(p)
       \/ Fault /\ UNCHANGED tree /\ Return(p)
    /\ UNCHANGED <<record, dirty, branch, seen, crashes, edits>>

Removable == tree.dir /\ tree.entry /\ ~tree.locked /\ ~dirty

\* Mutant: git worktree remove --force.
RemoveTreeByForce(p) ==
    /\ Holds(p, "remove") /\ tree' = NoTree /\ dirty' = FALSE
    /\ Continue(p, "close")
    /\ UNCHANGED <<record, branch, seen, bounds>>

\* git worktree remove deletes the directory, then the entry.  Without force
\* it refuses a worktree that is dirty, which may have happened since the
\* check, or locked.
RemoveTree(p) ==
    /\ Holds(p, "remove")
    /\ \/ /\ Removable /\ tree' = NoTree
          /\ \/ Continue(p, "close") /\ UNCHANGED faults
             \/ Fault /\ Return(p)
       \/ /\ Removable /\ tree' = [tree EXCEPT !.dir = FALSE]
          /\ Fault /\ Return(p)
       \/ ~Removable /\ UNCHANGED <<tree, faults>> /\ Return(p)
       \/ Fault /\ UNCHANGED tree /\ Return(p)
    /\ UNCHANGED <<record, dirty, branch, seen, crashes, edits>>

\* closeRemovedWorkspace, after the removal or for an earlier one.
CloseTree(p) ==
    /\ \/ Holds(p, "close") /\ ~tree.dir /\ ~tree.entry
       \/ Holds(p, "cleanup") /\ record.state = "cleanup_ready" /\ Removed(seen[p])
    /\ IF branch THEN Write(p, "closed", record.started, "leave") /\ Quiet
                 ELSE Refuse(p)

-----------------------------------------------------------------------------
(* The environment *)

\* The process dies; Git's own command may be cut off between the branch, the
\* directory and the entry.
Crash(p) ==
    /\ lock = p /\ crashes < MaxCrashes /\ crashes' = crashes + 1
    /\ pc' = [pc EXCEPT ![p] = "idle"] /\ lock' = Dead
    /\ \/ UNCHANGED <<tree, branch>>
       \/ pc[p] = "add" /\ branch' = TRUE /\ UNCHANGED tree
       \/ /\ pc[p] = "remove" /\ Removable
          /\ tree' = [tree EXCEPT !.dir = FALSE] /\ UNCHANGED branch
    /\ UNCHANGED <<record, dirty, seen, faults, edits>>

OperatorRemovesLock ==
    /\ lock = Dead /\ lock' = NoOne
    /\ UNCHANGED <<record, tree, dirty, branch, pc, seen, bounds>>

\* git worktree prune drops an entry whose directory is gone.
OperatorPrunes ==
    /\ tree.entry /\ ~tree.dir /\ ~tree.locked
    /\ tree' = NoTree
    /\ UNCHANGED <<record, dirty, branch, lock, pc, seen, bounds>>

Edit ==
    /\ tree.dir /\ ~dirty /\ dirty' = TRUE
    /\ edits < MaxEdits /\ edits' = edits + 1
    /\ UNCHANGED <<record, tree, branch, lock, pc, seen, faults, crashes>>

Commit ==
    /\ tree.dir /\ dirty /\ dirty' = FALSE
    /\ UNCHANGED <<record, tree, branch, lock, pc, seen, bounds>>

-----------------------------------------------------------------------------
Step(p) ==
    \/ (\E op \in Ops : Acquire(p, op)) \/ GiveUp(p) \/ Leave(p)
    \/ EnsureCreates(p) \/ AddTree(p) \/ LockTree(p) \/ Confirm(p)
    \/ EnsureResumes(p) \/ EnsureReturns(p)
    \/ Mark(p)
    \/ CleanupBegins(p) \/ CleanupRefused(p) \/ UnlockTree(p) \/ RemoveTree(p)
    \/ CloseTree(p)

Next ==
    \/ \E p \in Procs :
           \/ \E op \in Ops : Call(p, op)
           \/ Step(p) \/ Crash(p)
    \/ OperatorRemovesLock \/ OperatorPrunes \/ Edit \/ Commit

Spec == Init /\ [][Next]_vars

\* Calls run to their end; the operator clears what a dead process left; work
\* is committed in the end.
Fairness ==
    /\ \A p \in Procs : WF_vars(Step(p))
    /\ WF_vars(OperatorRemovesLock) /\ WF_vars(OperatorPrunes) /\ WF_vars(Commit)

FairSpec == Spec /\ Fairness
-----------------------------------------------------------------------------
(* Properties *)

TypeOK ==
    /\ record \in [state : DOMAIN Rank, started : BOOLEAN]
    /\ tree \in Trees /\ dirty \in BOOLEAN /\ branch \in BOOLEAN
    /\ lock \in Procs \cup {NoOne, Dead}
    /\ pc \in [Procs -> {"idle", "ensure", "add", "lock", "confirm", "mark",
                         "cleanup", "unlock", "remove", "close", "leave"}]
    /\ seen \in [Procs -> Trees]
    /\ \A p \in Procs :
           pc[p] \notin {"idle", "ensure", "mark", "cleanup"} => lock = p

\* The state is well typed and, whatever failed while it was made, the worktree
\* of an active Epic, and of one whose cleanup has not started, is registered,
\* locked and on its branch.
ActiveIsOwned ==
    /\ TypeOK
    /\ record.state \in {"active", "cleanup_ready"} /\ ~record.started =>
           tree.dir /\ tree.entry /\ tree.locked /\ branch

\* Closure is recorded only once the directory is gone, and the branch is
\* retained, also by a cleanup that looked at Git before it waited for the lock.
\* (Git's entry may be left: see the README.)
ClosedIsGone == record.state = "closed" => ~tree.dir /\ branch

\* Work that is not committed is never removed.
WorkKept == [][tree.dir /\ dirty => tree'.dir]_vars

\* The life of a worktree never goes backwards: calls that observed it before
\* they waited for the lock do not undo what happened meanwhile.
LifecycleForward ==
    [][/\ Rank[record.state] <= Rank[record'.state]
       /\ record.started => record'.started]_vars

\* A call that is repeated gets the lock again and again.
Repeated(op) == []<><<\E p \in Procs : Acquire(p, op)>>_vars

\* A creation interrupted once the worktree is there is completed by repeating
\* the call, and so is a cleanup that has started, however far it came.
CreationResumes ==
    Repeated("ensure") =>
        (record.state = "creating" /\ tree.entry ~> record.state # "creating")
CleanupResumes ==
    Repeated("cleanup") => (record.started ~> record.state = "closed")
=============================================================================
