---------------------------- MODULE ExecutionLock ---------------------------
(***************************************************************************)
(* The repository lock of extensions/generic-tools/execution-context.ts:   *)
(* a file that holds the evidence of its owner, created by link(2), and    *)
(* taken from an owner that is provably dead.  Several operating-system    *)
(* processes contend for it; each of them may die at any point.            *)
(*                                                                         *)
(* A process draws a fresh nonce for every call and makes one call at a    *)
(* time, so the process stands for the nonce in the lock file.             *)
(***************************************************************************)
EXTENDS RepositoryLock, Naturals, FiniteSets

CONSTANTS
    Unprovable,  \* those whose death cannot be proved: another host, or no
                 \* start token while the PID is in use again
    MaxDeaths,   \* bound: processes that die
    MaxFaults,   \* bound: reported file-system failures
    Free         \* the absence of the lock file

ASSUME ExecutionLockAssumption ==
    /\ Unprovable \subseteq Procs
    /\ Free \notin Procs
    /\ MaxDeaths \in Nat /\ MaxFaults \in Nat

VARIABLE faults  \* failures reported so far

vars == <<lock, pc, faults>>

(***************************************************************************)
(* "acquire": about to link the lock; "inspect": the link met a lock;      *)
(* "rename": read a dead owner, about to quarantine; "wait": between two   *)
(* attempts; "critical": the operation runs; "release": about to read the  *)
(* lock back; "remove": read its own nonce, about to remove the file.      *)
(***************************************************************************)
Points == {"idle", "acquire", "inspect", "rename", "wait", "critical",
           "release", "remove", "dead"}

Goto(p, point) == pc' = [pc EXCEPT ![p] = point]
Fault == faults < MaxFaults /\ faults' = faults + 1

Init ==
    /\ lock = Free
    /\ pc = [p \in Procs |-> "idle"]
    /\ faults = 0

Call(p) ==
    /\ pc[p] = "idle"
    /\ Goto(p, "acquire")
    /\ UNCHANGED <<lock, faults>>

-----------------------------------------------------------------------------
(* acquireLock *)

\* Mutant: rename(2) instead of link(2).
LinkReplaces(p) ==
    /\ pc[p] = "acquire"
    /\ lock' = p
    /\ Goto(p, "critical")
    /\ UNCHANGED faults

Link(p) ==
    /\ pc[p] = "acquire" /\ lock = Free
    /\ lock' = p
    /\ Goto(p, "critical")
    /\ UNCHANGED faults

\* The directory fsync after link(2) fails: the call gives up, its lock stays.
LinkFails(p) ==
    /\ pc[p] = "acquire" /\ lock = Free
    /\ Fault
    /\ lock' = p
    /\ Goto(p, "idle")

LinkExists(p) ==
    /\ pc[p] = "acquire" /\ lock # Free
    /\ Goto(p, "inspect")
    /\ UNCHANGED <<lock, faults>>

-----------------------------------------------------------------------------
(* recoverStaleLock *)

\* Mutants: an owner nobody can see is dead; nothing is stale.
InspectGuess(p) ==
    /\ pc[p] = "inspect"
    /\ IF lock # Free /\ (Dead(lock) \/ lock \in Unprovable)
       THEN Goto(p, "rename")
       ELSE Goto(p, "wait")
    /\ UNCHANGED <<lock, faults>>
InspectNone(p) ==
    /\ pc[p] = "inspect"
    /\ Goto(p, "wait")
    /\ UNCHANGED <<lock, faults>>

\* Only a lock whose owner is provably dead is taken away.
Inspect(p) ==
    /\ pc[p] = "inspect"
    /\ IF lock # Free /\ Dead(lock) /\ lock \notin Unprovable
       THEN Goto(p, "rename")
       ELSE Goto(p, "wait")
    /\ UNCHANGED <<lock, faults>>

\* The rename takes the lock file that is there by now, if any.
Quarantine(p) ==
    /\ pc[p] = "rename"
    /\ lock' = Free
    /\ Goto(p, "wait")
    /\ UNCHANGED faults

\* The removal of the quarantined file fails: so does the call.
QuarantineFails(p) ==
    /\ pc[p] = "rename"
    /\ Fault
    /\ lock' = Free
    /\ Goto(p, "idle")

Retry(p) ==
    /\ pc[p] = "wait"
    /\ Goto(p, "acquire")
    /\ UNCHANGED <<lock, faults>>

\* The deadline has passed: the lock is reported busy.
GiveUp(p) ==
    /\ pc[p] = "wait"
    /\ Goto(p, "idle")
    /\ UNCHANGED <<lock, faults>>

-----------------------------------------------------------------------------
(* The operation and the release *)

Finish(p) ==
    /\ pc[p] = "critical"
    /\ Goto(p, "release")
    /\ UNCHANGED <<lock, faults>>

ReadBack(p) ==
    /\ pc[p] = "release"
    /\ IF lock = p THEN Goto(p, "remove") ELSE Goto(p, "idle")
    /\ UNCHANGED <<lock, faults>>

Remove(p) ==
    /\ pc[p] = "remove"
    /\ lock' = Free
    /\ Goto(p, "idle")
    /\ UNCHANGED faults

RemoveFails(p) ==
    /\ pc[p] = "remove"
    /\ Fault
    /\ Goto(p, "idle")
    /\ UNCHANGED lock

Die(p) ==
    /\ ~Dead(p)
    /\ Cardinality({q \in Procs : Dead(q)}) < MaxDeaths
    /\ Goto(p, "dead")
    /\ UNCHANGED <<lock, faults>>

Step(p) == \/ Call(p) \/ Link(p) \/ LinkExists(p) \/ Inspect(p) \/ Quarantine(p)
           \/ Retry(p) \/ Finish(p) \/ ReadBack(p) \/ Remove(p)

Next == \E p \in Procs :
    \/ Step(p) \/ GiveUp(p) \/ Die(p)
    \/ LinkFails(p) \/ QuarantineFails(p) \/ RemoveFails(p)

Spec == Init /\ [][Next]_vars

(***************************************************************************)
(* A live process runs on: its code blocks on nothing but the wait, which  *)
(* the deadline bounds.  A session keeps issuing calls.                    *)
(***************************************************************************)
FairSpec == Spec /\ \A p \in Procs : WF_vars(Step(p))

-----------------------------------------------------------------------------
(* Properties *)

TypeOK ==
    /\ lock \in Procs \cup {Free}
    /\ pc \in [Procs -> Points]
    /\ faults \in Nat

\* A recovery takes away the lock it inspected, or none: no other process has
\* replaced it in between.
RecoversDeadLock ==
    \A p \in Procs : pc[p] = "rename" /\ pc'[p] # "rename" /\ lock' # lock =>
        Dead(lock)

\* The lock of a process that is provably dead does not block the others for
\* ever.
StaleLockRecovered ==
    \A p \in Procs \ Unprovable : lock = p /\ Dead(p) ~> lock # p
=============================================================================
