--------------------------- MODULE RepositoryLock ---------------------------
(***************************************************************************)
(* What withRepositoryLock of extensions/generic-tools/execution-context.ts*)
(* promises to the calls that run under it: ExecutionContext takes one of  *)
(* them at a time, and ExecutionLock is how the lock is kept.              *)
(***************************************************************************)
CONSTANT Procs  \* processes that use the repository

VARIABLES
    lock,  \* the owner recorded in the lock file
    pc     \* where each process is in withRepositoryLock

Dead(p) == pc[p] = "dead"

-----------------------------------------------------------------------------
(* Properties *)

\* Two operations never run at once, whoever died and whoever recovered.
MutualExclusion ==
    \A p, q \in Procs : pc[p] = "critical" /\ pc[q] = "critical" => p = q

\* The lock of a live process disappears only when that process removes it.
LiveLockKept ==
    [][\A p \in Procs : lock = p /\ ~Dead(p) /\ lock' # p =>
           pc[p] = "remove" /\ pc'[p] = "idle"]_<<lock, pc>>
=============================================================================
