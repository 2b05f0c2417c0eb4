-------------------------- MODULE MCExecutionLock ---------------------------
(* Instances of ExecutionLock for TLC. *)
EXTENDS ExecutionLock

CONSTANTS p1, p2, p3

TwoProcs == {p1, p2}
ThreeProcs == {p1, p2, p3}
OneUnprovable == {p2}
Nobody == {}
=============================================================================
