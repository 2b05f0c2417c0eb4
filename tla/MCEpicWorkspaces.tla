-------------------------- MODULE MCEpicWorkspaces ---------------------------
(* Instances of EpicWorkspaces for TLC. *)
EXTENDS EpicWorkspaces

TwoProcs == {"p", "q"}
=============================================================================
