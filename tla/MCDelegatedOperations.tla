----------------------- MODULE MCDelegatedOperations -----------------------
(***************************************************************************)
(* Two sessions, whose bindings may come to the same generations of the    *)
(* same workspace, an installation and a command.                          *)
(***************************************************************************)
EXTENDS DelegatedOperations, TLC

Symmetry ==
    Permutations(Sessions) \cup Permutations(Workspaces) \cup Permutations(Targets \ {None})
=============================================================================
