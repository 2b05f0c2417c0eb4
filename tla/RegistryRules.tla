---------------------------- MODULE RegistryRules ---------------------------
(***************************************************************************)
(* The parameters and records that ContextRegistry and ExecutionContext    *)
(* share.                                                                  *)
(***************************************************************************)
EXTENDS Naturals

CONSTANTS
    Sessions,      \* host sessions (host and session key)
    Workspaces,    \* workspace identities, never used twice
    Epics,
    None,          \* the absence of a record, an Epic or a transaction
    MaxGeneration  \* bound: the generation of a binding

\* A workspace as its sessions see it, and a session's binding to one.
Workspace == [epic : Epics \cup {None}, gen : Nat \ {0}]
Binding   == [ws : Workspaces, epic : Epics \cup {None}, gen : Nat \ {0},
              wsGen : Nat \ {0}, bound : BOOLEAN]

ASSUME RegistryRulesAssumption ==
    None \notin Epics \cup Workspace \cup Binding /\ MaxGeneration \in Nat \ {0}
=============================================================================
