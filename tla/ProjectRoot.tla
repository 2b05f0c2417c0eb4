----------------------------- MODULE ProjectRoot -----------------------------
(***************************************************************************)
(* resolveProjectRoot of extensions/generic-tools/execution-routing.ts:    *)
(* the root a session's work belongs in, over the registry of              *)
(* ContextRegistry, the configuration and Git's worktrees.                 *)
(*                                                                         *)
(* A transition of the registry is one step of ContextRegistry, and a      *)
(* resolution reads it at one instant, but the switch of the configuration *)
(* before that; ExecutionContext has the steps the transitions are made    *)
(* of.  What a call checks beyond the state here (a clean primary          *)
(* checkout, the canonical Epic) may make it fail and nothing else, which  *)
(* is a call that is not made.                                             *)
(***************************************************************************)
EXTENDS RegistryRules, FiniteSets

CONSTANTS
    Primary,    \* the main checkout
    MaxMissing  \* bound: worktrees missing at a time

Places == Workspaces \cup {Primary}

ASSUME PrimaryAssumption ==
    /\ Primary \notin Workspaces /\ None \notin Places
    /\ MaxMissing \in Nat

VARIABLES
    workspaces, bindings,  \* the registry of ContextRegistry
    routing,  \* skills.cvs.workspaces of the configuration
    missing   \* workspaces whose worktree or ownership lock is not in Git

registry == <<workspaces, bindings>>
control  == <<registry, routing, missing>>

Registry == INSTANCE ContextRegistry

ControlTypeOK ==
    /\ Registry!TypeOK
    /\ routing \in BOOLEAN /\ missing \subseteq Workspaces

ControlInit == Registry!Init /\ routing \in BOOLEAN /\ missing = {}

-----------------------------------------------------------------------------
(* Resolution *)

IsBound(binding) == binding # None /\ binding.bound

\* assertBindingMatchesWorkspace
Matches(binding) ==
    /\ workspaces[binding.ws] # None
    /\ binding.epic = workspaces[binding.ws].epic
    /\ binding.wsGen = workspaces[binding.ws].gen

\* Mutant: a binding is good as long as its worktree is there.
ResolvesStale(s) ==
    /\ routing /\ IsBound(bindings[s])
    /\ bindings[s].ws \notin missing
\* ExecutionContextProvider.resolve
Resolves(s) ==
    /\ routing /\ IsBound(bindings[s])
    /\ Matches(bindings[s])
    /\ bindings[s].ws \notin missing

\* Mutant: with routing disabled, the bindings are not looked at.
HasRootByConfig(s, on) == IF on THEN Resolves(s) ELSE TRUE
(***************************************************************************)
(* resolveProjectRoot: what it throws at, and what it returns.  It reads   *)
(* the switch first and the binding then; on is what it read, which may no *)
(* longer be so when it comes to the binding.                              *)
(***************************************************************************)
HasRoot(s, on) == IF on THEN Resolves(s) ELSE ~IsBound(bindings[s])
Root(s, on)    == IF on THEN bindings[s].ws ELSE Primary

-----------------------------------------------------------------------------
(* Transitions of the registry; they all need routing to be enabled. *)

\* allocateProvisional and adoptV1
Open(s, w, e, gen) ==
    /\ routing
    /\ Registry!Open(s, w, e, gen)
    /\ UNCHANGED <<routing, missing>>

Attach(s, e) ==
    /\ Resolves(s)
    /\ Registry!Attach(s, e)
    /\ UNCHANGED <<routing, missing>>

\* bindSession, to another workspace or after a release.
Bind(s, w) ==
    /\ routing /\ w \notin missing
    /\ IsBound(bindings[s]) => bindings[s].ws # w
    /\ Registry!Bind(s, w)
    /\ UNCHANGED <<routing, missing>>

Release(s) ==
    /\ routing
    /\ Registry!Release(s)
    /\ UNCHANGED <<routing, missing>>

(* The environment *)

\* Somebody edits the configuration.
SetRouting ==
    /\ routing' = ~routing
    /\ UNCHANGED <<registry, missing>>

\* Somebody removes, moves or unlocks a worktree, or puts it back.
ChangeTopology(w) ==
    /\ workspaces[w] # None
    /\ missing' = IF w \in missing THEN missing \ {w} ELSE missing \cup {w}
    /\ Cardinality(missing') <= MaxMissing
    /\ UNCHANGED <<registry, routing>>
=============================================================================
