--------------------------- MODULE ContextRegistry ---------------------------
(***************************************************************************)
(* What extensions/generic-tools/execution-context.ts promises: a registry *)
(* of execution workspaces and of the host sessions bound to them, changed *)
(* by whole transitions.  Every transition of a record increments its      *)
(* generation, and a binding records the generation of its workspace.      *)
(***************************************************************************)
EXTENDS RegistryRules

VARIABLES workspaces, bindings
vars == <<workspaces, bindings>>

\* A binding to the present generation of a workspace.
Bound(w, workspace, gen) ==
    [ws |-> w, epic |-> workspace.epic, gen |-> gen, wsGen |-> workspace.gen,
     bound |-> TRUE]

NextGen(s) == IF bindings[s] = None THEN 1 ELSE bindings[s].gen + 1
MayChange(s) == NextGen(s) <= MaxGeneration

\* Mutant: nobody asks whether the Epic has a workspace.
EpicFreeAlways(e, w) == TRUE
\* No workspace other than w belongs to the Epic.
EpicFree(e, w) ==
    \A x \in Workspaces \ {w} : workspaces[x] # None => workspaces[x].epic # e

Init ==
    /\ workspaces = [w \in Workspaces |-> None]
    /\ bindings = [s \in Sessions |-> None]

\* Allocation and adoption: a new workspace, and an unbound session bound to it.
Open(s, w, e, gen) ==
    /\ bindings[s] = None /\ workspaces[w] = None
    /\ e # None => EpicFree(e, w)
    /\ workspaces' = [workspaces EXCEPT ![w] = [epic |-> e, gen |-> gen]]
    /\ bindings' = [bindings EXCEPT ![s] = Bound(w, workspaces'[w], 1)]

\* The session that is bound to the present generation attaches the workspace.
Attach(s, e) ==
    /\ bindings[s] # None /\ bindings[s].bound /\ MayChange(s)
    /\ LET w == bindings[s].ws
       IN  /\ workspaces[w] # None
           /\ bindings[s].wsGen = workspaces[w].gen
           /\ workspaces[w].epic = None
           /\ EpicFree(e, w)
           /\ workspaces' = [workspaces EXCEPT
                  ![w] = [epic |-> e, gen |-> workspaces[w].gen + 1]]
           /\ bindings' = [bindings EXCEPT
                  ![s] = Bound(w, workspaces'[w], NextGen(s))]

Bind(s, w) ==
    /\ workspaces[w] # None /\ MayChange(s)
    /\ bindings' = [bindings EXCEPT ![s] = Bound(w, workspaces[w], NextGen(s))]
    /\ UNCHANGED workspaces

Release(s) ==
    /\ bindings[s] # None /\ bindings[s].bound /\ MayChange(s)
    /\ bindings' = [bindings EXCEPT
           ![s] = [bindings[s] EXCEPT !.bound = FALSE, !.gen = NextGen(s)]]
    /\ UNCHANGED workspaces

Next == \E s \in Sessions :
    \/ \E w \in Workspaces, e \in Epics \cup {None}, gen \in {1, 2} : Open(s, w, e, gen)
    \/ \E e \in Epics : Attach(s, e)
    \/ \E w \in Workspaces : Bind(s, w)
    \/ Release(s)

Spec == Init /\ [][Next]_vars

-----------------------------------------------------------------------------
(* Properties *)

TypeOK ==
    /\ workspaces \in [Workspaces -> Workspace \cup {None}]
    /\ bindings \in [Sessions -> Binding \cup {None}]

\* An Epic has at most one workspace.
OneWorkspacePerEpic ==
    \A w, x \in Workspaces :
        /\ workspaces[w] # None /\ workspaces[x] # None
        /\ workspaces[w].epic = workspaces[x].epic
        /\ workspaces[w].epic # None
        => w = x

\* A binding speaks of a generation its workspace has reached, and when it is
\* the present one, of the workspace's Epic.
BindingsGrounded ==
    \A s \in Sessions : bindings[s] # None =>
        LET workspace == workspaces[bindings[s].ws]
        IN  /\ workspace # None
            /\ bindings[s].wsGen <= workspace.gen
            /\ bindings[s].wsGen = workspace.gen => bindings[s].epic = workspace.epic

\* A record is never deleted, and whatever changes it increments its
\* generation: a caller's expected generation is never met by another content.
GenerationsGrow ==
    [][/\ \A w \in Workspaces : workspaces[w] # None =>
             /\ workspaces'[w] # None
             /\ workspaces'[w] # workspaces[w] => workspaces'[w].gen > workspaces[w].gen
       /\ \A s \in Sessions : bindings[s] # None =>
             /\ bindings'[s] # None
             /\ bindings'[s] # bindings[s] => bindings'[s].gen > bindings[s].gen]_vars
=============================================================================
