------------------------- MODULE DelegatedOperations -------------------------
(***************************************************************************)
(* extensions/generic-tools/operations.ts: processes that a session starts *)
(* under the consent to an immutable descriptor, the evidence they leave,  *)
(* and the coordinator that derives the next step of a bootstrap from it.  *)
(*                                                                         *)
(* A digest is the descriptor it is made of.  It names no session: consent *)
(* and evidence are the caller's to pass, in any session and at any time.  *)
(* That a workspace lifecycle is illegal for an operation, a runner has no *)
(* manifest, a worktree is missing or an Epic is not canonical is a call   *)
(* that is not made.                                                       *)
(***************************************************************************)
EXTENDS ProjectRoot

CONSTANTS
    Targets,     \* what automation.tasks may map an operation to, None if to nothing
    Operations,  \* the registered process operations in use
    MaxEvidence  \* bound: the evidence in the caller's hands

Install == "bootstrap.install"
Command == "command.exceptional"

ASSUME OperationsAssumption ==
    /\ Operations \subseteq {Install, "repository.build", "repository.format",
                             "repository.integration", "repository.lint",
                             "repository.quality", "repository.test", Command}
    /\ MaxEvidence \in Nat

TaskOperations == Operations \ {Command}

\* ws, gen and wsGen are None and 0 with routing disabled; cwd is the root.
Descriptor == [op : Operations, target : Targets \cup {None}, cwd : Places,
               ws : Workspaces \cup {None}, gen : Nat, wsGen : Nat]

\* What the session was bound to when a descriptor was built.
Reviewed == [descriptor : Descriptor, at : Binding \cup {None}]
Evidence == [descriptor : Descriptor, outcome : {"succeeded", "failed"},
             at : Binding \cup {None}]

VARIABLES
    tasks,     \* the configured target of each task operation
    consent,   \* the descriptor the user consented to last
    process,   \* the running process: what it runs under, and was agreed to
    evidence   \* what processes have left

vars == <<control, tasks, consent, process, evidence>>

-----------------------------------------------------------------------------
(* Descriptors *)

Present(s) == IF IsBound(bindings[s]) THEN bindings[s] ELSE None

CanBuild(s, op) == HasRoot(s, routing) /\ (op # Command => tasks[op] # None)
TargetOf(op)    == IF op = Command THEN None ELSE tasks[op]

\* Mutant: the descriptor names the workspace, and no generations.
BuildWithoutGenerations(s, op) ==
    [op |-> op, target |-> TargetOf(op), cwd |-> Root(s, routing),
     ws |-> IF routing THEN bindings[s].ws ELSE None, gen |-> 0, wsGen |-> 0]
\* buildTaskOperation, buildExceptionalCommand
Build(s, op) ==
    [op |-> op, target |-> TargetOf(op), cwd |-> Root(s, routing),
     ws    |-> IF routing THEN bindings[s].ws ELSE None,
     gen   |-> IF routing THEN bindings[s].gen ELSE 0,
     wsGen |-> IF routing THEN bindings[s].wsGen ELSE 0]

-----------------------------------------------------------------------------
Init ==
    /\ ControlInit
    /\ tasks \in [TaskOperations -> Targets]
    /\ consent = None /\ process = None
    /\ evidence = {}

\* operation_prepare, operation_prepare_command, and the user's consent.
Prepare(s, op) ==
    /\ CanBuild(s, op)
    /\ consent' = [descriptor |-> Build(s, op), at |-> Present(s)]
    /\ UNCHANGED <<control, tasks, process, evidence>>

Run(s, descriptor) ==
    process' = [descriptor |-> descriptor, at |-> Present(s),
                target |-> TargetOf(descriptor.op), agreed |-> consent.at]

\* Mutant: the prepared descriptor is executed as it was.
ExecutePrepared(s, op) ==
    /\ process = None /\ consent # None
    /\ consent.descriptor.op = op /\ HasRoot(s, routing)
    /\ Run(s, consent.descriptor)
    /\ UNCHANGED <<control, tasks, consent, evidence>>
\* operation_execute, operation_execute_command: the descriptor is built anew.
Execute(s, op) ==
    /\ process = None /\ consent # None
    /\ CanBuild(s, op) /\ Build(s, op) = consent.descriptor
    /\ Run(s, consent.descriptor)
    /\ UNCHANGED <<control, tasks, consent, evidence>>

\* The process ends.
Finish(outcome) ==
    /\ process # None
    /\ evidence' = evidence \cup {[descriptor |-> process.descriptor, outcome |-> outcome,
                                   at |-> process.at]}
    /\ Cardinality(evidence') <= MaxEvidence
    /\ process' = None
    /\ UNCHANGED <<control, tasks, consent>>

\* It is not found, times out, says too much, or its host dies.
Stop ==
    /\ process # None
    /\ process' = None
    /\ UNCHANGED <<control, tasks, consent, evidence>>

-----------------------------------------------------------------------------
(* deriveNextBootstrapOperation *)

\* Mutants: evidence of another generation of the workspace, or of any
\* operation in it, is as good.
MatchesWorkspace(e, s) ==
    e.descriptor.op = Install /\ e.descriptor.ws = bindings[s].ws
MatchesInstall(e, s) == e.descriptor = Build(s, Install)

\* What it throws at: epic is the Epic the caller names, None if there is none,
\* and given the evidence it passes.
Accepts(s, epic, given) ==
    /\ routing
    /\ IF ~IsBound(bindings[s]) THEN epic = None /\ given = {}
       ELSE /\ Resolves(s)
            /\ IF bindings[s].epic = None THEN given = {}
               ELSE /\ epic \in {None, bindings[s].epic}
                    /\ CanBuild(s, Install)
                    /\ \A e \in given : MatchesInstall(e, s)
                    /\ Cardinality(given) <= 1

\* The operation it calls for; it changes nothing.
NextOperation(s, epic, given) ==
    IF ~IsBound(bindings[s]) THEN "workspace.allocate_provisional"
    ELSE IF bindings[s].epic = None
         THEN IF epic = None THEN "authority.create" ELSE "workspace.attach_epic"
         ELSE IF \E e \in given : e.outcome = "succeeded" THEN "complete" ELSE Install

-----------------------------------------------------------------------------
SessionTool ==
    /\ \E s \in Sessions :
        \/ \E w \in Workspaces : Open(s, w, None, 2) \/ Bind(s, w)
        \/ \E w \in Workspaces, e \in Epics : Open(s, w, e, 1)
        \/ \E e \in Epics : Attach(s, e)
        \/ Release(s)
    /\ UNCHANGED <<tasks, consent, process, evidence>>

\* Somebody edits the configuration.
EditConfiguration ==
    /\ \/ SetRouting /\ UNCHANGED tasks
       \/ /\ \E op \in TaskOperations, target \in Targets :
                tasks' = [tasks EXCEPT ![op] = target]
          /\ UNCHANGED control
    /\ UNCHANGED <<consent, process, evidence>>

Next ==
    \/ \E s \in Sessions, op \in Operations : Prepare(s, op) \/ Execute(s, op)
    \/ \E outcome \in {"succeeded", "failed"} : Finish(outcome)
    \/ Stop \/ SessionTool \/ EditConfiguration

Spec == Init /\ [][Next]_vars

-----------------------------------------------------------------------------
(* Properties *)

Process == [descriptor : Descriptor, at : Binding \cup {None},
            target : Targets \cup {None}, agreed : Binding \cup {None}]

TypeOK ==
    /\ ControlTypeOK
    /\ tasks \in [TaskOperations -> Targets]
    /\ consent \in Reviewed \cup {None}
    /\ process \in Process \cup {None}
    /\ evidence \subseteq Evidence

\* A process runs under the very binding that its descriptor was reviewed
\* under, Epic and all, in the root and with the target that were reviewed:
\* rebinding, attaching, releasing and binding again, disabling routing or
\* editing the tasks in between takes the consent away.
ConsentExact ==
    process # None =>
        /\ process.at = process.agreed
        /\ process.descriptor.cwd = IF process.at = None THEN Primary ELSE process.at.ws
        /\ process.target = process.descriptor.target

\* The coordinator calls a bootstrap complete only for a session attached to an
\* Epic, and after an installation succeeded that ran under that session's
\* present binding: evidence of an earlier generation, of another workspace or
\* of the same one before it was attached does not do, whoever passes it.
CompletionEarned ==
    \A s \in Sessions, epic \in Epics \cup {None}, given \in SUBSET evidence :
        Accepts(s, epic, given) /\ NextOperation(s, epic, given) = "complete" =>
            /\ bindings[s].epic # None
            /\ \E e \in evidence :
                /\ e.descriptor.op = Install /\ e.outcome = "succeeded"
                /\ e.at = bindings[s]
=============================================================================
