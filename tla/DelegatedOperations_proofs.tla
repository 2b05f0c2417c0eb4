--------------------- MODULE DelegatedOperations_proofs ---------------------
(***************************************************************************)
(* Proofs about DelegatedOperations, for any sessions, workspaces, Epics   *)
(* and tasks: consent and evidence hold for one binding only.  A descriptor *)
(* names no Epic and no session; that the generations it names stand for   *)
(* one binding rests on the registry, whose generations only grow.         *)
(***************************************************************************)
EXTENDS DelegatedOperations, TLAPS

(***************************************************************************)
(* The inductive invariant.  A binding that was once good is grounded: its *)
(* workspace has reached its generation, and while it is at it, has its    *)
(* Epic.  What is agreed, runs or has run describes such a binding.        *)
(***************************************************************************)
Grounded(b) ==
    b # None =>
        /\ b.bound
        /\ workspaces[b.ws] # None
        /\ b.wsGen <= workspaces[b.ws].gen
        /\ b.wsGen = workspaces[b.ws].gen => b.epic = workspaces[b.ws].epic

\* The same, of the workspaces after a step.
StaysGrounded(b) ==
    b # None =>
        /\ b.bound
        /\ workspaces'[b.ws] # None
        /\ b.wsGen <= workspaces'[b.ws].gen
        /\ b.wsGen = workspaces'[b.ws].gen => b.epic = workspaces'[b.ws].epic

Describes(d, b) ==
    IF b = None THEN d.ws = None /\ d.cwd = Primary
    ELSE d.ws = b.ws /\ d.cwd = b.ws /\ d.gen = b.gen /\ d.wsGen = b.wsGen

ConsentGrounded ==
    consent # None => Grounded(consent.at) /\ Describes(consent.descriptor, consent.at)
ProcessGrounded ==
    process # None =>
        /\ Grounded(process.at) /\ Describes(process.descriptor, process.at)
        /\ process.at = process.agreed
        /\ process.target = process.descriptor.target
EvidenceGrounded ==
    \A e \in evidence : Grounded(e.at) /\ Describes(e.descriptor, e.at)

IInv == TypeOK /\ ConsentGrounded /\ ProcessGrounded /\ EvidenceGrounded

-----------------------------------------------------------------------------
(* The registry *)

RP == INSTANCE ContextRegistry_proofs

(* The registry of ProjectRoot is the one that ContextRegistry_proofs is about. *)
LEMMA SameNextGen == \A s : Registry!NextGen(s) = RP!NextGen(s)
  BY DEF Registry!NextGen, RP!NextGen

\* The registry the model names and the one the proofs name are the same.
LEMMA SameRegistry ==
    /\ Registry!TypeOK <=> RP!TypeOK
    /\ [Registry!Next]_registry <=> [RP!Next]_(RP!vars)
<1>1. Registry!TypeOK <=> RP!TypeOK
  BY DEF Registry!TypeOK, RP!TypeOK, Registry!Binding, RP!Binding, Registry!Workspace,
         RP!Workspace
<1>2. \A s, w, e, gen : Registry!Open(s, w, e, gen) <=> RP!Open(s, w, e, gen)
  BY DEF Registry!Open, RP!Open, Registry!Bound, RP!Bound, Registry!EpicFree, RP!EpicFree
<1>3. \A s, e : Registry!Attach(s, e) <=> RP!Attach(s, e)
  BY SameNextGen
     DEF Registry!Attach, RP!Attach, Registry!Bound, RP!Bound, Registry!EpicFree,
         RP!EpicFree, Registry!MayChange, RP!MayChange
<1>4. \A s, w : Registry!Bind(s, w) <=> RP!Bind(s, w)
  BY SameNextGen
     DEF Registry!Bind, RP!Bind, Registry!Bound, RP!Bound, Registry!MayChange, RP!MayChange
<1>5. \A s : Registry!Release(s) <=> RP!Release(s)
  BY SameNextGen DEF Registry!Release, RP!Release, Registry!MayChange, RP!MayChange
<1>6. Registry!Next <=> RP!Next
  BY <1>2, <1>3, <1>4, <1>5 DEF Registry!Next, RP!Next
<1> QED
  BY <1>1, <1>6 DEF registry, RP!vars

\* No transition of the registry disturbs its types.
LEMMA RegistryTyped == Registry!TypeOK /\ [Registry!Next]_registry => Registry!TypeOK'
<1>1. Registry!TypeOK' <=> RP!TypeOK'
  BY DEF Registry!TypeOK, RP!TypeOK, Registry!Binding, RP!Binding, Registry!Workspace,
         RP!Workspace
<1> QED
  BY <1>1, SameRegistry, RP!NextTyped, RegistryRulesAssumption
     DEF Workspace, Binding, RP!Workspace, RP!Binding

\* A workspace is never forgotten, and it changes by moving its generation on.
LEMMA WorkspacesGrow ==
    Registry!TypeOK /\ [Registry!Next]_registry =>
        \A w \in Workspaces : workspaces[w] # None =>
            /\ workspaces'[w] # None
            /\ workspaces'[w] # workspaces[w] => workspaces'[w].gen > workspaces[w].gen
<1> SUFFICES ASSUME Registry!TypeOK, [Registry!Next]_registry
             PROVE  \A w \in Workspaces : workspaces[w] # None =>
                        /\ workspaces'[w] # None
                        /\ workspaces'[w] # workspaces[w] =>
                               workspaces'[w].gen > workspaces[w].gen
  OBVIOUS
<1>1. [RP!Grow]_(RP!vars)
  BY SameRegistry, RP!NextGrows, RegistryRulesAssumption
     DEF Workspace, Binding, RP!Workspace, RP!Binding
<1> QED
  BY <1>1 DEF RP!Grow, RP!vars

(* Whatever a session tool does, and every other step of the specification,  *)
(* is a transition of the registry or leaves it alone.                       *)
LEMMA StepIsTransition == [Next]_vars => [Registry!Next]_registry
<1> SUFFICES ASSUME [Next]_vars PROVE [Registry!Next]_registry
  OBVIOUS
<1>1. CASE SessionTool
  <2>1. PICK s \in Sessions :
            \/ \E w \in Workspaces : Open(s, w, None, 2) \/ Bind(s, w)
            \/ \E w \in Workspaces, e \in Epics : Open(s, w, e, 1)
            \/ \E e \in Epics : Attach(s, e)
            \/ Release(s)
    BY <1>1 DEF SessionTool
  <2> QED
    BY <2>1 DEF Open, Bind, Attach, Release, Registry!Next
<1>2. CASE ~SessionTool
  BY <1>2 DEF Next, vars, control, registry, Prepare, Execute, Finish, Stop,
              EditConfiguration, SetRouting
<1> QED
  BY <1>1, <1>2

\* A good binding stays grounded, whatever becomes of its workspace.
LEMMA GroundedStays ==
    ASSUME Registry!TypeOK, [Registry!Next]_registry, NEW b \in Binding \cup {None},
           Grounded(b)
    PROVE  StaysGrounded(b)
<1> SUFFICES ASSUME b # None PROVE StaysGrounded(b)
  BY DEF StaysGrounded
<1>1. b \in Binding /\ b.ws \in Workspaces /\ b.wsGen \in Nat
  BY DEF Binding
<1>2. workspaces[b.ws] # None /\ workspaces[b.ws] \in Workspace
  BY <1>1 DEF Grounded, Registry!TypeOK, Registry!Workspace, Workspace
<1>3. workspaces'[b.ws] # None
      /\ (workspaces'[b.ws] # workspaces[b.ws] =>
              workspaces'[b.ws].gen > workspaces[b.ws].gen)
  BY <1>1, <1>2, WorkspacesGrow
<1>4. workspaces'[b.ws] \in Workspace
  BY <1>1, <1>3, RegistryTyped DEF Registry!TypeOK, Registry!Workspace, Workspace
<1>5. workspaces[b.ws].gen \in Nat /\ workspaces'[b.ws].gen \in Nat
  BY <1>2, <1>4 DEF Workspace
<1> QED
  BY <1>1, <1>2, <1>3, <1>5 DEF Grounded, StaysGrounded

-----------------------------------------------------------------------------
(* Descriptors *)

\* A descriptor is built of a good binding, or of none.
LEMMA BuiltGrounded ==
    ASSUME TypeOK, NEW s \in Sessions, NEW op \in Operations, CanBuild(s, op)
    PROVE  /\ Build(s, op) \in Descriptor
           /\ Present(s) \in Binding \cup {None}
           /\ Describes(Build(s, op), Present(s))
           /\ Grounded(Present(s))
           /\ Build(s, op).target = TargetOf(op) /\ Build(s, op).op = op
<1>1. bindings[s] \in Binding \cup {None}
  BY DEF TypeOK, ControlTypeOK, Registry!TypeOK, Registry!Binding, Binding
<1>2. TargetOf(op) \in Targets \cup {None}
  BY DEF TargetOf, TypeOK, TaskOperations
<1>3. CASE routing
  <2>1. Resolves(s)
    BY <1>3 DEF CanBuild, HasRoot
  <2>2. bindings[s] \in Binding /\ bindings[s].bound /\ Present(s) = bindings[s]
        /\ bindings[s] # None
    BY <1>1, <2>1 DEF Resolves, IsBound, Present
  <2>3. /\ workspaces[bindings[s].ws] # None
        /\ bindings[s].epic = workspaces[bindings[s].ws].epic
        /\ bindings[s].wsGen = workspaces[bindings[s].ws].gen
    BY <2>1 DEF Resolves, Matches
  <2>4. bindings[s].ws \in Workspaces /\ bindings[s].gen \in Nat /\ bindings[s].wsGen \in Nat
    BY <2>2 DEF Binding
  <2>5. Grounded(Present(s))
    BY <2>2, <2>3, <2>4 DEF Grounded
  <2>6. Build(s, op) = [op |-> op, target |-> TargetOf(op), cwd |-> bindings[s].ws,
                        ws |-> bindings[s].ws, gen |-> bindings[s].gen,
                        wsGen |-> bindings[s].wsGen]
    BY <1>3 DEF Build, Root
  <2> QED
    BY <1>2, <2>2, <2>4, <2>5, <2>6 DEF Descriptor, Describes, Places
<1>4. CASE ~routing
  <2>1. Present(s) = None
    BY <1>4 DEF CanBuild, HasRoot, Present
  <2>2. Build(s, op) = [op |-> op, target |-> TargetOf(op), cwd |-> Primary,
                        ws |-> None, gen |-> 0, wsGen |-> 0]
    BY <1>4 DEF Build, Root
  <2> QED
    BY <1>2, <2>1, <2>2 DEF Descriptor, Describes, Places, Grounded
<1> QED
  BY <1>3, <1>4

\* Two grounded descriptions of which one is present are of one binding.
LEMMA SameBinding ==
    ASSUME TypeOK, NEW s \in Sessions, NEW op \in Operations, CanBuild(s, op),
           NEW b \in Binding \cup {None}, Grounded(b), Describes(Build(s, op), b)
    PROVE  Present(s) = b
<1>1. Describes(Build(s, op), Present(s)) /\ Present(s) \in Binding \cup {None}
  BY BuiltGrounded
<1>2. None \notin Workspaces
  BY PrimaryAssumption DEF Places
<1>3. CASE Present(s) = None
  BY <1>1, <1>2, <1>3 DEF Describes, Binding
<1>4. CASE Present(s) # None
  <2>1. Present(s) \in Binding /\ b \in Binding /\ b # None
    BY <1>1, <1>2, <1>4 DEF Describes, Binding
  <2>2. b.ws = Present(s).ws /\ b.gen = Present(s).gen /\ b.wsGen = Present(s).wsGen
    BY <1>1, <1>4, <2>1 DEF Describes
  <2>3. Present(s) = bindings[s] /\ Present(s).bound /\ IsBound(bindings[s])
    BY <1>4 DEF Present, IsBound
  <2>4. Resolves(s)
    BY <2>3 DEF CanBuild, HasRoot
  <2>5. Present(s).epic = workspaces[Present(s).ws].epic
        /\ Present(s).wsGen = workspaces[Present(s).ws].gen
    BY <2>3, <2>4 DEF Resolves, Matches
  <2>6. b.bound /\ b.epic = Present(s).epic
    BY <2>1, <2>2, <2>5 DEF Grounded
  <2> QED
    BY <2>1, <2>2, <2>3, <2>6 DEF Binding
<1> QED
  BY <1>3, <1>4

-----------------------------------------------------------------------------
(* The invariant *)

\* Before the first call the invariant holds.
LEMMA InitInvariant == Init => IInv
<1> SUFFICES ASSUME Init PROVE IInv
  OBVIOUS
<1>1. ControlTypeOK
  BY DEF Init, ControlInit, ControlTypeOK, Registry!Init, Registry!TypeOK
<1> QED
  BY <1>1 DEF Init, IInv, TypeOK, ConsentGrounded, ProcessGrounded, EvidenceGrounded

\* No binding that is remembered loses its ground.
LEMMA Remembered ==
    ASSUME IInv, [Next]_vars
    PROVE  /\ Registry!TypeOK'
           /\ \A b \in Binding \cup {None} : Grounded(b) => StaysGrounded(b)
<1>1. Registry!TypeOK /\ [Registry!Next]_registry
  BY StepIsTransition DEF IInv, TypeOK, ControlTypeOK
<1> QED
  BY <1>1, RegistryTyped, GroundedStays

\* No call, answer or transition of the registry breaks the invariant.
LEMMA StepInvariant == IInv /\ [Next]_vars => IInv'
<1> SUFFICES ASSUME IInv, [Next]_vars PROVE IInv'
  OBVIOUS
<1>1. Registry!TypeOK' /\ \A b \in Binding \cup {None} : Grounded(b) => StaysGrounded(b)
  BY Remembered
<1>2. TypeOK /\ ConsentGrounded /\ ProcessGrounded /\ EvidenceGrounded
  BY DEF IInv
<1>3. /\ consent # None => consent.at \in Binding \cup {None} /\ StaysGrounded(consent.at)
      /\ process # None => process.at \in Binding \cup {None} /\ StaysGrounded(process.at)
      /\ \A e \in evidence : e.at \in Binding \cup {None} /\ StaysGrounded(e.at)
  BY <1>1, <1>2 DEF TypeOK, ConsentGrounded, ProcessGrounded, EvidenceGrounded,
                    Reviewed, Process, Evidence
<1>4. CASE UNCHANGED <<tasks, consent, process, evidence>> /\ UNCHANGED <<routing, missing>>
  BY <1>1, <1>2, <1>3, <1>4
     DEF IInv, TypeOK, ControlTypeOK, ConsentGrounded, ProcessGrounded, EvidenceGrounded,
         Grounded, StaysGrounded, Describes
<1>5. ASSUME NEW s \in Sessions, NEW op \in Operations, Prepare(s, op)
      PROVE  IInv'
  <2>1. consent' = [descriptor |-> Build(s, op), at |-> Present(s)]
        /\ UNCHANGED <<control, tasks, process, evidence>>
    BY <1>5 DEF Prepare
  <2>2. /\ Build(s, op) \in Descriptor
        /\ Present(s) \in Binding \cup {None}
        /\ Describes(Build(s, op), Present(s))
        /\ Grounded(Present(s))
    BY <1>2, <1>5, BuiltGrounded DEF Prepare
  <2> QED
    BY <1>1, <1>2, <1>3, <2>1, <2>2
       DEF IInv, TypeOK, ControlTypeOK, ConsentGrounded, ProcessGrounded,
           EvidenceGrounded, Reviewed, control, registry, Grounded, StaysGrounded
<1>6. ASSUME NEW s \in Sessions, NEW op \in Operations, Execute(s, op)
      PROVE  IInv'
  <2>1. /\ consent # None /\ CanBuild(s, op) /\ Build(s, op) = consent.descriptor
        /\ process' = [descriptor |-> consent.descriptor, at |-> Present(s),
                       target |-> TargetOf(consent.descriptor.op), agreed |-> consent.at]
        /\ UNCHANGED <<control, tasks, consent, evidence>>
    BY <1>6 DEF Execute, Run
  <2>2. /\ Build(s, op) \in Descriptor /\ Present(s) \in Binding \cup {None}
        /\ Describes(Build(s, op), Present(s))
        /\ Build(s, op).target = TargetOf(op) /\ Build(s, op).op = op
        /\ Grounded(Present(s))
    BY <1>2, <2>1, BuiltGrounded
  <2>3. Present(s) = consent.at
    BY <1>2, <1>3, <2>1, SameBinding DEF ConsentGrounded
  <2>4. process' \in Process
    BY <2>1, <2>2, <2>3 DEF Process, Descriptor
  <2>5. ProcessGrounded'
    BY <1>3, <2>1, <2>2, <2>3
       DEF ProcessGrounded, Describes, Grounded, StaysGrounded, control, registry
  <2> QED
    BY <1>1, <1>2, <1>3, <2>1, <2>4, <2>5
       DEF IInv, TypeOK, ControlTypeOK, ConsentGrounded, EvidenceGrounded, control,
           registry, Grounded, StaysGrounded
<1>7. ASSUME NEW outcome \in {"succeeded", "failed"}, Finish(outcome)
      PROVE  IInv'
  <2> DEFINE new == [descriptor |-> process.descriptor, outcome |-> outcome,
                     at |-> process.at]
  <2>1. process # None /\ evidence' = evidence \cup {new} /\ process' = None
        /\ UNCHANGED <<control, tasks, consent>>
    BY <1>7 DEF Finish
  <2>2. new \in Evidence /\ new.at = process.at /\ new.descriptor = process.descriptor
    BY <1>2, <2>1 DEF TypeOK, Process, Evidence
  <2>3. Describes(process.descriptor, process.at)
    BY <1>2, <2>1 DEF ProcessGrounded
  <2> HIDE DEF new
  <2>4. EvidenceGrounded'
    BY <1>2, <1>3, <2>1, <2>2, <2>3 
       DEF EvidenceGrounded, Describes, Grounded, StaysGrounded
  <2> QED
    BY <1>1, <1>2, <1>3, <2>1, <2>2, <2>4
       DEF IInv, TypeOK, ControlTypeOK, ConsentGrounded, ProcessGrounded, control,
           registry, Grounded, StaysGrounded
<1>8. CASE Stop
  BY <1>1, <1>2, <1>3, <1>8
     DEF Stop, IInv, TypeOK, ControlTypeOK, ConsentGrounded, ProcessGrounded,
         EvidenceGrounded, control, registry, Grounded, StaysGrounded
<1>9. CASE SessionTool
  BY <1>4, <1>9 DEF SessionTool, Open, Bind, Attach, Release
<1>10. CASE EditConfiguration
  BY <1>1, <1>2, <1>3, <1>10
     DEF EditConfiguration, SetRouting, IInv, TypeOK, ControlTypeOK, ConsentGrounded,
         ProcessGrounded, EvidenceGrounded, control, registry, Grounded, StaysGrounded
<1>11. CASE UNCHANGED vars
  BY <1>4, <1>11 DEF vars, control
<1> QED
  BY <1>5, <1>6, <1>7, <1>8, <1>9, <1>10, <1>11 DEF Next

\* The inductive invariant holds in every reachable state.
LEMMA Invariant == Spec => []IInv
  BY InitInvariant, StepInvariant, PTL DEF Spec

\* The types of consents, processes and evidence.
THEOREM TypeCorrect == Spec => []TypeOK
<1>1. IInv => TypeOK
  BY DEF IInv
<1> QED
  BY <1>1, Invariant, PTL

\* Consent to a descriptor is consent to run it under one binding: nothing runs
\* under another, whatever happened between the review and the start.
THEOREM ConsentIsExact == Spec => []ConsentExact
<1>1. IInv => ConsentExact
  BY DEF IInv, ProcessGrounded, ConsentExact, Describes
<1> QED
  BY <1>1, Invariant, PTL

\* The coordinator never takes a bootstrap for complete on the evidence of
\* another binding, another workspace or another Epic.
THEOREM CompletionIsEarned == Spec => []CompletionEarned
<1>1. IInv => CompletionEarned
  <2> SUFFICES ASSUME IInv, NEW s \in Sessions, NEW epic \in Epics \cup {None},
                      NEW given \in SUBSET evidence, Accepts(s, epic, given),
                      NextOperation(s, epic, given) = "complete"
               PROVE  /\ bindings[s].epic # None
                      /\ \E e \in evidence :
                          /\ e.descriptor.op = Install /\ e.outcome = "succeeded"
                          /\ e.at = bindings[s]
    BY DEF CompletionEarned
  <2>1. IsBound(bindings[s]) /\ bindings[s].epic # None
    BY DEF NextOperation, Install
  <2>2. PICK e \in given : e.outcome = "succeeded"
    BY <2>1 DEF NextOperation, Install
  <2>3. e \in evidence /\ CanBuild(s, Install) /\ e.descriptor = Build(s, Install)
    BY <2>1, <2>2 DEF Accepts, MatchesInstall
  <2>4. e.descriptor.op = Install /\ e.descriptor.op \in Operations
        /\ e.at \in Binding \cup {None}
    BY <2>3 DEF IInv, TypeOK, Evidence, Descriptor, Build
  <2>5. Present(s) = e.at
    BY <2>3, <2>4, SameBinding DEF IInv, EvidenceGrounded
  <2>6. Present(s) = bindings[s]
    BY <2>1 DEF Present
  <2> QED
    BY <2>1, <2>2, <2>3, <2>4, <2>5, <2>6
<1> QED
  BY <1>1, Invariant, PTL
=============================================================================
