----------------------- MODULE ContextRegistry_proofs -----------------------
(***************************************************************************)
(* Proofs about ContextRegistry, for any sets of sessions, workspaces and  *)
(* Epics: the types, one workspace per Epic, grounded bindings, and        *)
(* generations that only grow.                                             *)
(***************************************************************************)
EXTENDS ContextRegistry, TLAPS

\* A binding to a typed workspace is typed, and grounded in it.
LEMMA BoundTyped ==
    ASSUME NEW w \in Workspaces, NEW workspace \in Workspace, NEW gen \in Nat \ {0}
    PROVE  /\ Bound(w, workspace, gen) \in Binding
           /\ Bound(w, workspace, gen).ws = w
           /\ Bound(w, workspace, gen).wsGen = workspace.gen
           /\ Bound(w, workspace, gen).epic = workspace.epic
           /\ Bound(w, workspace, gen).gen = gen
BY DEF Bound, Binding, Workspace

\* The next generation of a binding is a number above the present one.
LEMMA NextGenTyped ==
    ASSUME TypeOK, NEW s \in Sessions
    PROVE  /\ NextGen(s) \in Nat \ {0}
           /\ bindings[s] # None => NextGen(s) > bindings[s].gen
<1>1. CASE bindings[s] = None
  BY <1>1 DEF NextGen
<1>2. CASE bindings[s] # None
  <2>1. bindings[s] \in Binding
    BY <1>2 DEF TypeOK
  <2>2. bindings[s].gen \in Nat \ {0}
    BY <2>1 DEF Binding
  <2> QED
    BY <1>2, <2>2 DEF NextGen
<1> QED
  BY <1>1, <1>2

\* The workspace written is new or moves to its next generation, takes no other
\* workspace's Epic, and the binding is to what is written.
Written(w, workspace, binding) ==
    /\ workspaces' = [workspaces EXCEPT ![w] = workspace]
    /\ \/ workspaces[w] = None
       \/ workspaces[w] # None /\ workspace.gen = workspaces[w].gen + 1
    /\ workspace.epic # None => EpicFree(workspace.epic, w)
    /\ binding.ws = w
    /\ binding.wsGen = workspace.gen
    /\ binding.epic = workspace.epic

\* No workspace is written: the binding is to a present generation, or is the old
\* one released.
Kept(s, binding) ==
    /\ workspaces' = workspaces
    /\ \/ \E w \in Workspaces :
            /\ workspaces[w] # None
            /\ binding.ws = w
            /\ binding.wsGen = workspaces[w].gen
            /\ binding.epic = workspaces[w].epic
       \/ /\ bindings[s] # None
          /\ binding.ws = bindings[s].ws
          /\ binding.wsGen = bindings[s].wsGen
          /\ binding.epic = bindings[s].epic

\* Every step writes one binding and at most one workspace.
OneWrite ==
    \E s \in Sessions, binding \in Binding :
        /\ bindings' = [bindings EXCEPT ![s] = binding]
        /\ bindings[s] # None => binding.gen > bindings[s].gen
        /\ \/ \E w \in Workspaces, workspace \in Workspace : Written(w, workspace, binding)
           \/ Kept(s, binding)

\* Every transition writes one binding, and at most the workspace it is to.
LEMMA StepEffect == TypeOK /\ Next => OneWrite
<1> SUFFICES ASSUME TypeOK, Next PROVE OneWrite
  OBVIOUS
<1>1. PICK s \in Sessions :
          \/ \E w \in Workspaces, e \in Epics \cup {None}, gen \in {1, 2} : Open(s, w, e, gen)
          \/ \E e \in Epics : Attach(s, e)
          \/ \E w \in Workspaces : Bind(s, w)
          \/ Release(s)
  BY DEF Next
<1>2. ASSUME NEW w \in Workspaces, NEW e \in Epics \cup {None}, NEW gen \in {1, 2},
             Open(s, w, e, gen)
      PROVE  OneWrite
  <2> DEFINE new == [epic |-> e, gen |-> gen]
  <2>1. new \in Workspace
    BY DEF Workspace
  <2>2. workspaces' = [workspaces EXCEPT ![w] = new] /\ workspaces'[w] = new
    BY <1>2 DEF Open, TypeOK
  <2>3. Bound(w, new, 1) \in Binding /\ Bound(w, new, 1).ws = w
        /\ Bound(w, new, 1).wsGen = gen /\ Bound(w, new, 1).epic = e
    BY <2>1, BoundTyped
  <2>4. bindings' = [bindings EXCEPT ![s] = Bound(w, new, 1)] /\ bindings[s] = None
        /\ workspaces[w] = None /\ (e # None => EpicFree(e, w))
    BY <1>2, <2>2 DEF Open
  <2> HIDE DEF new
  <2>5. new.epic = e /\ new.gen = gen
    BY DEF new
  <2> QED
    <3>1. Written(w, new, Bound(w, new, 1))
      BY <2>2, <2>3, <2>4, <2>5 DEF Written
    <3> QED
      BY <2>1, <2>3, <2>4, <3>1 DEF OneWrite
<1>3. ASSUME NEW e \in Epics, Attach(s, e)
      PROVE  OneWrite
  <2> DEFINE w == bindings[s].ws
             new == [epic |-> e, gen |-> workspaces[w].gen + 1]
  <2>1. bindings[s] \in Binding
    BY <1>3 DEF Attach, TypeOK
  <2>2. w \in Workspaces /\ workspaces[w] # None
    BY <1>3, <2>1 DEF Attach, Binding
  <2>3. workspaces[w] \in Workspace
    BY <2>2 DEF TypeOK
  <2>4. new \in Workspace /\ new.epic = e /\ new.gen = workspaces[w].gen + 1
    BY <2>3 DEF Workspace
  <2>5. workspaces' = [workspaces EXCEPT ![w] = new] /\ workspaces'[w] = new
    BY <1>3, <2>2 DEF Attach, TypeOK
  <2>6. bindings' = [bindings EXCEPT ![s] = Bound(w, new, NextGen(s))]
        /\ EpicFree(e, w)
    BY <1>3, <2>5 DEF Attach
  <2> HIDE DEF new, w
  <2>7. Bound(w, new, NextGen(s)) \in Binding
        /\ Bound(w, new, NextGen(s)).ws = w
        /\ Bound(w, new, NextGen(s)).wsGen = new.gen
        /\ Bound(w, new, NextGen(s)).epic = new.epic
        /\ Bound(w, new, NextGen(s)).gen = NextGen(s)
    BY <2>2, <2>4, BoundTyped, NextGenTyped
  <2> QED
    <3>1. new.gen = workspaces[w].gen + 1 /\ new.epic = e
      BY <2>4
    <3>2. Written(w, new, Bound(w, new, NextGen(s)))
      BY <2>2, <2>5, <2>6, <2>7, <3>1 DEF Written
    <3>3. bindings[s] # None => NextGen(s) > bindings[s].gen
      BY NextGenTyped
    <3> QED
      BY <2>2, <2>4, <2>6, <2>7, <3>2, <3>3 DEF OneWrite
<1>4. ASSUME NEW w \in Workspaces, Bind(s, w)
      PROVE  OneWrite
  <2>1. workspaces[w] \in Workspace
    BY <1>4 DEF Bind, TypeOK
  <2>2. Bound(w, workspaces[w], NextGen(s)) \in Binding
        /\ Bound(w, workspaces[w], NextGen(s)).ws = w
        /\ Bound(w, workspaces[w], NextGen(s)).wsGen = workspaces[w].gen
        /\ Bound(w, workspaces[w], NextGen(s)).epic = workspaces[w].epic
        /\ Bound(w, workspaces[w], NextGen(s)).gen = NextGen(s)
    BY <2>1, BoundTyped, NextGenTyped
  <2> QED
    BY <1>4, <2>2, NextGenTyped DEF Bind, OneWrite, Kept
<1>5. ASSUME Release(s)
      PROVE  OneWrite
  <2> DEFINE new == [bindings[s] EXCEPT !.bound = FALSE, !.gen = NextGen(s)]
  <2>1. bindings[s] \in Binding
    BY <1>5 DEF Release, TypeOK
  <2>2. new \in Binding /\ new.ws = bindings[s].ws /\ new.wsGen = bindings[s].wsGen
        /\ new.epic = bindings[s].epic /\ new.gen = NextGen(s)
    BY <2>1, NextGenTyped DEF Binding
  <2>3. bindings' = [bindings EXCEPT ![s] = new] /\ bindings[s] # None
        /\ workspaces' = workspaces
    BY <1>5 DEF Release
  <2> HIDE DEF new
  <2> QED
    BY <2>2, <2>3, NextGenTyped DEF OneWrite, Kept
<1> QED
  BY <1>1, <1>2, <1>3, <1>4, <1>5

\* Transitions keep the types.
LEMMA NextTyped == TypeOK /\ [Next]_vars => TypeOK'
<1> SUFFICES ASSUME TypeOK, [Next]_vars PROVE TypeOK'
  OBVIOUS
<1>1. CASE Next
  BY <1>1, StepEffect DEF TypeOK, OneWrite, Written, Kept
<1>2. CASE UNCHANGED vars
  BY <1>2 DEF TypeOK, vars
<1> QED
  BY <1>1, <1>2

\* The types are right.
THEOREM TypeCorrect == Spec => []TypeOK
<1>1. Init => TypeOK
  BY DEF Init, TypeOK
<1> QED
  BY <1>1, NextTyped, PTL DEF Spec

\* No transition gives an Epic a second workspace.
LEMMA NextExclusive ==
    TypeOK /\ OneWorkspacePerEpic /\ [Next]_vars => OneWorkspacePerEpic'
<1> SUFFICES ASSUME TypeOK, OneWorkspacePerEpic, [Next]_vars
             PROVE  OneWorkspacePerEpic'
  OBVIOUS
<1>1. CASE UNCHANGED workspaces
  BY <1>1 DEF OneWorkspacePerEpic
<1>2. CASE Next /\ ~UNCHANGED workspaces
  <2>1. PICK w \in Workspaces, workspace \in Workspace :
            /\ workspaces' = [workspaces EXCEPT ![w] = workspace]
            /\ workspace.epic # None => EpicFree(workspace.epic, w)
    BY <1>2, StepEffect DEF OneWrite, Written, Kept
  <2>2. \A x \in Workspaces : workspaces'[x] =
            IF x = w THEN workspace ELSE workspaces[x]
    BY <2>1 DEF TypeOK
  <2> QED
    BY <2>1, <2>2 DEF OneWorkspacePerEpic, EpicFree
<1> QED
  BY <1>1, <1>2 DEF vars

\* An Epic never has two workspaces, whichever sessions allocate, attach and
\* adopt.
THEOREM EpicsExclusive == Spec => []OneWorkspacePerEpic
<1>1. Init => OneWorkspacePerEpic
  BY DEF Init, OneWorkspacePerEpic
<1> QED
  BY <1>1, NextExclusive, NextTyped, TypeCorrect, PTL DEF Spec

\* A binding never speaks of a generation its workspace has not reached, nor
\* of another Epic than the workspace has at that generation.
THEOREM BindingsAreGrounded == Spec => []BindingsGrounded
<1>1. Init => BindingsGrounded
  BY DEF Init, BindingsGrounded
<1>2. TypeOK /\ BindingsGrounded /\ [Next]_vars => BindingsGrounded'
  <2> SUFFICES ASSUME TypeOK, BindingsGrounded, [Next]_vars,
                      NEW t \in Sessions, bindings'[t] # None
               PROVE  /\ workspaces'[bindings'[t].ws] # None
                      /\ bindings'[t].wsGen <= workspaces'[bindings'[t].ws].gen
                      /\ bindings'[t].wsGen = workspaces'[bindings'[t].ws].gen
                            => bindings'[t].epic = workspaces'[bindings'[t].ws].epic
    BY DEF BindingsGrounded
  <2>1. CASE UNCHANGED vars
    BY <2>1 DEF BindingsGrounded, vars
  <2>2. CASE Next
    <3>1. PICK s \in Sessions, binding \in Binding :
              /\ bindings' = [bindings EXCEPT ![s] = binding]
              /\ \/ \E w \in Workspaces, workspace \in Workspace :
                      Written(w, workspace, binding)
                 \/ Kept(s, binding)
      BY <2>2, StepEffect DEF OneWrite
    <3>2. bindings'[t] = IF t = s THEN binding ELSE bindings[t]
      BY <3>1 DEF TypeOK
    <3>3. binding.ws \in Workspaces /\ binding.wsGen \in Nat
      BY DEF Binding
    <3>4. \A x \in Workspaces : workspaces[x] # None =>
              workspaces[x] \in Workspace /\ workspaces[x].gen \in Nat
      BY DEF TypeOK, Workspace
    <3>5. bindings[t] # None => bindings[t].ws \in Workspaces /\ bindings[t].wsGen \in Nat
      BY DEF TypeOK, Binding
    <3>6. None \notin Workspace
      BY RegistryRulesAssumption
    <3>7. CASE Kept(s, binding)
      <4>1. CASE t # s
        BY <3>2, <3>7, <4>1 DEF BindingsGrounded, Kept
      <4>2. CASE t = s /\ \E w \in Workspaces :
                /\ workspaces[w] # None
                /\ binding.ws = w
                /\ binding.wsGen = workspaces[w].gen
                /\ binding.epic = workspaces[w].epic
        BY <3>2, <3>3, <3>4, <3>7, <4>2 DEF Kept
      <4>3. CASE t = s /\ bindings[s] # None /\ binding.ws = bindings[s].ws
                 /\ binding.wsGen = bindings[s].wsGen /\ binding.epic = bindings[s].epic
        BY <3>2, <3>7, <4>3 DEF BindingsGrounded, Kept
      <4> QED
        BY <3>7, <4>1, <4>2, <4>3 DEF Kept
    <3>8. CASE \E w \in Workspaces, workspace \in Workspace : Written(w, workspace, binding)
      <4>1. PICK w \in Workspaces, workspace \in Workspace :
                /\ workspaces' = [workspaces EXCEPT ![w] = workspace]
                /\ \/ workspaces[w] = None
                   \/ workspaces[w] # None /\ workspace.gen = workspaces[w].gen + 1
                /\ binding.ws = w /\ binding.wsGen = workspace.gen
                /\ binding.epic = workspace.epic
        BY <3>8 DEF Written
      <4>2. \A x \in Workspaces : workspaces'[x] =
                IF x = w THEN workspace ELSE workspaces[x]
        BY <4>1 DEF TypeOK
      <4>3. CASE t = s
        BY <3>2, <3>3, <3>6, <4>1, <4>2, <4>3
      <4>4. CASE t # s
        <5>1. /\ workspaces[bindings[t].ws] # None
              /\ bindings[t].wsGen <= workspaces[bindings[t].ws].gen
              /\ bindings[t].wsGen = workspaces[bindings[t].ws].gen
                    => bindings[t].epic = workspaces[bindings[t].ws].epic
          BY <3>2, <4>4 DEF BindingsGrounded
        <5> QED
          BY <3>2, <3>4, <3>5, <3>6, <4>1, <4>2, <4>4, <5>1
      <4> QED
        BY <4>3, <4>4
    <3> QED
      BY <3>1, <3>7, <3>8
  <2> QED
    BY <2>1, <2>2
<1> QED
  BY <1>1, <1>2, NextTyped, TypeCorrect, PTL DEF Spec

\* A step of GenerationsGrow.
Grow ==
    /\ \A w \in Workspaces : workspaces[w] # None =>
         /\ workspaces'[w] # None
         /\ workspaces'[w] # workspaces[w] => workspaces'[w].gen > workspaces[w].gen
    /\ \A s \in Sessions : bindings[s] # None =>
         /\ bindings'[s] # None
         /\ bindings'[s] # bindings[s] => bindings'[s].gen > bindings[s].gen

\* Whatever a transition changes is incremented.
LEMMA NextGrows == TypeOK /\ [Next]_vars => [Grow]_vars
<1> SUFFICES ASSUME TypeOK, Next PROVE Grow
  OBVIOUS
<1> USE DEF Grow
<1>1. None \notin Workspace \cup Binding
  BY RegistryRulesAssumption
<1>2. \A x \in Workspaces : workspaces[x] # None => workspaces[x].gen \in Nat
  BY DEF TypeOK, Workspace
<1>3. PICK s \in Sessions, binding \in Binding :
          /\ bindings' = [bindings EXCEPT ![s] = binding]
          /\ bindings[s] # None => binding.gen > bindings[s].gen
          /\ \/ workspaces' = workspaces
             \/ \E w \in Workspaces, workspace \in Workspace :
                    /\ workspaces' = [workspaces EXCEPT ![w] = workspace]
                    /\ \/ workspaces[w] = None
                       \/ /\ workspaces[w] # None
                          /\ workspace.gen = workspaces[w].gen + 1
  BY StepEffect DEF OneWrite, Written, Kept
<1>4. \A t \in Sessions : bindings'[t] = IF t = s THEN binding ELSE bindings[t]
  BY <1>3 DEF TypeOK
<1>5. CASE workspaces' = workspaces
  BY <1>1, <1>3, <1>4, <1>5
<1>6. CASE workspaces' # workspaces
  <2>1. PICK w \in Workspaces, workspace \in Workspace :
            /\ workspaces' = [workspaces EXCEPT ![w] = workspace]
            /\ \/ workspaces[w] = None
               \/ workspaces[w] # None /\ workspace.gen = workspaces[w].gen + 1
    BY <1>3, <1>6
  <2>2. \A x \in Workspaces : workspaces'[x] =
            IF x = w THEN workspace ELSE workspaces[x]
    BY <2>1 DEF TypeOK
  <2> QED
    BY <1>1, <1>2, <1>3, <1>4, <2>1, <2>2
<1> QED
  BY <1>5, <1>6

\* No generation is ever reused for another content.
THEOREM GenerationsOnlyGrow == Spec => GenerationsGrow
  BY NextGrows, TypeCorrect, PTL DEF Spec, GenerationsGrow, Grow
=============================================================================
