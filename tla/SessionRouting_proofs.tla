------------------------ MODULE SessionRouting_proofs ------------------------
(***************************************************************************)
(* Proofs about SessionRouting, for any sessions, workspaces, Epics and    *)
(* paths: no tool call ends up where its session has no business, and no   *)
(* session log speaks of a binding that never was.  Both rest on what the  *)
(* registry never does: it gives a workspace no second Epic and an Epic no *)
(* second workspace, and changes no binding without incrementing its       *)
(* generation.                                                             *)
(***************************************************************************)
EXTENDS SessionRouting, TLAPS

\* A routed call carries the workspace its session was bound to, and no other
\* call was let through for a bound session.
CallKept ==
    call # None =>
        IF call.routed
        THEN /\ call.seen # None /\ call.path = call.seen.ws
             /\ call.place \in {None, call.seen.ws}
        ELSE call.seen = None
\* An Epic that was seen is still the workspace's.
EpicKept ==
    call # None /\ call.seen # None /\ call.seen.epic # None =>
        /\ workspaces[call.seen.ws] # None
        /\ workspaces[call.seen.ws].epic = call.seen.epic
\* A tool that resolved its own root was in the main checkout for no bound session.
PrimaryKept ==
    Working /\ call.place = Primary /\ ResolvedAgain /\ call.path = Relative => ~call.ran

\* What was ever told of a workspace and an Epic is still so.
ClaimsKept ==
    /\ Registry!OneWorkspacePerEpic
    /\ \A c \in Claims :
          /\ c.ws \in Workspaces /\ workspaces[c.ws] # None
          /\ workspaces[c.ws].epic = c.epic

IInv == TypeOK /\ CallKept /\ EpicKept /\ PrimaryKept /\ RecoveryTrue /\ ClaimsKept

-----------------------------------------------------------------------------
(* The registry *)

RP == INSTANCE ContextRegistry_proofs

(* The registry of ProjectRoot is the one that ContextRegistry_proofs is about. *)
LEMMA SameNextGen == \A s : Registry!NextGen(s) = RP!NextGen(s)
  BY DEF Registry!NextGen, RP!NextGen

\* The registry the model names and the one the proofs name are the same.
LEMMA SameRegistry ==
    /\ Registry!TypeOK <=> RP!TypeOK
    /\ [Registry!Next]_registry <=> [RP!Next]_(RP!vars)
<1>1. Registry!TypeOK <=> RP!TypeOK
  BY DEF Registry!TypeOK, RP!TypeOK, Registry!Binding, RP!Binding, Registry!Workspace,
         RP!Workspace
<1>2. \A s, w, e, gen : Registry!Open(s, w, e, gen) <=> RP!Open(s, w, e, gen)
  BY DEF Registry!Open, RP!Open, Registry!Bound, RP!Bound, Registry!EpicFree, RP!EpicFree
<1>3. \A s, e : Registry!Attach(s, e) <=> RP!Attach(s, e)
  BY SameNextGen
     DEF Registry!Attach, RP!Attach, Registry!Bound, RP!Bound, Registry!EpicFree,
         RP!EpicFree, Registry!MayChange, RP!MayChange
<1>4. \A s, w : Registry!Bind(s, w) <=> RP!Bind(s, w)
  BY SameNextGen
     DEF Registry!Bind, RP!Bind, Registry!Bound, RP!Bound, Registry!MayChange, RP!MayChange
<1>5. \A s : Registry!Release(s) <=> RP!Release(s)
  BY SameNextGen DEF Registry!Release, RP!Release, Registry!MayChange, RP!MayChange
<1>6. Registry!Next <=> RP!Next
  BY <1>2, <1>3, <1>4, <1>5 DEF Registry!Next, RP!Next
<1> QED
  BY <1>1, <1>6 DEF registry, RP!vars

\* No transition of the registry disturbs its types.
LEMMA RegistryTyped == Registry!TypeOK /\ [Registry!Next]_registry => Registry!TypeOK'
<1>1. Registry!TypeOK' <=> RP!TypeOK'
  BY DEF Registry!TypeOK, RP!TypeOK, Registry!Binding, RP!Binding, Registry!Workspace,
         RP!Workspace
<1> QED
  BY <1>1, SameRegistry, RP!NextTyped, RegistryRulesAssumption
     DEF Workspace, Binding, RP!Workspace, RP!Binding

\* What the registry never does to a binding.
LEMMA BindingsGrow ==
    ASSUME Registry!TypeOK, [Registry!Next]_registry, NEW s \in Sessions,
           bindings[s] # None
    PROVE  /\ bindings'[s] # None
           /\ bindings'[s] # bindings[s] => bindings'[s].gen > bindings[s].gen
<1>1. [RP!Grow]_(RP!vars)
  BY SameRegistry, RP!NextGrows, RegistryRulesAssumption
     DEF Workspace, Binding, RP!Workspace, RP!Binding
<1> QED
  BY <1>1 DEF RP!Grow, RP!vars

\* A workspace that has an Epic keeps it for ever.
LEMMA EpicsStay ==
    ASSUME Registry!TypeOK, [Registry!Next]_registry, NEW w \in Workspaces,
           workspaces[w] # None, workspaces[w].epic # None
    PROVE  workspaces'[w] = workspaces[w]
<1>1. CASE UNCHANGED registry
  BY <1>1 DEF registry
<1>2. CASE Registry!Next
  <2>1. PICK s \in Sessions :
            \/ \E x \in Workspaces, e \in Epics \cup {None}, gen \in {1, 2} :
                   Registry!Open(s, x, e, gen)
            \/ \E e \in Epics : Registry!Attach(s, e)
            \/ \E x \in Workspaces : Registry!Bind(s, x)
            \/ Registry!Release(s)
    BY <1>2 DEF Registry!Next
  <2>2. ASSUME NEW x, NEW e, NEW gen, Registry!Open(s, x, e, gen)
        PROVE  workspaces'[w] = workspaces[w]
    BY <2>2 DEF Registry!Open, Registry!TypeOK
  <2>3. ASSUME NEW e, Registry!Attach(s, e)
        PROVE  workspaces'[w] = workspaces[w]
    BY <2>3 DEF Registry!Attach, Registry!TypeOK
  <2>4. ASSUME NEW x, Registry!Bind(s, x)
        PROVE  workspaces'[w] = workspaces[w]
    BY <2>4 DEF Registry!Bind
  <2>5. CASE Registry!Release(s)
    BY <2>5 DEF Registry!Release
  <2> QED
    BY <2>1, <2>2, <2>3, <2>4, <2>5
<1> QED
  BY <1>1, <1>2

\* A binding is to its workspace's Epic when it is written, or says what it said.
LEMMA BindingsTell ==
    ASSUME Registry!TypeOK, [Registry!Next]_registry, NEW s \in Sessions,
           bindings'[s] # None
    PROVE  \/ /\ bindings'[s].ws \in Workspaces
              /\ workspaces'[bindings'[s].ws] # None
              /\ workspaces'[bindings'[s].ws].epic = bindings'[s].epic
           \/ /\ bindings[s] # None
              /\ bindings'[s].ws = bindings[s].ws
              /\ bindings'[s].epic = bindings[s].epic
<1>1. CASE UNCHANGED registry
  BY <1>1 DEF registry
<1>2. CASE Registry!Next /\ ~UNCHANGED registry
  <2>1. RP!TypeOK /\ RP!Next
    BY <1>2, SameRegistry DEF registry, RP!vars
  <2>2. RP!OneWrite
    BY <2>1, RP!StepEffect, RegistryRulesAssumption
       DEF Workspace, Binding, RP!Workspace, RP!Binding
  <2>3. PICK t \in Sessions, binding \in RP!Binding :
            /\ bindings' = [bindings EXCEPT ![t] = binding]
            /\ \/ \E w \in Workspaces, workspace \in RP!Workspace :
                      RP!Written(w, workspace, binding)
               \/ RP!Kept(t, binding)
    BY <2>2 DEF RP!OneWrite
  <2>4. /\ bindings \in [Sessions -> Binding \cup {None}]
        /\ workspaces \in [Workspaces -> Workspace \cup {None}]
    BY DEF Registry!TypeOK, Registry!Binding, Binding, Registry!Workspace, Workspace
  <2>5. CASE s # t
    BY <2>3, <2>4, <2>5
  <2>6. CASE s = t
    <3>1. bindings'[s] = binding
      BY <2>3, <2>4, <2>6
    <3>2. ASSUME NEW w \in Workspaces, NEW workspace \in RP!Workspace,
                 RP!Written(w, workspace, binding)
          PROVE  /\ binding.ws = w /\ workspaces'[w] # None
                 /\ workspaces'[w].epic = binding.epic
      <4>1. workspaces'[w] = workspace /\ workspace # None
        BY <2>4, <3>2, RegistryRulesAssumption DEF RP!Written, RP!Workspace, Workspace
      <4> QED
        BY <3>2, <4>1 DEF RP!Written
    <3>3. CASE RP!Kept(t, binding)
      BY <2>6, <3>1, <3>3 DEF RP!Kept
    <3> QED
      BY <2>3, <3>1, <3>2, <3>3
  <2> QED
    BY <2>5, <2>6
<1> QED
  BY <1>1, <1>2

\* What the transitions leave their session bound to.
LEMMA Transitions ==
    ASSUME Registry!TypeOK, NEW s \in Sessions, NEW w \in Workspaces,
           NEW e \in Epics \cup {None},
           \/ Registry!Open(s, w, e, 1) \/ Registry!Open(s, w, e, 2)
           \/ e \in Epics /\ Registry!Attach(s, e)
           \/ Registry!Bind(s, w)
    PROVE  /\ bindings'[s] \in Binding /\ bindings'[s].bound
           /\ [Registry!Next]_registry
<1>1. [Registry!Next]_registry
  BY DEF Registry!Next
<1>2. /\ workspaces \in [Workspaces -> Workspace \cup {None}]
      /\ bindings \in [Sessions -> Binding \cup {None}]
  BY DEF Registry!TypeOK, Registry!Workspace, Workspace, Registry!Binding, Binding
<1>3. ASSUME NEW x \in Workspaces, NEW workspace \in Workspace, NEW gen \in Nat \ {0},
             bindings' = [bindings EXCEPT ![s] = Registry!Bound(x, workspace, gen)]
      PROVE  bindings'[s] \in Binding /\ bindings'[s].bound
  BY <1>2, <1>3 DEF Registry!Bound, Binding, Workspace
<1>4. Registry!NextGen(s) \in Nat \ {0}
  <2>1. bindings[s] # None => bindings[s].gen \in Nat
    BY <1>2 DEF Binding
  <2> QED
    BY <2>1 DEF Registry!NextGen
<1>5. ASSUME NEW gen \in {1, 2}, Registry!Open(s, w, e, gen)
      PROVE  bindings'[s] \in Binding /\ bindings'[s].bound
  <2> DEFINE new == workspaces'[w]
  <2>1. new = [epic |-> e, gen |-> gen]
    BY <1>2, <1>5 DEF Registry!Open
  <2>2. new \in Workspace
    BY <2>1 DEF Workspace
  <2>3. bindings' = [bindings EXCEPT ![s] = Registry!Bound(w, new, 1)]
    BY <1>5 DEF Registry!Open
  <2>4. 1 \in Nat \ {0}
    OBVIOUS
  <2> HIDE DEF new
  <2> QED
    BY <1>3, <2>2, <2>3, <2>4
<1>6. CASE e \in Epics /\ Registry!Attach(s, e)
  <2> DEFINE x == bindings[s].ws
             new == workspaces'[x]
  <2>1. x \in Workspaces /\ workspaces[x] \in Workspace
    BY <1>2, <1>6 DEF Registry!Attach, Binding
  <2>2. new = [epic |-> e, gen |-> workspaces[x].gen + 1]
    BY <1>2, <1>6, <2>1 DEF Registry!Attach
  <2>3. new \in Workspace
    BY <1>6, <2>1, <2>2 DEF Workspace
  <2>4. bindings' = [bindings EXCEPT ![s] = Registry!Bound(x, new, Registry!NextGen(s))]
    BY <1>6 DEF Registry!Attach
  <2> HIDE DEF x, new
  <2> QED
    BY <1>1, <1>3, <1>4, <2>1, <2>3, <2>4
<1>7. CASE Registry!Bind(s, w)
  <2>1. workspaces[w] \in Workspace
    BY <1>2, <1>7 DEF Registry!Bind
  <2> QED
    BY <1>1, <1>3, <1>4, <1>7, <2>1 DEF Registry!Bind
<1> QED
  BY <1>1, <1>5, <1>6, <1>7

-----------------------------------------------------------------------------
(* The steps *)

\* A session tool: a transition of the registry, or none, by a session that is
\* told of its present binding, or of the one it had until the release.
ToolEffect(s) ==
    /\ [Registry!Next]_registry
    /\ UNCHANGED <<call, log>>
    /\ \E entry \in Entry :
        /\ Owe(s, entry)
        /\ entry.status \in {"bound", "released"}
        /\ bindings'[s] \in Binding
        /\ entry.ws = bindings'[s].ws /\ entry.epic = bindings'[s].epic
        /\ entry.gen = bindings'[s].gen
        /\ bindings'[s].bound <=> entry.status = "bound"

\* What a host records of a binding is well formed and says what the binding says.
LEMMA EntryTyped ==
    ASSUME NEW b \in Binding
    PROVE  /\ BoundEntry(b) \in Entry /\ BoundEntry(b).status = "bound"
           /\ BoundEntry(b).ws = b.ws /\ BoundEntry(b).epic = b.epic
           /\ BoundEntry(b).gen = b.gen
           /\ ReleasedEntry(b) \in Entry /\ ReleasedEntry(b).status = "released"
           /\ ReleasedEntry(b).ws = b.ws /\ ReleasedEntry(b).epic = b.epic
           /\ ReleasedEntry(b).gen = b.gen + 1
<1>1. b.ws \in Workspaces /\ b.epic \in Epics \cup {None} /\ b.gen \in Nat
  BY DEF Binding
<1>2. BoundEntry(b) \in Entry /\ BoundEntry(b).gen = b.gen
      /\ BoundEntry(b).ws = b.ws /\ BoundEntry(b).epic = b.epic
      /\ BoundEntry(b).status = "bound"
  BY <1>1 DEF BoundEntry, Entry
<1> DEFINE n == b.gen + 1
<1>3. n \in Nat
  BY <1>1
<1>4. ReleasedEntry(b) = [BoundEntry(b) EXCEPT !.status = "released", !.gen = n]
  BY <1>2 DEF ReleasedEntry
<1> HIDE DEF n
<1>5. /\ ReleasedEntry(b) \in Entry /\ ReleasedEntry(b).status = "released"
      /\ ReleasedEntry(b).ws = b.ws /\ ReleasedEntry(b).epic = b.epic
      /\ ReleasedEntry(b).gen = n
  BY <1>2, <1>3, <1>4 DEF Entry
<1> QED
  BY <1>2, <1>5 DEF n

\* A binding written for a session is owed to its host.
LEMMA Told1 ==
    ASSUME NEW s \in Sessions, [Registry!Next]_registry, UNCHANGED <<call, log>>,
           bindings'[s] \in Binding, bindings'[s].bound, Owe(s, BoundEntry(bindings'[s]))
    PROVE  ToolEffect(s)
BY EntryTyped DEF ToolEffect

\* What one session tool may have done to the registry and to the hosts' logs.
LEMMA ToolStep ==
    ASSUME TypeOK, NEW s \in Sessions, SessionTool(s)
    PROVE  ToolEffect(s) /\ UNCHANGED <<routing, missing>>
<1>1. Registry!TypeOK
  BY DEF TypeOK, ControlTypeOK
<1>2. bindings \in [Sessions -> Binding \cup {None}]
  BY <1>1 DEF Registry!TypeOK, Registry!Binding, Binding
<1>3. ASSUME NEW w \in Workspaces, NEW e \in Epics \cup {None},
             \/ Open(s, w, e, 1) \/ Open(s, w, e, 2)
             \/ e \in Epics /\ Attach(s, e)
             \/ Bind(s, w),
             Answer(s, BoundEntry(bindings'[s]))
      PROVE  ToolEffect(s) /\ UNCHANGED <<routing, missing>>
  <2>1. \/ Registry!Open(s, w, e, 1) \/ Registry!Open(s, w, e, 2)
        \/ e \in Epics /\ Registry!Attach(s, e)
        \/ Registry!Bind(s, w)
    BY <1>3 DEF Open, Attach, Bind
  <2>2. UNCHANGED <<routing, missing>>
    BY <1>3 DEF Open, Attach, Bind
  <2>3. bindings'[s] \in Binding /\ bindings'[s].bound /\ [Registry!Next]_registry
    BY <1>1, <2>1, Transitions
  <2>4. Owe(s, BoundEntry(bindings'[s])) /\ UNCHANGED <<call, log>>
    BY <1>3 DEF Answer
  <2> QED
    BY <2>2, <2>3, <2>4, Told1
<1>4. CASE \E w \in Workspaces : SessionAllocate(s, w)
  BY <1>3, <1>4 DEF SessionAllocate
<1>5. CASE \E w \in Workspaces, e \in Epics : SessionAdopt(s, w, e)
  BY <1>3, <1>5 DEF SessionAdopt
<1>6. CASE \E e \in Epics : SessionAttachEpic(s, e)
  <2>1. PICK e \in Epics : Attach(s, e) /\ Answer(s, BoundEntry(bindings'[s]))
    BY <1>6 DEF SessionAttachEpic
  <2>2. bindings[s] \in Binding
    BY <1>2, <2>1 DEF Attach, Registry!Attach
  <2>3. bindings[s].ws \in Workspaces
    BY <2>2 DEF Binding
  <2> QED
    BY <1>3, <2>1, <2>3
<1>7. CASE \E w \in Workspaces : SessionBind(s, w)
  BY <1>3, <1>7 DEF SessionBind
<1>8. CASE SessionBindAgain(s)
  <2>1. /\ Resolves(s) /\ UNCHANGED control /\ UNCHANGED <<call, log>>
        /\ Owe(s, BoundEntry(bindings[s]))
    BY <1>8 DEF SessionBindAgain, Answer
  <2>2. bindings[s] \in Binding /\ bindings[s].bound
    BY <1>2, <2>1 DEF Resolves, IsBound
  <2> QED
    BY <2>1, <2>2, Told1 DEF control, registry
<1>9. CASE SessionRelease(s)
  <2>1. /\ Registry!Release(s) /\ UNCHANGED <<routing, missing>>
        /\ UNCHANGED <<call, log>> /\ Owe(s, ReleasedEntry(bindings[s]))
    BY <1>9 DEF SessionRelease, Release, Answer
  <2>2. bindings[s] \in Binding
    BY <1>2, <2>1 DEF Registry!Release
  <2>3. bindings'[s] = [bindings[s] EXCEPT !.bound = FALSE, !.gen = bindings[s].gen + 1]
    BY <1>2, <2>1 DEF Registry!Release, Registry!NextGen
  <2> DEFINE n == bindings[s].gen + 1
             b == bindings'[s]
  <2>4. n \in Nat \ {0}
    BY <2>2 DEF Binding
  <2>5. b = [bindings[s] EXCEPT !.bound = FALSE, !.gen = n]
    BY <2>3
  <2> HIDE DEF n, b
  <2>6. /\ b \in Binding /\ b.bound = FALSE
        /\ b.ws = bindings[s].ws /\ b.epic = bindings[s].epic /\ b.gen = n
    BY <2>2, <2>4, <2>5 DEF Binding
  <2>7. [Registry!Next]_registry
    BY <2>1 DEF Registry!Next
  <2> DEFINE entry == ReleasedEntry(bindings[s])
  <2>8. /\ entry \in Entry /\ entry.status = "released"
        /\ entry.ws = bindings[s].ws /\ entry.epic = bindings[s].epic
        /\ entry.gen = n /\ Owe(s, entry)
    BY <2>1, <2>2, EntryTyped DEF n
  <2> HIDE DEF entry
  <2> QED
    BY <2>1, <2>6, <2>7, <2>8 DEF ToolEffect, b
<1> QED
  BY <1>4, <1>5, <1>6, <1>7, <1>8, <1>9 DEF SessionTool

\* Every step is a transition of the registry or leaves it alone.
LEMMA StepIsTransition == TypeOK /\ [Next]_vars => [Registry!Next]_registry
<1> SUFFICES ASSUME TypeOK, [Next]_vars PROVE [Registry!Next]_registry
  OBVIOUS
<1>1. CASE \E s \in Sessions : SessionTool(s)
  BY <1>1, ToolStep DEF ToolEffect
<1>2. CASE \A s \in Sessions : ~SessionTool(s)
  BY <1>2 DEF Next, vars, control, registry, RunProjectTool, Pass, Start, Work, End,
              AppendEntry, Recover, Die, Disturb, SetRouting, ChangeTopology
<1> QED
  BY <1>1, <1>2

-----------------------------------------------------------------------------
(* Tool calls *)

\* What a resolution returns.
LEMMA Rooted ==
    ASSUME TypeOK, NEW s \in Sessions, NEW on \in BOOLEAN, HasRoot(s, on)
    PROVE  /\ on =>
                /\ bindings[s] \in Binding /\ IsBound(bindings[s])
                /\ Root(s, on) = bindings[s].ws /\ Root(s, on) \in Workspaces
                /\ Seen(s) \in Target /\ Seen(s).ws = Root(s, on)
                /\ workspaces[Root(s, on)] # None
                /\ Seen(s).epic = workspaces[Root(s, on)].epic
           /\ ~on => Root(s, on) = Primary /\ Seen(s) = None /\ ~IsBound(bindings[s])
<1>1. bindings[s] \in Binding \cup {None}
  BY DEF TypeOK, ControlTypeOK, Registry!TypeOK, Registry!Binding, Binding
<1>2. CASE on
  <2>1. Resolves(s)
    BY <1>2 DEF HasRoot
  <2>2. bindings[s] \in Binding /\ IsBound(bindings[s])
    BY <1>1, <2>1 DEF Resolves, IsBound
  <2>3. bindings[s].ws \in Workspaces /\ bindings[s].epic \in Epics \cup {None}
    BY <2>2 DEF Binding
  <2>4. Seen(s) = [ws |-> bindings[s].ws, epic |-> bindings[s].epic]
    BY <2>2 DEF Seen
  <2> QED
    BY <1>2, <2>1, <2>2, <2>3, <2>4 DEF Root, Target, Resolves, Matches
<1>3. CASE ~on
  BY <1>3 DEF HasRoot, Root, Seen
<1> QED
  BY <1>2, <1>3

\* A call is let through: whose, and where to.
Requested(s, on) ==
    /\ call' \in Call /\ call'.session = s /\ HasRoot(s, on)
    /\ UNCHANGED <<control, log, owed>>
    /\ call'.seen = Seen(s) /\ call'.routed = on
    /\ on => call'.path = Root(s, on)
    /\ call'.place \in {None, Root(s, on)}
    /\ call'.path = Relative => call'.place = None

\* What one project tool call may have put in progress.
LEMMA RequestStep ==
    ASSUME TypeOK, NEW s \in Sessions, NEW on \in BOOLEAN,
           \/ RunProjectTool(s, on)
           \/ \E tool \in Tools, path \in Paths : Pass(s, tool, path, on)
    PROVE  Requested(s, on)
<1>1. HasRoot(s, on) /\ UNCHANGED <<control, log, owed>>
  BY DEF RunProjectTool, Pass
<1>2. Root(s, on) \in Places /\ Seen(s) \in Target \cup {None}
  BY <1>1, Rooted DEF Places
<1>3. Relative # Root(s, on)
  BY <1>2, RoutingAssumption
<1>4. CASE RunProjectTool(s, on)
  BY <1>1, <1>2, <1>3, <1>4 DEF RunProjectTool, Requested, Call, Tools, IsBound
<1>5. ASSUME NEW tool \in Tools, NEW path \in Paths, Pass(s, tool, path, on)
      PROVE  Requested(s, on)
  <2>1. path \in Places \cup {Relative}
    BY RoutingAssumption
  <2>2. CASE ~on /\ Request(s, tool, path, FALSE)
    BY <1>1, <1>2, <2>1, <2>2 DEF Request, Requested, Call
  <2>3. CASE on /\ ~Escapes(s, path) /\ Request(s, tool, Located(s, path), TRUE)
    <3>1. Located(s, path) = Root(s, on)
      BY <2>3 DEF Escapes
    <3> QED
      BY <1>1, <1>2, <2>3, <3>1 DEF Request, Requested, Call
  <2> QED
    BY <1>5, <2>2, <2>3 DEF Pass
<1> QED
  BY <1>4, <1>5

\* A tool starts, in the root that it resolves or in the main checkout.
LEMMA StartStep ==
    ASSUME TypeOK, Start
    PROVE  /\ call # None /\ call \in Call /\ call.place = None
           /\ \E root \in Places :
                 /\ Work(root)
                 /\ root = Primary /\ ResolvedAgain => ~IsBound(bindings[call.session])
<1>1. call # None /\ call \in Call /\ call.place = None
  BY DEF Start, TypeOK
<1>2. call.session \in Sessions
  BY <1>1 DEF Call
<1>3. ASSUME NEW on \in BOOLEAN, ResolvedAgain, HasRoot(call.session, on),
             Work(Root(call.session, on))
      PROVE  \E root \in Places :
                 /\ Work(root)
                 /\ root = Primary /\ ResolvedAgain => ~IsBound(bindings[call.session])
  <2>1. Primary \notin Workspaces
    BY PrimaryAssumption
  <2> QED
    BY <1>2, <1>3, <2>1, Rooted DEF Places
<1>4. CASE ~ResolvedAgain /\ Work(Primary)
  BY <1>1, <1>4 DEF Places
<1> QED
  BY <1>1, <1>3, <1>4 DEF Start

\* Every step is one of these.
LEMMA Steps ==
    ASSUME TypeOK, Next
    PROVE  \/ \E s \in Sessions : ToolEffect(s) /\ UNCHANGED <<routing, missing>>
           \/ \E s \in Sessions, on \in BOOLEAN : Requested(s, on)
           \/ Start \/ End \/ Disturb
           \/ \E s \in PiSessions : AppendEntry(s) \/ Recover(s) \/ Die(s)
BY ToolStep, RequestStep DEF Next

\* No step disturbs the types.
LEMMA TypeStep == TypeOK /\ [Next]_vars => TypeOK'
<1> SUFFICES ASSUME TypeOK, [Next]_vars PROVE TypeOK'
  OBVIOUS
<1>1. Registry!TypeOK'
  BY StepIsTransition, RegistryTyped DEF TypeOK, ControlTypeOK
<1>2. CASE UNCHANGED vars
  BY <1>1, <1>2 DEF TypeOK, ControlTypeOK, vars, control
<1>3. ASSUME NEW s \in Sessions, ToolEffect(s), UNCHANGED <<routing, missing>>
      PROVE  TypeOK'
  BY <1>1, <1>3 DEF TypeOK, ControlTypeOK, ToolEffect, Owe
<1>4. ASSUME NEW s \in Sessions, NEW on \in BOOLEAN, Requested(s, on)
      PROVE  TypeOK'
  BY <1>1, <1>4 DEF TypeOK, ControlTypeOK, Requested, control
<1>5. CASE Start
  <2>1. PICK root \in Places : Work(root) /\ call \in Call
    BY <1>5, StartStep
  <2> DEFINE place == IF call.path = Relative THEN root ELSE call.path
             ran == IsBound(bindings[call.session])
  <2>2. place \in Places /\ ran \in BOOLEAN
    BY <2>1 DEF Call, IsBound
  <2>3. call' = [call EXCEPT !.place = place, !.ran = ran]
        /\ UNCHANGED <<control, log, owed>>
    BY <2>1 DEF Work
  <2> HIDE DEF place, ran
  <2>4. call' \in Call
    BY <2>1, <2>2, <2>3 DEF Call
  <2> QED
    BY <1>1, <2>3, <2>4 DEF TypeOK, ControlTypeOK, control
<1>6. CASE End
  BY <1>1, <1>6 DEF TypeOK, ControlTypeOK, End, control
<1>7. CASE Disturb
  BY <1>1, <1>7 DEF TypeOK, ControlTypeOK, Disturb, SetRouting, ChangeTopology
<1>8. ASSUME NEW s \in PiSessions, AppendEntry(s)
      PROVE  TypeOK'
  BY <1>1, <1>8 DEF TypeOK, ControlTypeOK, AppendEntry, control
<1>9. ASSUME NEW s \in PiSessions, Recover(s)
      PROVE  TypeOK'
  <2>1. s \in Sessions
    BY RoutingAssumption
  <2>2. Resolves(s) => bindings[s] \in Binding
    BY <2>1 DEF TypeOK, ControlTypeOK, Registry!TypeOK, Registry!Binding, Binding,
                Resolves, IsBound
  <2>3. Resolves(s) => BoundEntry(bindings[s]) \in Entry
    BY <2>2, EntryTyped
  <2>4. UnboundEntry \in Entry
    BY DEF UnboundEntry, Entry
  <2>5. log' \in [PiSessions -> Entry \cup {None}]
    BY <1>9, <2>3, <2>4 DEF Recover, TypeOK
  <2> QED
    BY <1>1, <1>9, <2>5 DEF TypeOK, ControlTypeOK, Recover, control
<1>10. ASSUME NEW s \in PiSessions, Die(s)
       PROVE  TypeOK'
  BY <1>1, <1>10 DEF TypeOK, ControlTypeOK, Die, control
<1> QED
  BY <1>2, <1>3, <1>4, <1>5, <1>6, <1>7, <1>8, <1>9, <1>10, Steps

-----------------------------------------------------------------------------
(* Invariants *)

\* No step disturbs what is known of the call in progress.
LEMMA CallStep ==
    ASSUME IInv, [Next]_vars
    PROVE  CallKept' /\ EpicKept' /\ PrimaryKept'
<1>1. TypeOK /\ CallKept /\ EpicKept /\ PrimaryKept
  BY DEF IInv
<1>2. None \notin Target /\ Primary \notin Workspaces /\ None \notin Workspaces
      /\ Relative \notin Workspaces
  BY RoutingAssumption, PrimaryAssumption DEF Places
<1>3. CASE UNCHANGED call
  <2>1. call # None /\ call.seen # None => call.seen.ws \in Workspaces
    BY <1>1 DEF TypeOK, Call, Target
  <2>2. EpicKept'
    <3>1. Registry!TypeOK /\ [Registry!Next]_registry
      BY <1>1, StepIsTransition DEF TypeOK, ControlTypeOK
    <3> QED
      BY <1>1, <1>3, <2>1, <3>1, EpicsStay DEF EpicKept
  <2> QED
    BY <1>1, <1>3, <2>2 DEF CallKept, PrimaryKept, Working, ResolvedAgain
<1>4. ASSUME NEW s \in Sessions, NEW on \in BOOLEAN, Requested(s, on)
      PROVE  CallKept' /\ EpicKept' /\ PrimaryKept'
  <2>1. HasRoot(s, on) /\ workspaces' = workspaces
    BY <1>4 DEF Requested, control, registry
  <2>2. PrimaryKept'
    BY <1>4 DEF Requested, PrimaryKept, Working
  <2>3. CASE on
    <3>1. /\ Seen(s) \in Target /\ Seen(s).ws = Root(s, on)
          /\ workspaces[Seen(s).ws] # None
          /\ Seen(s).epic = workspaces[Seen(s).ws].epic
      BY <1>1, <2>1, <2>3, Rooted
    <3>2. /\ call'.seen = Seen(s) /\ call'.routed
          /\ call'.path = Root(s, on) /\ call'.place \in {None, Root(s, on)}
      BY <1>4, <2>3 DEF Requested
    <3>3. CallKept'
      BY <1>2, <3>1, <3>2 DEF CallKept
    <3>4. EpicKept'
      BY <2>1, <3>1, <3>2 DEF EpicKept
    <3> QED
      BY <2>2, <3>3, <3>4
  <2>4. CASE ~on
    <3>1. call'.seen = None /\ ~call'.routed
      BY <1>1, <1>4, <2>1, <2>4, Rooted DEF Requested
    <3> QED
      BY <2>2, <3>1 DEF CallKept, EpicKept
  <2> QED
    BY <2>3, <2>4
<1>5. CASE Start
  <2>1. PICK root \in Places :
            /\ Work(root)
            /\ root = Primary /\ ResolvedAgain => ~IsBound(bindings[call.session])
    BY <1>1, <1>5, StartStep
  <2>2. call # None /\ call \in Call /\ call.place = None
    BY <1>1, <1>5, StartStep
  <2> DEFINE place == IF call.path = Relative THEN root ELSE call.path
             ran == IsBound(bindings[call.session])
  <2>3. call' = [call EXCEPT !.place = place, !.ran = ran] /\ workspaces' = workspaces
    BY <2>1 DEF Work, control, registry
  <2>4. call.routed => /\ call.seen # None /\ call.path = call.seen.ws
                       /\ call.seen.ws \in Workspaces
    BY <1>1, <2>2 DEF CallKept, Call, Target
  <2>5. call.routed => place = call.seen.ws
    BY <1>2, <2>4
  <2>6. place = Primary /\ call.path = Relative /\ ResolvedAgain => ~ran
    BY <2>1
  <2> HIDE DEF place, ran
  <2>7. /\ call'.seen = call.seen /\ call'.path = call.path /\ call'.tool = call.tool
        /\ call'.session = call.session /\ call'.routed = call.routed
        /\ call'.place = place /\ call'.ran = ran
    BY <2>2, <2>3 DEF Call
  <2>8. CallKept' /\ EpicKept'
    BY <1>1, <2>2, <2>3, <2>4, <2>5, <2>7 DEF CallKept, EpicKept
  <2>9. PrimaryKept'
    BY <2>6, <2>7 DEF PrimaryKept, Working, ResolvedAgain
  <2> QED
    BY <2>8, <2>9
<1>6. CASE call' = None
  BY <1>6 DEF CallKept, EpicKept, PrimaryKept, Working
<1>7. \/ UNCHANGED call \/ call' = None \/ Start
      \/ \E s \in Sessions, on \in BOOLEAN : Requested(s, on)
  BY <1>1, Steps DEF vars, ToolEffect, End, Disturb, AppendEntry, Recover, Die
<1> QED
  BY <1>3, <1>4, <1>5, <1>6, <1>7

\* What an entry may say of a binding.
Behind(entry, b) ==
    /\ b # None /\ entry.gen <= b.gen
    /\ entry.gen = b.gen =>
          /\ entry.ws = b.ws /\ entry.epic = b.epic
          /\ b.bound <=> entry.status = "bound"
\* An entry of the binding as it is.
Tells(entry, b) ==
    /\ b # None /\ entry.gen = b.gen
    /\ entry.ws = b.ws /\ entry.epic = b.epic
    /\ b.bound <=> entry.status = "bound"

\* What was true of a binding stays true of what becomes of it.
LEMMA StaysBehind ==
    ASSUME Registry!TypeOK, [Registry!Next]_registry, NEW s \in Sessions,
           NEW entry \in Entry, Behind(entry, bindings[s])
    PROVE  Behind(entry, bindings'[s])
<1>1. bindings[s] # None /\ entry.gen <= bindings[s].gen /\ entry.gen \in Nat
  BY DEF Behind, Entry
<1>2. bindings[s] \in Binding
  BY <1>1 DEF Registry!TypeOK, Registry!Binding, Binding
<1>3. bindings'[s] # None
      /\ (bindings'[s] # bindings[s] => bindings'[s].gen > bindings[s].gen)
  BY <1>1, BindingsGrow
<1>4. bindings'[s] \in Binding
  BY <1>3, RegistryTyped DEF Registry!TypeOK, Registry!Binding, Binding
<1>5. bindings[s].gen \in Nat /\ bindings'[s].gen \in Nat
  BY <1>2, <1>4 DEF Binding
<1>6. CASE bindings'[s] = bindings[s]
  BY <1>6
<1>7. CASE bindings'[s] # bindings[s]
  <2>1. entry.gen < bindings'[s].gen
    BY <1>1, <1>3, <1>5, <1>7
  <2> QED
    BY <1>1, <1>3, <1>5, <2>1 DEF Behind
<1> QED
  BY <1>6, <1>7

\* An entry that is told anew is of the binding as it is now.
LEMMA ToldNow ==
    ASSUME TypeOK, [Next]_vars, NEW s \in PiSessions, NEW entry \in Told(s)'
    PROVE  entry \in Told(s) \/ Tells(entry, bindings'[s])
<1>1. /\ entry \in {log'[s], owed'[s]} /\ entry \in Entry /\ entry.status # "unbound"
      /\ entry \in {log[s], owed[s]} => entry \in Told(s)
  BY DEF Told
<1>2. s \in Sessions /\ None \notin Entry /\ Restart \notin Entry
  BY RoutingAssumption
<1>3. /\ log \in [PiSessions -> Entry \cup {None}]
      /\ owed \in [PiSessions -> Entry \cup {None, Restart}]
  BY DEF TypeOK
<1>4. CASE UNCHANGED <<log, owed>>
  BY <1>1, <1>4
<1>5. ASSUME NEW t \in Sessions, ToolEffect(t)
      PROVE  entry \in Told(s) \/ Tells(entry, bindings'[s])
  <2>1. PICK e \in Entry :
            /\ Owe(t, e)
            /\ e.status \in {"bound", "released"} /\ bindings'[t] \in Binding
            /\ e.ws = bindings'[t].ws /\ e.epic = bindings'[t].epic
            /\ e.gen = bindings'[t].gen
            /\ bindings'[t].bound <=> e.status = "bound"
    BY <1>5 DEF ToolEffect
  <2>2. log' = log
    BY <1>5 DEF ToolEffect
  <2>3. bindings'[t] # None
    BY <2>1, RegistryRulesAssumption
  <2>4. Tells(e, bindings'[t])
    BY <2>1, <2>3 DEF Tells
  <2>5. owed'[s] = owed[s] \/ (s = t /\ owed'[s] = e)
    BY <1>3, <2>1 DEF Owe
  <2> QED
    BY <1>1, <2>2, <2>4, <2>5
<1>6. ASSUME NEW t \in PiSessions, AppendEntry(t)
      PROVE  entry \in Told(s) \/ Tells(entry, bindings'[s])
  <2>1. /\ log'[s] \in {log[s], owed[s]}
        /\ owed'[s] \in {owed[s], None}
    BY <1>3, <1>6 DEF AppendEntry
  <2> QED
    BY <1>1, <1>2, <2>1
<1>7. ASSUME NEW t \in PiSessions, Recover(t)
      PROVE  entry \in Told(s) \/ Tells(entry, bindings'[s])
  <2>1. owed'[s] \in {owed[s], None} /\ bindings' = bindings
    BY <1>3, <1>7 DEF Recover, control, registry
  <2>2. \/ log'[s] = log[s]
        \/ log'[s] = UnboundEntry
        \/ Resolves(s) /\ log'[s] = BoundEntry(bindings[s])
    BY <1>3, <1>7 DEF Recover
  <2>3. UnboundEntry.status = "unbound"
    BY DEF UnboundEntry
  <2>4. ASSUME Resolves(s)
        PROVE  Tells(BoundEntry(bindings[s]), bindings[s])
    <3>1. bindings[s] \in Binding /\ bindings[s] # None /\ bindings[s].bound
      BY <1>2, <2>4 DEF TypeOK, ControlTypeOK, Registry!TypeOK, Registry!Binding, Binding,
                        Resolves, IsBound
    <3> QED
      BY <3>1, EntryTyped DEF Tells
  <2> QED
    BY <1>1, <1>2, <2>1, <2>2, <2>3, <2>4
<1>8. ASSUME NEW t \in PiSessions, Die(t)
      PROVE  entry \in Told(s) \/ Tells(entry, bindings'[s])
  <2>1. log' = log /\ owed'[s] \in {owed[s], Restart}
    BY <1>3, <1>8 DEF Die
  <2> QED
    BY <1>1, <1>2, <2>1
<1>9. CASE \/ Start \/ End \/ Disturb \/ UNCHANGED vars
           \/ \E t \in Sessions, on \in BOOLEAN : Requested(t, on)
  BY <1>4, <1>9 DEF Start, Work, End, Disturb, vars, Requested
<1> QED
  BY <1>5, <1>6, <1>7, <1>8, <1>9, Steps

\* No step leaves a host's entry ahead of the registry.
LEMMA RecoveryStep ==
    ASSUME IInv, [Next]_vars
    PROVE  RecoveryTrue'
<1> SUFFICES ASSUME NEW s \in PiSessions, NEW entry \in Told(s)'
             PROVE  Behind(entry, bindings'[s])
  BY DEF RecoveryTrue, Behind
<1>1. TypeOK /\ RecoveryTrue
  BY DEF IInv
<1>2. CASE entry \in Told(s)
  <2>1. Behind(entry, bindings[s]) /\ entry \in Entry
    BY <1>1, <1>2 DEF RecoveryTrue, Behind, Told
  <2> QED
    BY <1>1, <2>1, StaysBehind, StepIsTransition, RoutingAssumption
       DEF TypeOK, ControlTypeOK
<1>3. CASE Tells(entry, bindings'[s])
  <2>1. entry.gen \in Nat
    BY DEF Told, Entry
  <2> QED
    BY <1>3, <2>1 DEF Tells, Behind
<1> QED
  BY <1>1, <1>2, <1>3, ToldNow

\* No step makes a claim that is not so, or takes from a claim what made it so.
LEMMA ClaimsStep ==
    ASSUME IInv, [Next]_vars
    PROVE  ClaimsKept'
<1>1. /\ TypeOK /\ ClaimsKept /\ Registry!TypeOK /\ [Registry!Next]_registry
  BY StepIsTransition DEF IInv, TypeOK, ControlTypeOK
<1>2. Registry!OneWorkspacePerEpic'
  <2>1. RP!OneWorkspacePerEpic <=> Registry!OneWorkspacePerEpic
    BY DEF RP!OneWorkspacePerEpic, Registry!OneWorkspacePerEpic
  <2>2. RP!OneWorkspacePerEpic' <=> Registry!OneWorkspacePerEpic'
    BY DEF RP!OneWorkspacePerEpic, Registry!OneWorkspacePerEpic
  <2>3. RP!OneWorkspacePerEpic'
    BY <1>1, <2>1, SameRegistry, RP!NextExclusive, RegistryRulesAssumption
       DEF ClaimsKept, Workspace, Binding, RP!Workspace, RP!Binding
  <2> QED
    BY <2>2, <2>3
<1> DEFINE Home(c) == /\ c.ws \in Workspaces /\ workspaces'[c.ws] # None
                      /\ workspaces'[c.ws].epic = c.epic
<1>3. ASSUME NEW c \in Claims
      PROVE  Home(c)
  <2>1. /\ c.ws \in Workspaces /\ workspaces[c.ws] # None
        /\ workspaces[c.ws].epic = c.epic /\ c.epic # None
    BY <1>1 DEF ClaimsKept, Claims
  <2> QED
    BY <1>1, <2>1, EpicsStay
<1>4. ASSUME NEW s \in Sessions, bindings'[s] # None, bindings'[s].epic # None
      PROVE  Home(bindings'[s])
  <2>1. CASE /\ bindings[s] # None
             /\ bindings'[s].ws = bindings[s].ws /\ bindings'[s].epic = bindings[s].epic
    <3>1. bindings[s] \in Claims
      BY <1>4, <2>1 DEF Claims
    <3> QED
      BY <1>3, <2>1, <3>1
  <2> QED
    BY <1>1, <1>4, <2>1, BindingsTell
<1>5. ASSUME NEW s \in PiSessions, NEW entry \in Told(s)', entry.epic # None
      PROVE  Home(entry)
  <2>1. CASE entry \in Told(s)
    <3>1. entry \in Claims
      BY <1>5, <2>1 DEF Claims
    <3> QED
      BY <1>3, <3>1
  <2>2. CASE Tells(entry, bindings'[s])
    <3>1. Home(bindings'[s])
      BY <1>4, <1>5, <2>2, RoutingAssumption DEF Tells
    <3> QED
      BY <2>2, <3>1 DEF Tells
  <2> QED
    BY <1>1, <2>1, <2>2, ToldNow
<1>6. \A c \in Claims' : Home(c)
  BY <1>4, <1>5 DEF Claims
<1> QED
  BY <1>2, <1>6 DEF ClaimsKept

\* The inductive invariant holds in every reachable state.
LEMMA Invariant == Spec => []IInv
<1>1. Init => IInv
  <2> SUFFICES ASSUME Init PROVE IInv
    OBVIOUS
  <2>1. ControlTypeOK
    BY DEF Init, ControlInit, ControlTypeOK, Registry!Init, Registry!TypeOK
  <2>2. RecoveryTrue
    BY RoutingAssumption DEF Init, RecoveryTrue, Told
  <2>3. ClaimsKept
    <3>1. Claims = {}
      BY RoutingAssumption DEF Init, ControlInit, Registry!Init, Claims, Told
    <3>2. Registry!OneWorkspacePerEpic
      BY DEF Init, ControlInit, Registry!Init, Registry!OneWorkspacePerEpic
    <3> QED
      BY <3>1, <3>2 DEF ClaimsKept
  <2> QED
    BY <2>1, <2>2, <2>3 DEF Init, IInv, TypeOK, CallKept, EpicKept, PrimaryKept, Working
<1>2. IInv /\ [Next]_vars => IInv'
  BY TypeStep, CallStep, RecoveryStep, ClaimsStep DEF IInv
<1> QED
  BY <1>1, <1>2, PTL DEF Spec

-----------------------------------------------------------------------------
(* Theorems *)

\* The types of calls and entries.
THEOREM TypeCorrect == Spec => []TypeOK
<1>1. IInv => TypeOK
  BY DEF IInv
<1> QED
  BY <1>1, Invariant, PTL

\* No tool call of a bound session works in the main checkout, whatever is
\* bound, released, enabled or disabled between the hook and the tool.
THEOREM NothingFallsBack == Spec => []NeverFallsBack
<1>1. IInv => NeverFallsBack
  <2> SUFFICES ASSUME IInv, Working, call.place = Primary
               PROVE  /\ call.seen = None
                      /\ ResolvedAgain /\ call.path = Relative => ~call.ran
    BY DEF NeverFallsBack
  <2>1. call # None /\ call \in Call /\ call.place # None
    BY DEF Working, IInv, TypeOK
  <2>2. call.seen # None => call.seen.ws \in Workspaces
    BY <2>1 DEF Call, Target
  <2>3. call.routed => call.seen # None /\ call.place = call.seen.ws
    BY <2>1 DEF IInv, CallKept
  <2>4. ~call.routed
    BY <2>2, <2>3, PrimaryAssumption
  <2> QED
    BY <2>1, <2>4 DEF IInv, CallKept, PrimaryKept
<1> QED
  BY <1>1, Invariant, PTL

\* A routed call works where the session was bound when it was let through,
\* and in the workspace of the Epic that the session was attached to.
THEOREM CallsStayInWorkspace == Spec => []StaysInWorkspace
<1>1. IInv => StaysInWorkspace
  BY DEF IInv, Working, StaysInWorkspace, CallKept, EpicKept
<1> QED
  BY <1>1, Invariant, PTL

\* A bound session's call is let through only if what the session takes its
\* workspace for is what everybody was told who was told of an Epic: no Epic of
\* theirs has that workspace, or the same, and theirs has no other.
THEOREM ClaimsAreRespected == Spec => ClaimsRespected
<1>1. IInv /\ [Next]_vars =>
          [call = None /\ call' # None /\ call'.seen # None =>
              \A c \in Claims : c.ws = call'.seen.ws <=> c.epic = call'.seen.epic]_vars
  <2> SUFFICES ASSUME IInv, Next, call = None, call' # None, call'.seen # None,
                      NEW c \in Claims
               PROVE  c.ws = call'.seen.ws <=> c.epic = call'.seen.epic
    OBVIOUS
  <2>1. TypeOK /\ ClaimsKept
    BY DEF IInv
  <2>2. PICK s \in Sessions, on \in BOOLEAN : Requested(s, on)
    BY <2>1, Steps DEF ToolEffect, Start, End, Disturb, AppendEntry, Recover, Die
  <2> DEFINE seen == call'.seen
  <2>3. seen = Seen(s) /\ HasRoot(s, on)
    BY <2>2 DEF Requested
  <2>4. /\ seen.ws \in Workspaces /\ workspaces[seen.ws] # None
        /\ seen.epic = workspaces[seen.ws].epic
    BY <2>1, <2>3, Rooted
  <2>5. /\ c.ws \in Workspaces /\ workspaces[c.ws] # None
        /\ c.epic = workspaces[c.ws].epic /\ c.epic # None
    BY <2>1 DEF ClaimsKept, Claims
  <2> HIDE DEF seen
  <2>6. c.epic = seen.epic => c.ws = seen.ws
    BY <2>1, <2>4, <2>5 DEF ClaimsKept, Registry!OneWorkspacePerEpic
  <2>7. c.ws = seen.ws <=> c.epic = seen.epic
    BY <2>4, <2>5, <2>6
  <2> QED
    BY <2>7 DEF seen
<1> QED
  BY <1>1, Invariant, PTL DEF Spec, ClaimsRespected

\* No session log, and no entry about to be appended, is ahead of the registry
\* or contradicts it.
THEOREM LogsAreTrue == Spec => []RecoveryTrue
<1>1. IInv => RecoveryTrue
  BY DEF IInv
<1> QED
  BY <1>1, Invariant, PTL
=============================================================================
