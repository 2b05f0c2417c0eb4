--------------------------- MODULE SessionRouting ---------------------------
(***************************************************************************)
(* The hooks and session tools of extensions/pi-tools/index.ts and         *)
(* opencode-tools/index.ts, and resolveContextPath: where a tool call of a *)
(* host session ends up, and the recovery entries a Pi session keeps of    *)
(* its binding.                                                            *)
(*                                                                         *)
(* A host asks the hook first and starts the tool later; what happens in   *)
(* between is any step of this module.  One tool call is in flight at a    *)
(* time: two calls share the registry, which both only read.               *)
(***************************************************************************)
EXTENDS ProjectRoot

CONSTANTS
    PiSessions,  \* the sessions of Pi; the others are OpenCode's
    Relative,    \* a path that is relative to the root the tool runs in
    Restart,     \* a Pi session whose session_start has to run
    Paths        \* bound: the paths that tools are called with

\* What a session log says of the binding.
Entry == [status : {"unbound", "bound", "released"}, ws : Workspaces \cup {None},
          epic : Epics \cup {None}, gen : Nat]
\* What the hook of a host sees of a binding.
Target == [ws : Workspaces, epic : Epics \cup {None}]

ASSUME RoutingAssumption ==
    /\ PiSessions \subseteq Sessions
    /\ Relative \notin Places /\ Paths \subseteq Places \cup {Relative}
    /\ None \notin Entry \cup Target /\ Restart \notin Entry /\ None # Restart

\* "file": a tool whose path the hook knows; "bash": Pi runs it in a resolved
\* root, as its file tools; "other": a tool of somebody else.
Tools == {"file", "bash", "other"}

VARIABLES
    call,  \* the tool call in flight
    log,   \* the last recovery entry of each Pi session
    owed   \* the entry that a running session tool is about to append

vars == <<control, call, log, owed>>

(***************************************************************************)
(* seen: what the session was bound to when the hook let the call through. *)
(* path: what the hook made of the path.  place: where the tool works,     *)
(* None before it starts, and ran: whether the session was bound then.     *)
(***************************************************************************)
Call == [session : Sessions, tool : Tools, path : Places \cup {Relative},
         routed : BOOLEAN, seen : Target \cup {None},
         place : Places \cup {None}, ran : BOOLEAN]

-----------------------------------------------------------------------------
(* Paths *)

\* resolveContextPath, of a routed call: where a path leads, and the refusal
\* outside the root.
Located(s, path) == IF path = Relative THEN Root(s, TRUE) ELSE path
\* Mutant: an absolute path is taken as it is.
EscapesNever(s, path) == FALSE
Escapes(s, path) == Located(s, path) # Root(s, TRUE)

-----------------------------------------------------------------------------
(* Recovery entries *)

BoundEntry(binding) ==
    [status |-> "bound", ws |-> binding.ws, epic |-> binding.epic, gen |-> binding.gen]
UnboundEntry ==
    [status |-> "unbound", ws |-> None, epic |-> None, gen |-> 0]
\* Mutant: the entry of a release looks like that of a binding.
ReleasedEntryUnmarked(binding) == [BoundEntry(binding) EXCEPT !.gen = @ + 1]
\* The entry of a release is computed from the binding resolved before it.
ReleasedEntry(binding) ==
    [BoundEntry(binding) EXCEPT !.status = "released", !.gen = @ + 1]

\* A session tool runs in a live host, and a Pi host appends its entry next.
Idle(s) == s \in PiSessions => owed[s] = None
Owe(s, entry) ==
    owed' = IF s \in PiSessions THEN [owed EXCEPT ![s] = entry] ELSE owed

-----------------------------------------------------------------------------
Init ==
    /\ ControlInit
    /\ call = None
    /\ log = [s \in PiSessions |-> None]
    /\ owed = [s \in PiSessions |-> Restart]

(* Session tools *)

\* The session is told the result, and a Pi session will append the entry.
Answer(s, entry) == Idle(s) /\ Owe(s, entry) /\ UNCHANGED <<call, log>>

SessionAllocate(s, w) ==
    Open(s, w, None, 2) /\ Answer(s, BoundEntry(bindings'[s]))
SessionAdopt(s, w, e) ==
    Open(s, w, e, 1) /\ Answer(s, BoundEntry(bindings'[s]))
SessionAttachEpic(s, e) ==
    Attach(s, e) /\ Answer(s, BoundEntry(bindings'[s]))
SessionBind(s, w) ==
    Bind(s, w) /\ Answer(s, BoundEntry(bindings'[s]))
\* workspace_session_bind to the workspace the session is bound to already.
SessionBindAgain(s) ==
    Resolves(s) /\ Answer(s, BoundEntry(bindings[s])) /\ UNCHANGED control
\* Pi resolves the session before it releases it.
SessionRelease(s) ==
    /\ s \in PiSessions => Resolves(s)
    /\ Release(s) /\ Answer(s, ReleasedEntry(bindings[s]))

\* The other half of a session tool of Pi.
AppendEntry(s) ==
    /\ owed[s] \in Entry
    /\ log' = [log EXCEPT ![s] = owed[s]]
    /\ owed' = [owed EXCEPT ![s] = None]
    /\ UNCHANGED <<control, call>>

\* Mutant: an entry is only made of a session that has none.
RecoverOnce(s) ==
    /\ owed[s] \in {None, Restart}
    /\ owed' = [owed EXCEPT ![s] = None]
    /\ IF Resolves(s) /\ log[s] = None
       THEN log' = [log EXCEPT ![s] = BoundEntry(bindings[s])]
       ELSE UNCHANGED log
    /\ UNCHANGED <<control, call>>
(***************************************************************************)
(* recordSessionRecovery, at session_start and at every compaction.  Only  *)
(* a session that was never bound is recorded as unbound: of a released or *)
(* stale binding, and of any with routing disabled, nothing is recorded.   *)
(***************************************************************************)
Recover(s) ==
    /\ owed[s] \in {None, Restart}
    /\ owed' = [owed EXCEPT ![s] = None]
    /\ CASE Resolves(s) -> log' = [log EXCEPT ![s] = BoundEntry(bindings[s])]
         [] routing /\ bindings[s] = None -> log' = [log EXCEPT ![s] = UnboundEntry]
         [] OTHER -> UNCHANGED log
    /\ UNCHANGED <<control, call>>

-----------------------------------------------------------------------------
(* Tool calls *)

Seen(s) ==
    IF IsBound(bindings[s]) THEN [ws |-> bindings[s].ws, epic |-> bindings[s].epic]
                            ELSE None
Request(s, tool, path, routed) ==
    call' = [session |-> s, tool |-> tool, path |-> path, routed |-> routed,
             seen |-> Seen(s), place |-> None, ran |-> FALSE]

\* routePiToolCall and createToolRoutingHook let the call through: unchanged
\* with routing disabled, or with the path replaced by the one it resolved to.
Pass(s, tool, path, on) ==
    /\ call = None /\ Idle(s) /\ HasRoot(s, on)
    /\ \/ ~on /\ Request(s, tool, path, FALSE)
       \/ /\ on /\ tool = "file" /\ ~Escapes(s, path)
          /\ Request(s, tool, Located(s, path), TRUE)
    /\ UNCHANGED <<control, log, owed>>

Work(root) ==
    /\ call' = [call EXCEPT !.place = IF call.path = Relative THEN root ELSE call.path,
                            !.ran = IsBound(bindings[call.session])]
    /\ UNCHANGED <<control, log, owed>>

ResolvedAgain == call.session \in PiSessions /\ call.tool # "other"

\* Pi's own tools run in the root of a second resolution; every other tool in
\* the directory of the host, which is the main checkout.
Start ==
    /\ call # None /\ call.place = None /\ Idle(call.session)
    /\ \/ /\ ResolvedAgain
          /\ \E on \in BOOLEAN :
                 HasRoot(call.session, on) /\ Work(Root(call.session, on))
       \/ ~ResolvedAgain /\ Work(Primary)

\* projectRoot: a tool of harnessctl resolves once and works at once.
RunProjectTool(s, on) ==
    /\ call = None /\ Idle(s) /\ HasRoot(s, on)
    /\ call' = [session |-> s, tool |-> "file", path |-> Root(s, on), routed |-> on,
                seen |-> Seen(s), place |-> Root(s, on), ran |-> IsBound(bindings[s])]
    /\ UNCHANGED <<control, log, owed>>

\* The tool ends; or the call is refused, by the second resolution or the user.
End ==
    /\ call # None
    /\ call' = None
    /\ UNCHANGED <<control, log, owed>>

-----------------------------------------------------------------------------
(* The environment *)

Disturb ==
    /\ SetRouting \/ \E w \in Workspaces : ChangeTopology(w)
    /\ UNCHANGED <<call, log, owed>>

\* The host of a Pi session dies, perhaps between a transition and its entry.
Die(s) ==
    /\ owed[s] # Restart
    /\ owed' = [owed EXCEPT ![s] = Restart]
    /\ call' = IF call # None /\ call.session = s THEN None ELSE call
    /\ UNCHANGED <<control, log>>

SessionTool(s) ==
    \/ \E w \in Workspaces : SessionAllocate(s, w) \/ SessionBind(s, w)
    \/ \E w \in Workspaces, e \in Epics : SessionAdopt(s, w, e)
    \/ \E e \in Epics : SessionAttachEpic(s, e)
    \/ SessionBindAgain(s) \/ SessionRelease(s)

Next ==
    \/ \E s \in Sessions :
        \/ SessionTool(s)
        \/ \E on \in BOOLEAN :
            \/ RunProjectTool(s, on)
            \/ \E tool \in Tools, path \in Paths : Pass(s, tool, path, on)
    \/ Start \/ End
    \/ \E s \in PiSessions : AppendEntry(s) \/ Recover(s) \/ Die(s)
    \/ Disturb

Spec == Init /\ [][Next]_vars

(***************************************************************************)
(* A session tool of Pi appends its entry in the same turn of the event    *)
(* loop, unless its host dies; a dead session is started again, and a live *)
(* one is compacted again and again.                                       *)
(***************************************************************************)
FairSpec == Spec /\ \A s \in PiSessions : WF_vars(AppendEntry(s)) /\ WF_vars(Recover(s))

-----------------------------------------------------------------------------
(* Properties *)

TypeOK ==
    /\ ControlTypeOK
    /\ call \in Call \cup {None}
    /\ log \in [PiSessions -> Entry \cup {None}]
    /\ owed \in [PiSessions -> Entry \cup {None, Restart}]

Working == call # None /\ call.place # None

\* A tool works in the main checkout only on behalf of a session that was
\* unbound when the call was let through, and still when a tool of Pi that
\* was given no absolute path started: whatever is bound, released, enabled or
\* disabled between the hook and the tool, and between the two reads of either.
NeverFallsBack ==
    Working /\ call.place = Primary =>
        /\ call.seen = None
        /\ ResolvedAgain /\ call.path = Relative => ~call.ran

\* A routed call works in the workspace its session was bound to then, and in
\* the workspace of the Epic the session was attached to, also if the session
\* was bound to another workspace or released before the tool started.
StaysInWorkspace ==
    Working /\ call.routed =>
        /\ call.seen # None /\ call.place = call.seen.ws
        /\ call.seen.epic # None => workspaces[call.place].epic = call.seen.epic

Told(s) == {entry \in {log[s], owed[s]} : entry \in Entry /\ entry.status # "unbound"}

\* Whatever says of a workspace that it is an Epic's: a binding, also one that
\* is released or superseded, and what a Pi session was told.
Claims ==
    {c \in {bindings[s] : s \in Sessions} \ {None} : c.epic # None}
        \cup {c \in UNION {Told(s) : s \in PiSessions} : c.epic # None}

\* No call is let through for a bound session that sees its workspace
\* otherwise than somebody else was told: as free when another session has
\* attached it to an Epic, as another Epic's, or as that of an Epic that has
\* its home elsewhere.  Whoever works for an Epic works in one place, and
\* nobody works there unawares.
ClaimsRespected ==
    [][call = None /\ call' # None /\ call'.seen # None =>
           \A c \in Claims : c.ws = call'.seen.ws <=> c.epic = call'.seen.epic]_vars

\* What a Pi session log says, or is about to say, was never ahead of the
\* registry and is what the registry says if it is not behind it: it points a
\* later session at no workspace the binding did not have.
RecoveryTrue ==
    \A s \in PiSessions : \A entry \in Told(s) :
        /\ bindings[s] # None /\ entry.gen <= bindings[s].gen
        /\ entry.gen = bindings[s].gen =>
              /\ entry.ws = bindings[s].ws /\ entry.epic = bindings[s].epic
              /\ bindings[s].bound <=> entry.status = "bound"

\* The entry of a binding that keeps resolving is recorded in the end, also if
\* the host died before it was appended.
RecoveryCatchesUp ==
    \A s \in PiSessions :
        [](Resolves(s) => <>(~Resolves(s) \/ log[s] = BoundEntry(bindings[s])))
=============================================================================
