----------------------------- MODULE IssueGraph -----------------------------
(***************************************************************************)
(* What the issue tracker of extensions/generic-tools/issues.ts promises:  *)
(* a graph of issues, changed by whole operations (IssueOperations).  A    *)
(* crash or a failed roll-back may leave partial files; they are then      *)
(* reported, and no promise is made from there on.                         *)
(***************************************************************************)
EXTENDS IssueOperations

VARIABLES
    issues,  \* the graph, as later operations find it
    health   \* "sound", "harmed" by a failure, or "reported" as inconsistent

vars == <<issues, health>>

-----------------------------------------------------------------------------
Init == issues = {} /\ health = "sound"

\* A process dies, or a roll-back fails, with nothing lost ...
Harm == health = "sound" /\ health' = "harmed" /\ UNCHANGED issues
\* ... or with partial files, which every later call reports.
Damage == health' = "reported" /\ issues' = {}

\* A dying call may have taken effect.
Next ==
    /\ health # "reported"
    /\ \/ Changed(issues, issues') /\ health' \in {health, "harmed"}
       \/ Harm \/ Damage

Spec == Init /\ [][Next]_vars
-----------------------------------------------------------------------------
TypeOK ==
    /\ issues \subseteq Issue
    /\ health \in {"sound", "harmed", "reported"}

\* Every reachable graph is one that validateUnlocked accepts, so operations
\* never lock themselves out.
GraphValid == Valid(issues)

\* No dependency cycle is ever stored.
DependenciesAcyclic == NoCycle(DependencyEdges(issues))

\* A parent is where its children are, so that an archived issue, which
\* archive skips, has no active descendants.
FamiliesTogether ==
    \A i \in issues : \A p \in i.parent :
        \E q \in issues : q.id = p /\ q.loc = i.loc

\* Unless it is reported, no issue is ever lost, no comment is taken back and
\* no archived issue changes.
NothingLost ==
    [][health' # "reported" =>
          \A i \in issues : \E j \in issues' :
              /\ j.id = i.id /\ j.comments >= i.comments
              /\ i.loc = "archived" => j = i]_vars
=============================================================================
