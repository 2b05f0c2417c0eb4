----------------------------- MODULE IssueRules -----------------------------
(***************************************************************************)
(* The rules of the issue graph, shared by IssueGraph and IssueStore: what *)
(* a valid graph is and the questions operations ask of one.  A graph is a *)
(* set of records with at least the fields of Issue.                       *)
(***************************************************************************)
EXTENDS Naturals

CONSTANTS
    Ids,    \* issue identities, as numbers in their order
    Types   \* the issue types in use

IssueTypes == {"initiative", "epic", "story", "task", "bug"}

ASSUME IssueRulesAssumption == Ids \subseteq Nat /\ Types \subseteq IssueTypes

AllowedParents ==
    [initiative |-> {},
     epic       |-> {"initiative"},
     story      |-> {"epic", "initiative"},
     task       |-> {"story", "epic"},
     bug        |-> {"story", "task", "epic"}]

\* A parent is a set: empty, or one identity.  relates stands for relates_to
\* and duplicates, which the code treats alike; comments is their number.
Parents == {{}} \cup {{p} : p \in Ids}
Issue == [id : Ids, loc : {"active", "archived"}, type : Types,
          parent : Parents, depends : SUBSET Ids, relates : SUBSET Ids,
          supersedes : SUBSET Ids, comments : Nat]

Active(g) == {i \in g : i.loc = "active"}
Named(g)  == {i.id : i \in g}

MayParent(p, type) == p.type \in AllowedParents[type]
HasParent(g, p, type) == \E q \in g : q.id = p /\ MayParent(q, type)

ParentEdges(g)     == {<<i.id, i.parent>> : i \in g}
DependencyEdges(g) == {<<i.id, i.depends>> : i \in g}

\* Edges map identities to sets of identities.  They form a cycle iff every
\* member of some non-empty set has a successor in that set.
NoCycle(edges) ==
    \A S \in SUBSET Ids : S # {} =>
        \E x \in S : \A e \in edges : e[1] = x => e[2] \cap S = {}

\* S holds the successors of each of its members.
Closed(edges, S) == \A e \in edges : e[1] \in S => e[2] \subseteq S

\* hasHierarchyCycle: the way up from an issue leads to target.
Above(g, from, target) ==
    \A S \in SUBSET Ids :
        from \in S /\ Closed(ParentEdges(Active(g)), S) => target \in S

\* Mutant: only the direct dependencies are looked at.
DependsDirectly(g, from, target) ==
    \E i \in Active(g) : i.id = from /\ target \in i.depends

\* hasDependencyPath: dependencies lead from an issue to target, or to an
\* issue that is not active, on which the code throws.
DependsOn(g, from, target) ==
    \A S \in SUBSET Named(Active(g)) :
        from \in S /\ Closed(DependencyEdges(Active(g)), S) => target \in S

\* An issue and its descendants, wherever they are.
Subtree(g, root) ==
    {x \in Ids : \A S \in SUBSET Ids :
        root \in S /\ (\A i \in g : i.parent \cap S # {} => i.id \in S) => x \in S}

UniqueIds(g) == \A i, j \in g : i.id = j.id => i = j
ParentsAllowed(g) == \A i \in g : \A p \in i.parent : HasParent(g, p, i.type)
ReferencesResolve(g) ==
    \A i \in g :
        /\ i.depends \cup i.relates \cup i.supersedes \subseteq Named(g) \ {i.id}
        /\ \A r \in i.relates : i.id < r

\* validateUnlocked, over active and archived issues.
Valid(g) ==
    /\ UniqueIds(g)
    /\ ParentsAllowed(g)
    /\ ReferencesResolve(g)
    /\ NoCycle(ParentEdges(g)) /\ NoCycle(DependencyEdges(g))
=============================================================================
