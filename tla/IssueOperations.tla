--------------------------- MODULE IssueOperations ---------------------------
(***************************************************************************)
(* What the operations of extensions/generic-tools/issues.ts make of an    *)
(* issue graph: relations between the graph g that an operation reads and  *)
(* the graph h that it leaves.  docs/issues.md and doc-00006 state the     *)
(* rules: a typed hierarchy, append-only comments, an archive that takes   *)
(* an issue and its active descendants, and nothing ever deleted.          *)
(***************************************************************************)
EXTENDS IssueRules

Replaced(g, i, n) == (g \ {i}) \cup {n}

Created(g, h, id, type, parent, depends) ==
    /\ id \notin Named(g)
    /\ \A p \in parent : HasParent(Active(g), p, type)
    /\ depends \subseteq Named(Active(g))
    /\ h = g \cup
           {[id |-> id, loc |-> "active", type |-> type, parent |-> parent,
             depends |-> depends, relates |-> {}, supersedes |-> {},
             comments |-> 0]}

\* The type or the parent changes; parent and children still have to fit.
Updated(g, h, i, type, parent) ==
    /\ \A p \in parent :
          /\ p # i.id
          /\ HasParent(Active(g), p, type)
          /\ ~Above(g, p, i.id)
    /\ \A c \in Active(g) : i.id \in c.parent => type \in AllowedParents[c.type]
    /\ h = Replaced(g, i, [i EXCEPT !.type = type, !.parent = parent])

Commented(g, h, i) == h = Replaced(g, i, [i EXCEPT !.comments = @ + 1])

DependencyAdded(g, h, i, j) ==
    /\ ~DependsOn(g, j.id, i.id)
    /\ h = Replaced(g, i, [i EXCEPT !.depends = @ \cup {j.id}])
DependencyRemoved(g, h, i, j) ==
    h = Replaced(g, i, [i EXCEPT !.depends = @ \ {j.id}])

\* A symmetric relation is stored once, at the smaller identity.
RelationAdded(g, h, i, j) ==
    i.id < j.id /\ h = Replaced(g, i, [i EXCEPT !.relates = @ \cup {j.id}])
RelationRemoved(g, h, i, j) ==
    h = Replaced(g, i, [i EXCEPT !.relates = @ \ {j.id}])

SupersessionAdded(g, h, i, j) ==
    i.id # j.id /\ h = Replaced(g, i, [i EXCEPT !.supersedes = @ \cup {j.id}])
SupersessionRemoved(g, h, i, j) ==
    h = Replaced(g, i, [i EXCEPT !.supersedes = @ \ {j.id}])

\* The active part of a subtree is archived; its root loses its parent.
Moved(i, S) == [i EXCEPT !.loc = "archived", !.parent = @ \cap S]
ActiveSubtree(g, i) == Subtree(g, i.id) \cap Named(Active(g))
Archived(g, h, i) ==
    h = {IF j.id \in ActiveSubtree(g, i) THEN Moved(j, ActiveSubtree(g, i)) ELSE j : j \in g}

\* One whole operation.
Changed(g, h) ==
    \/ \E id \in Ids, type \in Types, parent \in Parents, depends \in SUBSET Ids :
           Created(g, h, id, type, parent, depends)
    \/ \E i \in Active(g) :
           \/ \E type \in Types, parent \in Parents : Updated(g, h, i, type, parent)
           \/ Commented(g, h, i) \/ Archived(g, h, i)
           \/ \E j \in Active(g) :
                  \/ DependencyAdded(g, h, i, j) \/ DependencyRemoved(g, h, i, j)
                  \/ RelationAdded(g, h, i, j) \/ RelationRemoved(g, h, i, j)
                  \/ SupersessionAdded(g, h, i, j) \/ SupersessionRemoved(g, h, i, j)
=============================================================================
