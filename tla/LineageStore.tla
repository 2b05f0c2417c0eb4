---------------------------- MODULE LineageStore ----------------------------
(***************************************************************************)
(* What the document store promises: a set of documents, changed by whole  *)
(* operations.  docs/documents.md states the rules: an identity has        *)
(* versions 1 to n, only the newest active version is mutable, archive and *)
(* restore move the complete lineage, and nothing is deleted.              *)
(***************************************************************************)
EXTENDS DocumentRules

Document  == [loc : Locations, doc : Docs, ver : Versions,
              title : Titles, rev : Revisions]

VARIABLE documents
vars == <<documents>>

Lineage(d) == {f \in documents : f.doc = d}
IsCurrent(f) == \A g \in Lineage(f.doc) : g.ver <= f.ver

Init == documents = {}

Create(d, t, r) ==
    /\ Lineage(d) = {}
    /\ documents' = documents \cup
           {[loc |-> "active", doc |-> d, ver |-> 1, title |-> t, rev |-> r]}

Update(f, t, r) ==
    /\ f.loc = "active" /\ IsCurrent(f)
    /\ documents' = (documents \ {f})
                        \cup {[f EXCEPT !.title = t, !.rev = r]}

Version(f, t, r) ==
    /\ f.loc = "active" /\ IsCurrent(f) /\ f.ver < MaxVersion
    /\ documents' = documents \cup
           {[f EXCEPT !.ver = f.ver + 1, !.title = t, !.rev = r]}

Moved(f, l) == [f EXCEPT !.loc = l]

Move(d, l) ==
    /\ \A f \in Lineage(d) : f.loc # l
    /\ documents' = (documents \ Lineage(d))
                        \cup {Moved(f, l) : f \in Lineage(d)}

Next ==
    \/ \E d \in Docs, t \in Titles, r \in Revisions : Create(d, t, r)
    \/ \E f \in documents, t \in Titles, r \in Revisions :
           Update(f, t, r) \/ Version(f, t, r)
    \/ \E d \in Docs, l \in Locations : Move(d, l)

Spec == Init /\ [][Next]_vars

-----------------------------------------------------------------------------
(* Properties *)

TypeOK == documents \subseteq Document

\* An identity is in one location and has versions 1 to n, one file each.
Coherent ==
    \A f \in documents :
        /\ \A g \in Lineage(f.doc) : g.loc = f.loc /\ (g.ver = f.ver => g = f)
        /\ \A v \in 1..f.ver : \E g \in Lineage(f.doc) : g.ver = v

\* No step deletes a version, and only the newest version of an active lineage
\* may change what it says: earlier versions are immutable.
Retained(f) ==
    \E g \in documents' :
        /\ g.doc = f.doc /\ g.ver = f.ver
        /\ \/ g.title = f.title /\ g.rev = f.rev
           \/ f.loc = "active" /\ IsCurrent(f)
VersionsRetained == [][\A f \in documents : Retained(f)]_vars
=============================================================================
