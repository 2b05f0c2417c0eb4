------------------------- MODULE IssueStore_proofs -------------------------
(***************************************************************************)
(* Proofs about the issue tracker.  First the operations on a graph of     *)
(* issues, which keep it sound; then the batches of files with which the   *)
(* store carries them out; then the theorems, for any identities, titles,  *)
(* faults and bounds.                                                      *)
(***************************************************************************)
EXTENDS IssueStore, IssueOperations, TLAPS

-----------------------------------------------------------------------------
(* Cycles *)

(* The cycle check of relate is enough: if x gains successor y, and a      *)
(* closed set holds y and not x, no cycle appears.                         *)
LEMMA EdgeAdded ==
    ASSUME NEW E, NEW F, NEW x \in Ids, NEW y \in Ids, NoCycle(E),
           NEW C \in SUBSET Ids, y \in C, x \notin C, Closed(E, C),
           \A e \in F : \E d \in E :
               /\ d[1] = e[1]
               /\ e[2] \subseteq d[2] \/ (e[1] = x /\ e[2] \subseteq d[2] \cup {y})
    PROVE  NoCycle(F)
<1> SUFFICES ASSUME NEW S \in SUBSET Ids, S # {},
                    \A s \in S : \E e \in F : e[1] = s /\ e[2] \cap S # {}
             PROVE  FALSE
  BY DEF NoCycle
<1>1. CASE S \cap C # {}
  <2>1. PICK s \in S \cap C : \A d \in E : d[1] = s => d[2] \cap (S \cap C) = {}
    BY <1>1 DEF NoCycle
  <2>2. PICK e \in F : e[1] = s /\ e[2] \cap S # {}
    BY <2>1
  <2>3. PICK d \in E : d[1] = s /\ e[2] \subseteq d[2]
    BY <2>1, <2>2
  <2>4. d[2] \subseteq C
    BY <2>1, <2>3 DEF Closed
  <2> QED
    BY <2>1, <2>2, <2>3, <2>4
<1>2. CASE S \cap C = {}
  <2>1. PICK s \in S : \A d \in E : d[1] = s => d[2] \cap S = {}
    BY DEF NoCycle
  <2>2. PICK e \in F : e[1] = s /\ e[2] \cap S # {}
    BY <2>1
  <2>3. PICK d \in E : d[1] = s /\ e[2] \subseteq d[2] \cup {y}
    BY <2>2
  <2> QED
    BY <1>2, <2>1, <2>2, <2>3
<1> QED
  BY <1>1, <1>2

(* Removing successors cannot make a cycle. *)
LEMMA EdgesRemoved ==
    ASSUME NEW E, NEW F, NoCycle(E),
           \A e \in F : \E d \in E : d[1] = e[1] /\ e[2] \subseteq d[2]
    PROVE  NoCycle(F)
<1> SUFFICES ASSUME NEW S \in SUBSET Ids, S # {}
             PROVE  \E s \in S : \A e \in F : e[1] = s => e[2] \cap S = {}
  BY DEF NoCycle
<1>1. PICK s \in S : \A d \in E : d[1] = s => d[2] \cap S = {}
  BY DEF NoCycle
<1> QED
  BY <1>1

(* A new issue that nobody refers to cannot be part of a cycle. *)
LEMMA NodeAdded ==
    ASSUME NEW E, NEW x \in Ids, NEW D, NoCycle(E), x \notin D,
           \A e \in E : x \notin e[2]
    PROVE  NoCycle(E \cup {<<x, D>>})
<1> SUFFICES ASSUME NEW S \in SUBSET Ids, S # {}
             PROVE  \E s \in S : \A e \in E \cup {<<x, D>>} : e[1] = s => e[2] \cap S = {}
  BY DEF NoCycle
<1>1. CASE S \ {x} # {}
  <2>1. PICK s \in S \ {x} : \A e \in E : e[1] = s => e[2] \cap (S \ {x}) = {}
    BY <1>1 DEF NoCycle
  <2>2. \A e \in E : e[1] = s => e[2] \cap S = {}
    BY <2>1
  <2> QED
    BY <2>1, <2>2
<1>2. CASE S = {x}
  BY <1>2
<1> QED
  BY <1>1, <1>2

(* The types of the hierarchy alone exclude a cycle of parents: a parent   *)
(* is always of a higher type.                                             *)
LEMMA TypedHierarchy ==
    ASSUME NEW g, g \subseteq Issue, UniqueIds(g), ParentsAllowed(g)
    PROVE  NoCycle(ParentEdges(g))
<1> SUFFICES ASSUME NEW S \in SUBSET Ids, S # {},
                    \A s \in S : \E e \in ParentEdges(g) : e[1] = s /\ e[2] \cap S # {}
             PROVE  FALSE
  BY DEF NoCycle
<1>1. \A s \in S : \E i, q \in g :
          i.id = s /\ q.id \in S /\ q.type \in AllowedParents[i.type]
  <2> SUFFICES ASSUME NEW s \in S
               PROVE  \E i, q \in g :
                          i.id = s /\ q.id \in S /\ q.type \in AllowedParents[i.type]
    OBVIOUS
  <2>1. PICK i \in g : i.id = s /\ i.parent \cap S # {}
    BY DEF ParentEdges
  <2>2. PICK p \in i.parent : p \in S
    BY <2>1
  <2>3. PICK q \in g : q.id = p /\ q.type \in AllowedParents[i.type]
    BY <2>2 DEF ParentsAllowed, HasParent, MayParent
  <2> QED
    BY <2>1, <2>2, <2>3
<1>2. \A i \in g : i.id \in S =>
          \E q \in g : q.id \in S /\ q.type \in AllowedParents[i.type]
  BY <1>1 DEF UniqueIds
<1>3. \A i \in g : i.type \in IssueTypes
  BY IssueRulesAssumption DEF Issue
<1>4. \A i \in g : i.id \in S => i.type # "initiative"
  BY <1>2 DEF AllowedParents
<1>5. \A i \in g : i.id \in S => i.type # "epic"
  BY <1>2, <1>4 DEF AllowedParents
<1>6. \A i \in g : i.id \in S => i.type # "story"
  BY <1>2, <1>4, <1>5 DEF AllowedParents
<1>7. \A i \in g : i.id \in S => i.type # "task"
  BY <1>2, <1>5, <1>6 DEF AllowedParents
<1>8. \A i \in g : i.id \in S => i.type # "bug"
  BY <1>2, <1>5, <1>6, <1>7 DEF AllowedParents
<1>9. PICK i \in g : i.id \in S
  BY <1>1
<1> QED
  BY <1>3, <1>4, <1>5, <1>6, <1>7, <1>8, <1>9 DEF IssueTypes

-----------------------------------------------------------------------------
(* The inductive invariant, about a set of issues *)

Sound(g) ==
    /\ g \subseteq Issue
    /\ UniqueIds(g) /\ ParentsAllowed(g) /\ ReferencesResolve(g)
    /\ NoCycle(DependencyEdges(g))
    /\ \A i \in g : \A p \in i.parent : \E q \in g : q.id = p /\ q.loc = i.loc

(* A rewritten issue that keeps its identity and its location keeps the    *)
(* graph sound if its parents and children fit and its references resolve. *)
LEMMA ReplacedSound ==
    ASSUME NEW g, Sound(g), NEW i \in g, NEW n \in Issue,
           n.id = i.id, n.loc = i.loc,
           \A p \in n.parent : \E q \in g :
               q.id = p /\ q # i /\ q.loc = n.loc /\ MayParent(q, n.type),
           \A c \in g : i.id \in c.parent => n.type \in AllowedParents[c.type],
           n.depends \cup n.relates \cup n.supersedes \subseteq Named(g) \ {n.id},
           \A r \in n.relates : n.id < r,
           NoCycle(DependencyEdges(Replaced(g, i, n)))
    PROVE  Sound(Replaced(g, i, n))
<1> DEFINE h == Replaced(g, i, n)
<1>1. /\ n \in h
      /\ \A j \in g : j # i => j \in h
      /\ \A j \in h : j = n \/ (j \in g /\ j # i)
  BY DEF Replaced
<1>2. g \subseteq Issue /\ UniqueIds(g)
  BY DEF Sound
<1> HIDE DEF h
<1>3. h \subseteq Issue
  BY <1>1, <1>2
<1>4. UniqueIds(h)
  BY <1>1, <1>2 DEF UniqueIds
<1>5. \A q \in g : \E r \in h :
          /\ r.id = q.id /\ r.loc = q.loc
          /\ r.type = IF q = i THEN n.type ELSE q.type
  BY <1>1
<1>6. Named(h) = Named(g)
  BY <1>1, <1>5 DEF Named
<1>7. ParentsAllowed(h)
  <2> SUFFICES ASSUME NEW j \in h, NEW p \in j.parent
               PROVE  \E r \in h : r.id = p /\ r.type \in AllowedParents[j.type]
    BY DEF ParentsAllowed, HasParent, MayParent
  <2>1. CASE j = n
    BY <2>1, <1>1 DEF MayParent
  <2>2. CASE j \in g
    <3>1. PICK q \in g : q.id = p /\ q.type \in AllowedParents[j.type]
      BY <2>2 DEF Sound, ParentsAllowed, HasParent, MayParent
    <3>2. CASE q = i
      BY <3>1, <3>2, <2>2, <1>1
    <3>3. CASE q # i
      BY <3>1, <3>3, <1>1
    <3> QED
      BY <3>2, <3>3
  <2> QED
    BY <2>1, <2>2, <1>1
<1>8. ReferencesResolve(h)
  BY <1>1, <1>6 DEF ReferencesResolve, Sound
<1>9. \A j \in h : \A p \in j.parent : \E r \in h : r.id = p /\ r.loc = j.loc
  <2> SUFFICES ASSUME NEW j \in h, NEW p \in j.parent
               PROVE  \E r \in h : r.id = p /\ r.loc = j.loc
    OBVIOUS
  <2>1. PICK q \in g : q.id = p /\ q.loc = j.loc
    BY <1>1 DEF Sound
  <2> QED
    BY <2>1, <1>5
<1> QED
  BY <1>3, <1>4, <1>7, <1>8, <1>9 DEF Sound, h

(* No issue type may be the parent of itself. *)
LEMMA NoOwnParent == \A t \in IssueTypes : t \notin AllowedParents[t]
BY DEF IssueTypes, AllowedParents

(* In a sound graph parents are other issues, in the same place, of a      *)
(* fitting type, so that an issue whose type and parent stay fits as well. *)
LEMMA FamilyFits ==
    ASSUME NEW g, Sound(g), NEW i \in g
    PROVE  /\ \A p \in i.parent : \E q \in g :
                  q.id = p /\ q # i /\ q.loc = i.loc /\ MayParent(q, i.type)
           /\ \A c \in g : i.id \in c.parent =>
                  i.type \in AllowedParents[c.type] /\ c.loc = i.loc
<1>1. g \subseteq Issue /\ UniqueIds(g) /\ ParentsAllowed(g)
  BY DEF Sound
<1>2. \A c \in g : \A p \in c.parent : \E q \in g :
          q.id = p /\ q.loc = c.loc /\ MayParent(q, c.type)
  <2> SUFFICES ASSUME NEW c \in g, NEW p \in c.parent
               PROVE  \E q \in g : q.id = p /\ q.loc = c.loc /\ MayParent(q, c.type)
    OBVIOUS
  <2>1. PICK q \in g : q.id = p /\ MayParent(q, c.type)
    BY <1>1 DEF ParentsAllowed, HasParent
  <2>2. PICK r \in g : r.id = p /\ r.loc = c.loc
    BY DEF Sound
  <2> QED
    BY <2>1, <2>2, <1>1 DEF UniqueIds
<1>3. i.type \in IssueTypes
  BY <1>1, IssueRulesAssumption DEF Issue
<1>4. \A p \in i.parent : \E q \in g :
          q.id = p /\ q # i /\ q.loc = i.loc /\ MayParent(q, i.type)
  BY <1>2, <1>3, NoOwnParent DEF MayParent
<1>5. \A c \in g : i.id \in c.parent =>
          i.type \in AllowedParents[c.type] /\ c.loc = i.loc
  BY <1>1, <1>2 DEF UniqueIds, MayParent
<1> QED
  BY <1>4, <1>5

-----------------------------------------------------------------------------
(* The operations *)

(* A rewrite of one issue that keeps identity, location, type and parent.  *)
LEMMA ReferencesSound ==
    ASSUME NEW g, Sound(g), NEW i \in g, NEW n \in Issue,
           n.id = i.id, n.loc = i.loc, n.type = i.type, n.parent = i.parent,
           n.depends \cup n.relates \cup n.supersedes \subseteq Named(g) \ {n.id},
           \A r \in n.relates : n.id < r,
           NoCycle(DependencyEdges(Replaced(g, i, n)))
    PROVE  Sound(Replaced(g, i, n))
BY FamilyFits, ReplacedSound

(* Successors that are not new make no dependency cycle. *)
LEMMA DependenciesKept ==
    ASSUME NEW g, Sound(g), NEW i \in g, NEW n,
           n.id = i.id, n.depends \subseteq i.depends
    PROVE  NoCycle(DependencyEdges(Replaced(g, i, n)))
<1>1. ASSUME NEW e \in DependencyEdges(Replaced(g, i, n))
      PROVE  \E d \in DependencyEdges(g) : d[1] = e[1] /\ e[2] \subseteq d[2]
  <2>1. PICK j \in Replaced(g, i, n) : e = <<j.id, j.depends>>
    BY DEF DependencyEdges
  <2>2. PICK k \in g : k.id = j.id /\ j.depends \subseteq k.depends
    BY DEF Replaced
  <2>3. <<k.id, k.depends>> \in DependencyEdges(g)
    BY DEF DependencyEdges
  <2> QED
    BY <2>1, <2>2, <2>3
<1> QED
  BY <1>1, EdgesRemoved DEF Sound

(* What a sound graph says of the references of one issue. *)
LEMMA ReferencesOf ==
    ASSUME NEW g, Sound(g), NEW i \in g
    PROVE  /\ i \in Issue
           /\ i.depends \subseteq Named(g) \ {i.id}
           /\ i.relates \subseteq Named(g) \ {i.id}
           /\ i.supersedes \subseteq Named(g) \ {i.id}
           /\ \A r \in i.relates : i.id < r
           /\ Named(g) \subseteq Ids
BY DEF Sound, ReferencesResolve, Named, Issue

(* comment *)
LEMMA CommentSound ==
    ASSUME NEW g, NEW h, Sound(g), NEW i \in Active(g), Commented(g, h, i)
    PROVE  Sound(h)
<1> DEFINE n == [i EXCEPT !.comments = @ + 1]
<1>1. i \in g /\ i \in Issue
  BY ReferencesOf DEF Active
<1>2. /\ n \in Issue /\ n.id = i.id /\ n.loc = i.loc /\ n.type = i.type
      /\ n.parent = i.parent /\ n.depends = i.depends
      /\ n.relates = i.relates /\ n.supersedes = i.supersedes
  BY <1>1 DEF Issue
<1>3. h = Replaced(g, i, n)
  BY DEF Commented
<1> HIDE DEF n
<1>4. NoCycle(DependencyEdges(Replaced(g, i, n)))
  BY <1>1, <1>2, DependenciesKept
<1>5. /\ n.depends \cup n.relates \cup n.supersedes \subseteq Named(g) \ {n.id}
      /\ \A r \in n.relates : n.id < r
  BY <1>1, <1>2, ReferencesOf
<1>6. Sound(Replaced(g, i, n))
  BY <1>1, <1>2, <1>4, <1>5, ReferencesSound
<1> QED
  BY <1>3, <1>6

(* relate and unrelate, but for a new dependency *)
LEMMA RelateSound ==
    ASSUME NEW g, NEW h, Sound(g), NEW i \in Active(g), NEW j \in Active(g),
           \/ DependencyRemoved(g, h, i, j) \/ RelationAdded(g, h, i, j) \/ RelationRemoved(g, h, i, j)
           \/ SupersessionAdded(g, h, i, j) \/ SupersessionRemoved(g, h, i, j)
    PROVE  Sound(h)
<1>1. i \in g /\ j \in g /\ i \in Issue /\ j.id \in Named(g)
  BY ReferencesOf DEF Active, Named
<1>2. \E n \in Issue :
          /\ n.id = i.id /\ n.loc = i.loc /\ n.type = i.type /\ n.parent = i.parent
          /\ n.depends \subseteq i.depends
          /\ n.relates \subseteq i.relates \cup {j.id}
          /\ n.supersedes \subseteq i.supersedes \cup {j.id}
          /\ j.id \in n.relates => j.id \in i.relates \/ i.id < j.id
          /\ j.id \in n.supersedes => j.id \in i.supersedes \/ i.id # j.id
          /\ h = Replaced(g, i, n)
  <2> USE <1>1 DEF Issue
  <2>0. j.id \in Ids
    BY ReferencesOf
  <2>1. CASE DependencyRemoved(g, h, i, j)
    <3> WITNESS [i EXCEPT !.depends = @ \ {j.id}] \in Issue
    <3> QED BY <2>1 DEF DependencyRemoved
  <2>2. CASE RelationAdded(g, h, i, j)
    <3> DEFINE n == [i EXCEPT !.relates = @ \cup {j.id}]
    <3>1. n \in Issue
      BY <2>0
    <3> WITNESS n \in Issue
    <3> QED BY <2>2 DEF RelationAdded
  <2>3. CASE RelationRemoved(g, h, i, j)
    <3> WITNESS [i EXCEPT !.relates = @ \ {j.id}] \in Issue
    <3> QED BY <2>3 DEF RelationRemoved
  <2>4. CASE SupersessionAdded(g, h, i, j)
    <3> DEFINE n == [i EXCEPT !.supersedes = @ \cup {j.id}]
    <3>1. n \in Issue
      BY <2>0
    <3> WITNESS n \in Issue
    <3> QED BY <2>4 DEF SupersessionAdded
  <2>5. CASE SupersessionRemoved(g, h, i, j)
    <3> WITNESS [i EXCEPT !.supersedes = @ \ {j.id}] \in Issue
    <3> QED BY <2>5 DEF SupersessionRemoved
  <2> QED
    BY <2>1, <2>2, <2>3, <2>4, <2>5
<1>3. PICK n \in Issue :
          /\ n.id = i.id /\ n.loc = i.loc /\ n.type = i.type /\ n.parent = i.parent
          /\ n.depends \subseteq i.depends
          /\ n.relates \subseteq i.relates \cup {j.id}
          /\ n.supersedes \subseteq i.supersedes \cup {j.id}
          /\ j.id \in n.relates => j.id \in i.relates \/ i.id < j.id
          /\ j.id \in n.supersedes => j.id \in i.supersedes \/ i.id # j.id
          /\ h = Replaced(g, i, n)
  BY <1>2
<1>4. i.id \in Nat
  BY <1>1, IssueRulesAssumption DEF Issue
<1>5. /\ n.depends \cup n.relates \cup n.supersedes \subseteq Named(g) \ {n.id}
      /\ \A r \in n.relates : n.id < r
  BY <1>1, <1>3, <1>4, ReferencesOf
<1>6. NoCycle(DependencyEdges(Replaced(g, i, n)))
  BY <1>1, <1>3, DependenciesKept
<1>7. Sound(Replaced(g, i, n))
  BY <1>1, <1>3, <1>5, <1>6, ReferencesSound
<1> QED
  BY <1>3, <1>7

(* create *)
LEMMA CreateSound ==
    ASSUME NEW g, NEW h, Sound(g), NEW id \in Ids, NEW type \in Types,
           NEW parent \in Parents, NEW depends \in SUBSET Ids,
           Created(g, h, id, type, parent, depends)
    PROVE  Sound(h)
<1> DEFINE n == [id |-> id, loc |-> "active", type |-> type, parent |-> parent,
                 depends |-> depends, relates |-> {}, supersedes |-> {},
                 comments |-> 0]
<1>1. /\ n \in Issue /\ n.id = id /\ n.loc = "active" /\ n.type = type
      /\ n.parent = parent /\ n.depends = depends
      /\ n.relates = {} /\ n.supersedes = {}
  BY DEF Issue
<1>2. h = g \cup {n}
  BY DEF Created
<1> HIDE DEF n
<1>3. Named(h) = Named(g) \cup {id}
  BY <1>1, <1>2 DEF Named
<1>4. depends \subseteq Named(g) /\ id \notin Named(g)
  BY DEF Created, Named, Active
<1>5. h \subseteq Issue /\ UniqueIds(h)
  BY <1>1, <1>2, <1>4 DEF Sound, UniqueIds, Named
<1>6. \A p \in parent : \E q \in g :
          q.id = p /\ q.loc = "active" /\ MayParent(q, type)
  BY DEF Created, HasParent, Active
<1>7. ParentsAllowed(h)
  BY <1>1, <1>2, <1>6 DEF Sound, ParentsAllowed, HasParent
<1>8. ReferencesResolve(h)
  <2>1. ReferencesResolve(g)
    BY DEF Sound
  <2>2. \A j \in h : j = n \/ (j \in g /\ j.id # id)
    BY <1>2, <1>4 DEF Named
  <2> QED
    BY <2>1, <2>2, <1>1, <1>3, <1>4 DEF ReferencesResolve
<1>9. NoCycle(DependencyEdges(h))
  <2>1. DependencyEdges(h) = DependencyEdges(g) \cup {<<id, depends>>}
    BY <1>1, <1>2 DEF DependencyEdges
  <2>2. \A j \in g : id \notin j.depends
    BY <1>4 DEF Sound, ReferencesResolve
  <2>3. \A e \in DependencyEdges(g) : id \notin e[2]
    BY <2>2 DEF DependencyEdges
  <2>4. NoCycle(DependencyEdges(g)) /\ id \notin depends
    BY <1>4 DEF Sound
  <2> QED
    BY <2>1, <2>3, <2>4, NodeAdded
<1>10. \A j \in h : \A p \in j.parent :
           \E q \in h : q.id = p /\ q.loc = j.loc
  BY <1>1, <1>2, <1>6 DEF Sound
<1> QED
  BY <1>5, <1>7, <1>8, <1>9, <1>10 DEF Sound

(* update: only active children are looked at, which are all there are *)
LEMMA UpdateSound ==
    ASSUME NEW g, NEW h, Sound(g), NEW i \in Active(g), NEW type \in Types,
           NEW parent \in Parents, Updated(g, h, i, type, parent)
    PROVE  Sound(h)
<1> DEFINE n == [i EXCEPT !.type = type, !.parent = parent]
<1>1. i \in g /\ i \in Issue /\ i.loc = "active"
  BY ReferencesOf DEF Active
<1>2. /\ n \in Issue /\ n.id = i.id /\ n.loc = i.loc /\ n.type = type
      /\ n.parent = parent /\ n.depends = i.depends
      /\ n.relates = i.relates /\ n.supersedes = i.supersedes
  BY <1>1 DEF Issue
<1>3. h = Replaced(g, i, n)
  BY DEF Updated
<1> HIDE DEF n
<1>4. NoCycle(DependencyEdges(Replaced(g, i, n)))
  BY <1>1, <1>2, DependenciesKept
<1>5. /\ n.depends \cup n.relates \cup n.supersedes \subseteq Named(g) \ {n.id}
      /\ \A r \in n.relates : n.id < r
  BY <1>1, <1>2, ReferencesOf
<1>6. \A p \in n.parent : \E q \in g :
          q.id = p /\ q # i /\ q.loc = n.loc /\ MayParent(q, n.type)
  BY <1>1, <1>2 DEF Updated, HasParent, Active
<1>7. ASSUME NEW c \in g, i.id \in c.parent
      PROVE  n.type \in AllowedParents[c.type]
  <2>1. c.loc = i.loc
    BY <1>1, <1>7, FamilyFits
  <2>2. c \in Active(g)
    BY <2>1, <1>1 DEF Active
  <2> QED
    BY <2>2, <1>7, <1>2 DEF Updated
<1>8. Sound(Replaced(g, i, n))
  BY <1>1, <1>2, <1>4, <1>5, <1>6, <1>7, ReplacedSound
<1> QED
  BY <1>3, <1>8

(* relate with depends_on: the code looks for a path from the target among *)
(* active issues only, which is enough when it finds none that leaves them *)
LEMMA DependSound ==
    ASSUME NEW g, NEW h, Sound(g), NEW i \in Active(g), NEW j \in Active(g),
           DependencyAdded(g, h, i, j)
    PROVE  Sound(h)
<1> DEFINE n == [i EXCEPT !.depends = @ \cup {j.id}]
<1>1. i \in g /\ j \in g /\ i \in Issue /\ j.id \in Named(g) /\ j.id \in Ids
  BY ReferencesOf DEF Active, Named
<1>2. /\ n \in Issue /\ n.id = i.id /\ n.loc = i.loc /\ n.type = i.type
      /\ n.parent = i.parent /\ n.depends = i.depends \cup {j.id}
      /\ n.relates = i.relates /\ n.supersedes = i.supersedes
  BY <1>1 DEF Issue
<1>3. h = Replaced(g, i, n)
  BY DEF DependencyAdded
<1> HIDE DEF n
<1>4. PICK C \in SUBSET Named(Active(g)) :
          /\ j.id \in C /\ i.id \notin C
          /\ Closed(DependencyEdges(Active(g)), C)
  BY DEF DependencyAdded, DependsOn
<1>5. C \in SUBSET Ids /\ i.id \in Ids
  BY <1>1, ReferencesOf DEF Named, Active, Issue
<1>6. Closed(DependencyEdges(g), C)
  <2> SUFFICES ASSUME NEW e \in DependencyEdges(g), e[1] \in C
               PROVE  e[2] \subseteq C
    BY DEF Closed
  <2>1. PICK k \in g : e = <<k.id, k.depends>>
    BY DEF DependencyEdges
  <2>2. PICK l \in Active(g) : l.id = k.id
    BY <2>1 DEF Named
  <2>3. l = k
    BY <2>2 DEF Sound, UniqueIds, Active
  <2>4. e \in DependencyEdges(Active(g))
    BY <2>1, <2>2, <2>3 DEF DependencyEdges
  <2> QED
    BY <2>4, <1>4 DEF Closed
<1>7. ASSUME NEW e \in DependencyEdges(Replaced(g, i, n))
      PROVE  \E d \in DependencyEdges(g) :
                 /\ d[1] = e[1]
                 /\ \/ e[2] \subseteq d[2]
                    \/ e[1] = i.id /\ e[2] \subseteq d[2] \cup {j.id}
  <2>1. PICK k \in Replaced(g, i, n) : e = <<k.id, k.depends>>
    BY DEF DependencyEdges
  <2>2. CASE k = n
    <3>1. <<i.id, i.depends>> \in DependencyEdges(g)
      BY <1>1 DEF DependencyEdges
    <3> QED
      BY <2>1, <2>2, <3>1, <1>2
  <2>3. CASE k \in g
    <3>1. e \in DependencyEdges(g)
      BY <2>1, <2>3 DEF DependencyEdges
    <3> QED
      BY <3>1
  <2> QED
    BY <2>2, <2>3 DEF Replaced
<1>8. NoCycle(DependencyEdges(Replaced(g, i, n)))
  <2>1. NoCycle(DependencyEdges(g))
    BY DEF Sound
  <2> QED
    BY <2>1, <1>1, <1>4, <1>5, <1>6, <1>7, EdgeAdded
<1>9. i.id # j.id
  BY <1>4
<1>10. /\ n.depends \cup n.relates \cup n.supersedes \subseteq Named(g) \ {n.id}
       /\ \A r \in n.relates : n.id < r
  BY <1>1, <1>2, <1>9, ReferencesOf
<1>11. Sound(Replaced(g, i, n))
  BY <1>1, <1>2, <1>8, <1>10, ReferencesSound
<1> QED
  BY <1>3, <1>11

(* The children of a member of a subtree are members. *)
LEMMA SubtreeClosed ==
    ASSUME NEW g, NEW root, NEW i \in g, i.id \in Ids,
           i.parent \cap Subtree(g, root) # {}
    PROVE  i.id \in Subtree(g, root)
BY DEF Subtree

(* archive: no family is split, because the subtree is closed *)
LEMMA ArchiveSound ==
    ASSUME NEW g, NEW h, Sound(g), NEW i \in Active(g), Archived(g, h, i)
    PROVE  Sound(h)
<1> DEFINE S == Subtree(g, i.id) \cap Named(Active(g))
           At(j) == IF j.id \in S THEN Moved(j, S) ELSE j
<1>1. h = {At(j) : j \in g}
  BY DEF Archived, ActiveSubtree
<1>2. g \subseteq Issue /\ UniqueIds(g)
  BY DEF Sound
<1>3. ASSUME NEW j \in g
      PROVE  /\ At(j) \in Issue /\ At(j).id = j.id /\ At(j).type = j.type
             /\ At(j).depends = j.depends /\ At(j).relates = j.relates
             /\ At(j).supersedes = j.supersedes
             /\ j.id \in S => At(j).loc = "archived" /\ At(j).parent = j.parent \cap S
             /\ j.id \notin S => At(j) = j
  <2>1. j \in Issue /\ j.parent \in Parents
    BY <1>2 DEF Issue
  <2>2. j.parent \cap S \in Parents
    <3>1. CASE j.parent = {}
      BY <3>1 DEF Parents
    <3>2. ASSUME NEW p \in Ids, j.parent = {p} PROVE j.parent \cap S \in Parents
      <4>1. j.parent \cap S = {} \/ j.parent \cap S = {p}
        BY <3>2
      <4> QED
        BY <4>1 DEF Parents
    <3> QED
      BY <3>1, <3>2, <2>1 DEF Parents
  <2> HIDE DEF S
  <2> QED
    BY <2>1, <2>2 DEF Moved, Issue
<1>4. \A j \in g : j.id \in S => j.loc = "active"
  BY <1>2 DEF Named, Active, UniqueIds
<1>5. \A j \in g : j.loc = "active" /\ j.parent \cap S # {} => j.id \in S
  <2> SUFFICES ASSUME NEW j \in g, j.loc = "active", j.parent \cap S # {}
               PROVE  j.id \in S
    OBVIOUS
  <2>1. j.id \in Subtree(g, i.id)
    BY <1>2, SubtreeClosed DEF Issue
  <2> QED
    BY <2>1 DEF Named, Active
<1> HIDE DEF S, At
<1>6. h \subseteq Issue /\ UniqueIds(h)
  BY <1>1, <1>2, <1>3 DEF UniqueIds
<1>7. \A j \in h : \E k \in g :
          j = At(k) /\ j.id = k.id /\ j.type = k.type /\ j.parent \subseteq k.parent
  BY <1>1, <1>3
<1>8. ParentsAllowed(h)
  <2> SUFFICES ASSUME NEW j \in h, NEW p \in j.parent
               PROVE  \E q \in h : q.id = p /\ q.type \in AllowedParents[j.type]
    BY DEF ParentsAllowed, HasParent, MayParent
  <2>1. PICK k \in g : j.type = k.type /\ j.parent \subseteq k.parent
    BY <1>7
  <2>2. PICK q \in g : q.id = p /\ q.type \in AllowedParents[k.type]
    BY <2>1 DEF Sound, ParentsAllowed, HasParent, MayParent
  <2>3. At(q) \in h /\ At(q).id = q.id /\ At(q).type = q.type
    BY <1>1, <1>3
  <2> QED
    BY <2>1, <2>2, <2>3
<1>9. Named(h) = Named(g)
  BY <1>1, <1>3 DEF Named
<1>10. ReferencesResolve(h)
  <2>1. \A j \in h : \E k \in g :
            /\ j.id = k.id /\ j.depends = k.depends
            /\ j.relates = k.relates /\ j.supersedes = k.supersedes
    BY <1>1, <1>3
  <2>2. ReferencesResolve(g)
    BY DEF Sound
  <2> QED
    BY <2>1, <2>2, <1>9 DEF ReferencesResolve
<1>11. DependencyEdges(h) = DependencyEdges(g)
  BY <1>1, <1>3 DEF DependencyEdges
<1>12. ASSUME NEW j \in h, NEW p \in j.parent
       PROVE  \E q \in h : q.id = p /\ q.loc = j.loc
  <2>1. PICK k \in g : j = At(k) /\ p \in k.parent
    BY <1>7
  <2>2. PICK q \in g : q.id = p /\ q.loc = k.loc
    BY <2>1 DEF Sound
  <2>3. At(q) \in h /\ At(q).id = q.id
    BY <1>1, <1>3
  <2>4. CASE k.id \in S
    BY <2>1, <2>2, <2>3, <2>4, <1>3
  <2>5. CASE k.id \notin S
    <3>1. q.id \notin S
      BY <2>1, <2>2, <2>5, <1>4, <1>5
    <3> QED
      BY <2>1, <2>2, <2>3, <2>5, <3>1, <1>3
  <2> QED
    BY <2>4, <2>5
<1> QED
  BY <1>6, <1>8, <1>10, <1>11, <1>12 DEF Sound

-----------------------------------------------------------------------------
(* One whole operation *)

(* No graph is sound as well. *)
LEMMA EmptySound == Sound({})
BY DEF Sound, UniqueIds, ParentsAllowed, ReferencesResolve, NoCycle, DependencyEdges

(* A sound graph is one that validateUnlocked accepts. *)
LEMMA SoundValid ==
    ASSUME NEW g, Sound(g)
    PROVE  Valid(g)
BY TypedHierarchy DEF Sound, Valid

(* Whole operations keep a sound graph sound. *)
LEMMA ChangedSound ==
    ASSUME NEW g, NEW h, Sound(g), Changed(g, h)
    PROVE  Sound(h)
<1>1. ASSUME NEW id \in Ids, NEW type \in Types, NEW parent \in Parents,
             NEW depends \in SUBSET Ids, Created(g, h, id, type, parent, depends)
      PROVE  Sound(h)
  BY <1>1, CreateSound
<1>2. ASSUME NEW i \in Active(g), NEW type \in Types, NEW parent \in Parents,
             Updated(g, h, i, type, parent)
      PROVE  Sound(h)
  BY <1>2, UpdateSound
<1>3. ASSUME NEW i \in Active(g), Commented(g, h, i) PROVE Sound(h)
  BY <1>3, CommentSound
<1>4. ASSUME NEW i \in Active(g), Archived(g, h, i) PROVE Sound(h)
  BY <1>4, ArchiveSound
<1>5. ASSUME NEW i \in Active(g), NEW j \in Active(g), DependencyAdded(g, h, i, j)
      PROVE  Sound(h)
  BY <1>5, DependSound
<1>6. ASSUME NEW i \in Active(g), NEW j \in Active(g),
             \/ DependencyRemoved(g, h, i, j)
             \/ RelationAdded(g, h, i, j) \/ RelationRemoved(g, h, i, j)
             \/ SupersessionAdded(g, h, i, j) \/ SupersessionRemoved(g, h, i, j)
      PROVE  Sound(h)
  BY <1>6, RelateSound
<1> QED
  BY <1>1, <1>2, <1>3, <1>4, <1>5, <1>6 DEF Changed

(* Every issue of g is still in h, with its comments; archived ones do not *)
(* change.                                                                 *)
Keeps(g, h) ==
    \A i \in g : \E j \in h :
        /\ j.id = i.id /\ j.comments >= i.comments
        /\ i.loc = "archived" => j = i

(* Whole operations lose no issue, no comment and nothing archived. *)
LEMMA ChangedKeeps ==
    ASSUME NEW g, NEW h, Sound(g), Changed(g, h)
    PROVE  Keeps(g, h)
<1>0. \A i \in g : i \in Issue /\ i.comments \in Nat
  BY DEF Sound, Issue
<1>1. ASSUME NEW k \in Active(g), NEW n, h = Replaced(g, k, n),
             n.id = k.id, n.comments >= k.comments
      PROVE  Keeps(g, h)
  BY <1>0, <1>1 DEF Replaced, Active, Keeps
<1>2. CASE \E id \in Ids, type \in Types, parent \in Parents, depends \in SUBSET Ids :
               Created(g, h, id, type, parent, depends)
  BY <1>0, <1>2 DEF Created, Keeps
<1>3. ASSUME NEW k \in Active(g), Archived(g, h, k)
      PROVE  Keeps(g, h)
  <2> DEFINE S == ActiveSubtree(g, k)
  <2> SUFFICES ASSUME NEW i \in g
               PROVE  \E j \in h :
                          /\ j.id = i.id /\ j.comments >= i.comments
                          /\ i.loc = "archived" => j = i
    BY DEF Keeps
  <2> DEFINE n == IF i.id \in S THEN Moved(i, S) ELSE i
  <2>1. n \in h
    BY <1>3 DEF Archived
  <2>2. n.id = i.id /\ n.comments = i.comments
    BY <1>0 DEF Moved, Issue
  <2>3. i.id \in S => i.loc = "active"
    BY DEF ActiveSubtree, Named, Active, Sound, UniqueIds
  <2> QED
    BY <2>1, <2>2, <2>3, <1>0
<1>4. ASSUME NEW k \in Active(g), NEW type, NEW parent, Updated(g, h, k, type, parent)
      PROVE  \E n : h = Replaced(g, k, n) /\ n.id = k.id /\ n.comments = k.comments
  <2> WITNESS [k EXCEPT !.type = type, !.parent = parent]
  <2> QED
    BY <1>0, <1>4 DEF Updated, Issue, Active
<1>5. ASSUME NEW k \in Active(g), Commented(g, h, k)
      PROVE  \E n : h = Replaced(g, k, n) /\ n.id = k.id /\ n.comments = k.comments + 1
  <2> WITNESS [k EXCEPT !.comments = @ + 1]
  <2> QED
    BY <1>0, <1>5 DEF Commented, Issue, Active
<1>6. ASSUME NEW k \in Active(g), NEW j \in Active(g),
             DependencyAdded(g, h, k, j) \/ DependencyRemoved(g, h, k, j)
      PROVE  \E n : h = Replaced(g, k, n) /\ n.id = k.id /\ n.comments = k.comments
  <2>1. \A D : LET n == [k EXCEPT !.depends = D] IN n.id = k.id /\ n.comments = k.comments
    BY <1>0 DEF Issue, Active
  <2> QED
    BY <2>1, <1>6 DEF DependencyAdded, DependencyRemoved
<1>7. ASSUME NEW k \in Active(g), NEW j \in Active(g),
             RelationAdded(g, h, k, j) \/ RelationRemoved(g, h, k, j)
      PROVE  \E n : h = Replaced(g, k, n) /\ n.id = k.id /\ n.comments = k.comments
  <2>1. \A D : LET n == [k EXCEPT !.relates = D] IN n.id = k.id /\ n.comments = k.comments
    BY <1>0 DEF Issue, Active
  <2> QED
    BY <2>1, <1>7 DEF RelationAdded, RelationRemoved
<1>8. ASSUME NEW k \in Active(g), NEW j \in Active(g),
             SupersessionAdded(g, h, k, j) \/ SupersessionRemoved(g, h, k, j)
      PROVE  \E n : h = Replaced(g, k, n) /\ n.id = k.id /\ n.comments = k.comments
  <2>1. \A D : LET n == [k EXCEPT !.supersedes = D] IN n.id = k.id /\ n.comments = k.comments
    BY <1>0 DEF Issue, Active
  <2> QED
    BY <2>1, <1>8 DEF SupersessionAdded, SupersessionRemoved
<1>9. \A k \in Active(g) : k.comments \in Nat
  BY <1>0 DEF Active
<1> QED
  BY <1>1, <1>2, <1>3, <1>4, <1>5, <1>6, <1>7, <1>8, <1>9 DEF Changed

-----------------------------------------------------------------------------
(* Files and issues: a file is an issue with a title *)

IssuesOf(F) == {IssueOf(f) : f \in F}

(* An issue has everything of its file but the title. *)
LEMMA IssueFields ==
    ASSUME NEW f
    PROVE  /\ IssueOf(f).id = f.id /\ IssueOf(f).loc = f.loc
           /\ IssueOf(f).type = f.type /\ IssueOf(f).parent = f.parent
           /\ IssueOf(f).depends = f.depends /\ IssueOf(f).relates = f.relates
           /\ IssueOf(f).supersedes = f.supersedes
           /\ IssueOf(f).comments = f.comments
           /\ f \in File => IssueOf(f) \in Issue
BY DEF IssueOf, File, Issue

(* The questions of IssueRules have the same answers for files and issues. *)
LEMMA SameAnswers ==
    ASSUME NEW F
    PROVE  /\ Named(IssuesOf(F)) = Named(F)
           /\ Active(IssuesOf(F)) = IssuesOf(Active(F))
           /\ ParentEdges(IssuesOf(F)) = ParentEdges(F)
           /\ DependencyEdges(IssuesOf(F)) = DependencyEdges(F)
           /\ \A p, t : HasParent(IssuesOf(F), p, t) <=> HasParent(F, p, t)
           /\ ParentsAllowed(IssuesOf(F)) <=> ParentsAllowed(F)
           /\ ReferencesResolve(IssuesOf(F)) <=> ReferencesResolve(F)
<1>1. \A i : i \in IssuesOf(F) <=> \E f \in F : i = IssueOf(f)
  BY DEF IssuesOf
<1>2. Named(IssuesOf(F)) = Named(F)
  BY <1>1, IssueFields DEF Named
<1>3. Active(IssuesOf(F)) = IssuesOf(Active(F))
  BY IssueFields DEF Active, IssuesOf
<1>4. ParentEdges(IssuesOf(F)) = ParentEdges(F)
  BY <1>1, IssueFields DEF ParentEdges
<1>5. DependencyEdges(IssuesOf(F)) = DependencyEdges(F)
  BY <1>1, IssueFields DEF DependencyEdges
<1>6. \A p, t : HasParent(IssuesOf(F), p, t) <=> HasParent(F, p, t)
  BY <1>1, IssueFields DEF HasParent, MayParent
<1>7. ParentsAllowed(IssuesOf(F)) <=> ParentsAllowed(F)
  BY <1>1, <1>6, IssueFields DEF ParentsAllowed
<1>8. ReferencesResolve(IssuesOf(F)) <=> ReferencesResolve(F)
  BY <1>1, <1>2, IssueFields DEF ReferencesResolve
<1> QED
  BY <1>2, <1>3, <1>4, <1>5, <1>6, <1>7, <1>8

(* So have the ways up, the dependency paths and the subtrees. *)
LEMMA SamePaths ==
    ASSUME NEW F
    PROVE  /\ \A a, b : Above(IssuesOf(F), a, b) <=> Above(F, a, b)
           /\ \A a, b : DependsOn(IssuesOf(F), a, b) <=> DependsOn(F, a, b)
           /\ \A a : Subtree(IssuesOf(F), a) = Subtree(F, a)
<1>1. /\ Named(Active(IssuesOf(F))) = Named(Active(F))
      /\ ParentEdges(Active(IssuesOf(F))) = ParentEdges(Active(F))
      /\ DependencyEdges(Active(IssuesOf(F))) = DependencyEdges(Active(F))
  BY SameAnswers
<1>2. ASSUME NEW S
      PROVE  (\A i \in IssuesOf(F) : i.parent \cap S # {} => i.id \in S)
                 <=> (\A f \in F : f.parent \cap S # {} => f.id \in S)
  BY IssueFields DEF IssuesOf
<1>3. ASSUME NEW a PROVE Subtree(IssuesOf(F), a) = Subtree(F, a)
  BY <1>2 DEF Subtree
<1>4. ASSUME NEW a, NEW b PROVE Above(IssuesOf(F), a, b) <=> Above(F, a, b)
  BY <1>1 DEF Above
<1>5. ASSUME NEW a, NEW b PROVE DependsOn(IssuesOf(F), a, b) <=> DependsOn(F, a, b)
  BY <1>1 DEF DependsOn
<1> QED
  BY <1>3, <1>4, <1>5

(* Files are valid when their issues are and no identity has two files. *)
LEMMA ValidFiles ==
    ASSUME NEW F
    PROVE  Valid(F) <=> UniqueIds(F) /\ Valid(IssuesOf(F))
<1>1. UniqueIds(F) => UniqueIds(IssuesOf(F))
  BY IssueFields DEF UniqueIds, IssuesOf
<1> QED
  BY <1>1, SameAnswers DEF Valid

(* Some files of a sound graph, if they are valid, are sound. *)
LEMMA PartSound ==
    ASSUME NEW F, NEW G, F \subseteq G, UniqueIds(G), Sound(IssuesOf(G)), Valid(F)
    PROVE  Sound(IssuesOf(F))
<1>1. IssuesOf(F) \subseteq IssuesOf(G)
  BY DEF IssuesOf
<1>2. Valid(IssuesOf(F))
  BY ValidFiles
<1>3. ASSUME NEW i \in IssuesOf(F), NEW p \in i.parent
      PROVE  \E q \in IssuesOf(F) : q.id = p /\ q.loc = i.loc
  <2>1. PICK q \in IssuesOf(G) : q.id = p /\ q.loc = i.loc
    BY <1>1 DEF Sound
  <2>2. PICK r \in IssuesOf(F) : r.id = p
    BY <1>2 DEF Valid, ParentsAllowed, HasParent
  <2>3. r = q
    BY <1>1, <2>1, <2>2 DEF Sound, UniqueIds
  <2> QED
    BY <2>1, <2>2, <2>3
<1> QED
  BY <1>1, <1>2, <1>3 DEF Sound, Valid

-----------------------------------------------------------------------------
(* Batches of files *)

Befores(A) == UNION {r.before : r \in A}
Afters(A)  == UNION {r.after : r \in A}

\* The files once the replacements A of a batch for the files B are applied.
Result(B, A) == (B \ Befores(A)) \cup Afters(A)

\* r is published before q.
Precedes(r, q) ==
    \A f \in r.before \cup r.after, g \in q.before \cup q.after : PathLess(f, g)

\* A comes first in the batch Q.
Prefix(Q, A) == A \subseteq Q /\ \A r \in A, q \in Q \ A : Precedes(r, q)

\* The before-images are what is there, and no two replacements meet.
Disjoint(B, Q) ==
    /\ \A r \in Q : r.before \subseteq B /\ r.after \cap B \subseteq r.before
    /\ \A r, q \in Q : r # q => /\ r.before \cap q.before = {}
                                /\ r.after \cap q.after = {}

(* Publishing a replacement leads from one prefix of the batch to the next. *)
LEMMA ResultGrows ==
    ASSUME NEW B, NEW Q, Disjoint(B, Q), NEW A, A \subseteq Q, NEW r \in Q \ A
    PROVE  Result(B, A \cup {r}) = (Result(B, A) \ r.before) \cup r.after
<1>1. /\ \A x : x \in Befores(A \cup {r}) <=> x \in Befores(A) \/ x \in r.before
      /\ \A x : x \in Afters(A \cup {r}) <=> x \in Afters(A) \/ x \in r.after
  BY DEF Befores, Afters
<1>2. Afters(A) \cap r.before = {}
  BY DEF Disjoint, Afters
<1> QED
  BY <1>1, <1>2 DEF Result

(* Rolling it back leads to the previous prefix, whether it was published  *)
(* or not.                                                                 *)
LEMMA ResultShrinks ==
    ASSUME NEW B, NEW Q, Disjoint(B, Q), NEW A, A \subseteq Q, NEW r \in Q
    PROVE  (Result(B, A) \ r.after) \cup r.before = Result(B, A \ {r})
<1>1. \A q \in A \ {r} : /\ q.before \cap r.before = {} /\ q.after \cap r.after = {}
                         /\ q.before \cap r.after = {}
  BY DEF Disjoint
<1>2. \A x : x \in Befores(A) => x \in Befores(A \ {r}) \/ x \in r.before
  BY DEF Befores
<1>3. \A x : x \in Befores(A \ {r}) => x \in Befores(A) /\ x \notin r.before /\ x \notin r.after
  BY <1>1 DEF Befores
<1>4. \A x : x \in Afters(A) => x \in Afters(A \ {r}) \/ x \in r.after
  BY DEF Afters
<1>5. \A x : x \in Afters(A \ {r}) => x \in Afters(A) /\ x \notin r.after
  BY <1>1 DEF Afters
<1>6. r.before \subseteq B /\ r.after \cap B \subseteq r.before
  BY DEF Disjoint
<1> QED
  BY <1>2, <1>3, <1>4, <1>5, <1>6 DEF Result

(* The before-images of a batch, or of more than was published of it, tell *)
(* the files that there were.                                              *)
LEMMA ResultUndone ==
    ASSUME NEW B, NEW Q, Disjoint(B, Q), NEW P, P \subseteq Q, NEW A, A \subseteq P
    PROVE  (Result(B, A) \ Afters(P)) \cup Befores(P) = B
<1>1. \A x : x \in Afters(A) => x \in Afters(P)
  BY DEF Afters
<1>2. \A x : x \in Befores(A) => x \in Befores(P)
  BY DEF Befores
<1>3. \A x : x \in Befores(P) => x \in B
  BY DEF Befores, Disjoint
<1>4. \A x \in B : x \in Afters(P) => x \in Befores(P)
  BY DEF Befores, Afters, Disjoint
<1> QED
  BY <1>1, <1>2, <1>3, <1>4 DEF Result

-----------------------------------------------------------------------------
(* What a death inside a batch can leave *)

\* X is what is there when only a part of the batch from B to G is published:
\* all or nothing, or something that validateUnlocked refuses, or files from
\* which an issue is missing.
Partway(B, G, X) ==
    \/ X = B \/ X = G \/ ~UniqueIds(X)
    \/ (X \subseteq B \/ X \subseteq G) /\ ~(Named(B) \subseteq Named(X))

(* A part of the files that has every issue is all of them. *)
LEMMA PartIsWhole ==
    ASSUME NEW G, NEW X, UniqueIds(G), X \subseteq G, Named(G) \subseteq Named(X)
    PROVE  X = G
BY DEF UniqueIds, Named

(* Files whose identities all occur in G have no others. *)
LEMMA SameNames ==
    ASSUME NEW F, NEW G, \A f \in F : \E g \in G : f.id = g.id
    PROVE  Named(F) \subseteq Named(G)
BY DEF Named

(* Nothing is changed by no replacement. *)
LEMMA NothingApplied ==
    ASSUME NEW B PROVE Result(B, {}) = B
BY DEF Result, Befores, Afters

(* A batch of one file is there or not. *)
LEMMA SinglePartway ==
    ASSUME NEW B, NEW w, NEW A, Prefix({w}, A)
    PROVE  Partway(B, Result(B, {w}), Result(B, A))
<1>1. A = {} \/ A = {w}
  BY DEF Prefix
<1> QED
  BY <1>1, NothingApplied DEF Partway

(* A file is replaced: written in place, or under a new title and deleted  *)
(* under the old one.                                                      *)
LEMMA ReplacingBatch ==
    ASSUME files \subseteq File, UniqueIds(files), NEW f \in files, NEW n \in File,
           n.id = f.id, n.loc = f.loc,
           NEW Q, Q = {Write(n)} \cup (IF SamePath(f, n) THEN {} ELSE {Delete(f)})
    PROVE  /\ Q \subseteq Replacement /\ Disjoint(files, Q)
           /\ Result(files, Q) = Replaced(files, f, n)
           /\ \A A : Prefix(Q, A) => Partway(files, Result(files, Q), Result(files, A))
<1>1. CASE SamePath(f, n)
  <2>1. {g \in files : SamePath(n, g)} = {f}
    BY <1>1 DEF UniqueIds, SamePath
  <2> DEFINE w == [before |-> {f}, after |-> {n}]
  <2>2. Q = {w}
    <3>1. Write(n) = w
      BY <2>1 DEF Write
    <3> HIDE DEF w
    <3> QED
      BY <1>1, <3>1
  <2>3. w.before = {f} /\ w.after = {n} /\ w \in Replacement
    BY DEF Replacement
  <2> HIDE DEF w
  <2>4. n \in files => n = f
    BY DEF UniqueIds
  <2>5. Disjoint(files, Q)
    BY <2>2, <2>3, <2>4 DEF Disjoint
  <2>6. Result(files, Q) = Replaced(files, f, n)
    BY <2>2, <2>3 DEF Result, Befores, Afters, Replaced
  <2> QED
    BY <2>2, <2>3, <2>5, <2>6, SinglePartway
<1>2. CASE ~SamePath(f, n)
  <2>1. {g \in files : SamePath(n, g)} = {}
    BY <1>2 DEF UniqueIds, SamePath
  <2> DEFINE w == [before |-> {}, after |-> {n}]
             d == [before |-> {f}, after |-> {}]
  <2>2. Q = {w, d}
    <3>1. Write(n) = w /\ Delete(f) = d
      BY <2>1 DEF Write, Delete
    <3> HIDE DEF w, d
    <3> QED
      BY <1>2, <3>1
  <2>3. /\ w.before = {} /\ w.after = {n} /\ w \in Replacement
        /\ d.before = {f} /\ d.after = {} /\ d \in Replacement
    BY DEF Replacement
  <2> HIDE DEF w, d
  <2>4. n \notin files /\ n # f
    <3>1. SamePath(n, n)
      BY DEF SamePath
    <3> QED
      BY <2>1, <3>1
  <2>5. Disjoint(files, Q)
    BY <2>2, <2>3, <2>4 DEF Disjoint
  <2>6. Result(files, Q) = Replaced(files, f, n)
    BY <2>2, <2>3, <2>4 DEF Result, Befores, Afters, Replaced
  <2>7. ASSUME NEW A, Prefix(Q, A)
        PROVE  Partway(files, Result(files, Q), Result(files, A))
    <3>1. A = {} \/ A = {w} \/ A = {d} \/ A = Q
      BY <2>2, <2>7 DEF Prefix
    <3>2. CASE A = {w}
      <4>1. f \in Result(files, A) /\ n \in Result(files, A)
        BY <3>2, <2>3 DEF Result, Befores, Afters
      <4> QED
        BY <4>1, <2>4 DEF Partway, UniqueIds
    <3>3. CASE A = {d}
      <4>1. Result(files, A) = files \ {f}
        BY <3>3, <2>3 DEF Result, Befores, Afters
      <4>2. f.id \notin Named(files \ {f}) /\ f.id \in Named(files)
        BY DEF Named, UniqueIds
      <4> QED
        BY <4>1, <4>2 DEF Partway
    <3> QED
      BY <3>1, <3>2, <3>3, NothingApplied DEF Partway
  <2> QED
    BY <2>2, <2>3, <2>5, <2>6, <2>7
<1> QED
  BY <1>1, <1>2

(* The same change, of the issues. *)
LEMMA ReplacedIssues ==
    ASSUME NEW B, B \subseteq File, UniqueIds(B), NEW f \in B, NEW n \in File, n.id = f.id
    PROVE  /\ IssuesOf(Replaced(B, f, n)) = Replaced(IssuesOf(B), IssueOf(f), IssueOf(n))
           /\ UniqueIds(Replaced(B, f, n)) /\ Replaced(B, f, n) \subseteq File
<1>1. \A g \in B : IssueOf(g) = IssueOf(f) => g = f
  BY IssueFields DEF UniqueIds
<1>2. IssuesOf(Replaced(B, f, n)) = Replaced(IssuesOf(B), IssueOf(f), IssueOf(n))
  BY <1>1 DEF Replaced, IssuesOf
<1>3. UniqueIds(Replaced(B, f, n))
  BY DEF Replaced, UniqueIds
<1> QED
  BY <1>2, <1>3 DEF Replaced

(* A file is created. *)
LEMMA CreatingBatch ==
    ASSUME files \subseteq File, UniqueIds(files), NEW n \in File, n.id \notin Named(files),
           NEW Q, Q = {Write(n)}
    PROVE  /\ Q \subseteq Replacement /\ Disjoint(files, Q)
           /\ Result(files, Q) = files \cup {n} /\ UniqueIds(files \cup {n})
           /\ IssuesOf(files \cup {n}) = IssuesOf(files) \cup {IssueOf(n)}
           /\ \A A : Prefix(Q, A) => Partway(files, Result(files, Q), Result(files, A))
<1>1. {g \in files : SamePath(n, g)} = {}
  BY DEF Named, SamePath
<1> DEFINE w == [before |-> {}, after |-> {n}]
<1>2. Q = {w}
  <2>1. Write(n) = w
    BY <1>1 DEF Write
  <2> QED
    BY <2>1
<1>3. w.before = {} /\ w.after = {n} /\ w \in Replacement
  BY DEF Replacement
<1> HIDE DEF w
<1>4. n \notin files
  BY DEF Named
<1>5. Disjoint(files, Q)
  BY <1>2, <1>3, <1>4 DEF Disjoint
<1>6. Result(files, Q) = files \cup {n}
  BY <1>2, <1>3 DEF Result, Befores, Afters
<1>7. UniqueIds(files \cup {n})
  BY DEF UniqueIds, Named
<1>8. IssuesOf(files \cup {n}) = IssuesOf(files) \cup {IssueOf(n)}
  BY DEF IssuesOf
<1> QED
  BY <1>2, <1>3, <1>5, <1>6, <1>7, <1>8, SinglePartway

(* The active files of a set S of identities are written to the archive    *)
(* and deleted.  Either all writes come before all deletes or all deletes  *)
(* before all writes, as "archived/" sorts, so that no part of the batch   *)
(* can pass for a smaller archive.                                         *)
LEMMA ArchivingBatch ==
    ASSUME files \subseteq File, UniqueIds(files), NEW S,
           \A g \in files : g.id \in S => g.loc = "active",
           NEW moved, moved = {g \in files : g.id \in S},
           \A g \in moved : /\ Moved(g, S) \in File /\ Moved(g, S).id = g.id
                            /\ Moved(g, S).loc = "archived",
           NEW Q, Q = {Write(Moved(g, S)) : g \in moved} \cup {Delete(g) : g \in moved}
    PROVE  /\ Q \subseteq Replacement /\ Disjoint(files, Q)
           /\ Result(files, Q) = {IF g.id \in S THEN Moved(g, S) ELSE g : g \in files}
           /\ UniqueIds(Result(files, Q))
           /\ \A A : Prefix(Q, A) => Partway(files, Result(files, Q), Result(files, A))
<1> DEFINE W(g) == [before |-> {}, after |-> {Moved(g, S)}]
           D(g) == [before |-> {g}, after |-> {}]
<1>1. \A g \in moved : g \in files /\ g \in File /\ g.loc = "active" /\ g.id \in S
  OBVIOUS
<1>2. \A g \in moved, f \in files : ~SamePath(Moved(g, S), f) /\ Moved(g, S) # f
  <2>1. \A g \in moved, f \in files : f.id = g.id => f.loc = "active"
    BY <1>1 DEF UniqueIds
  <2> QED
    BY <2>1 DEF SamePath
<1>3. \A g \in moved : Write(Moved(g, S)) = W(g) /\ Delete(g) = D(g)
  <2> SUFFICES ASSUME NEW g \in moved PROVE Write(Moved(g, S)) = W(g) /\ Delete(g) = D(g)
    OBVIOUS
  <2>1. {f \in files : SamePath(Moved(g, S), f)} = {}
    BY <1>2
  <2> QED
    BY <2>1 DEF Write, Delete
<1>4. \A g \in moved : /\ W(g).before = {} /\ W(g).after = {Moved(g, S)}
                       /\ D(g).before = {g} /\ D(g).after = {}
                       /\ W(g) \in Replacement /\ D(g) \in Replacement
  BY <1>1 DEF Replacement
<1>5. \A g, h \in moved : Moved(g, S) = Moved(h, S) => g = h
  BY <1>1 DEF UniqueIds
<1>6. \A r : r \in Q <=> \E g \in moved : r = W(g) \/ r = D(g)
  BY <1>3
<1> HIDE DEF W, D
<1>7. Q \subseteq Replacement
  <2> SUFFICES ASSUME NEW r \in Q PROVE r \in Replacement
    OBVIOUS
  <2>1. PICK g \in moved : r = W(g) \/ r = D(g)
    BY <1>6
  <2> QED
    BY <2>1, <1>4
<1>8. Disjoint(files, Q)
  <2>1. ASSUME NEW r \in Q
        PROVE  r.before \subseteq files /\ r.after \cap files \subseteq r.before
    <3>1. PICK g \in moved : r = W(g) \/ r = D(g)
      BY <1>6
    <3> QED
      BY <3>1, <1>1, <1>2, <1>4
  <2>2. ASSUME NEW r \in Q, NEW q \in Q, r # q
        PROVE  r.before \cap q.before = {} /\ r.after \cap q.after = {}
    <3>1. PICK g \in moved : r = W(g) \/ r = D(g)
      BY <1>6
    <3>2. PICK h \in moved : q = W(h) \/ q = D(h)
      BY <1>6
    <3> QED
      BY <2>2, <3>1, <3>2, <1>4, <1>5
  <2> QED
    BY <2>1, <2>2 DEF Disjoint
<1>9. Befores(Q) = moved /\ Afters(Q) = {Moved(g, S) : g \in moved}
  <2>1. ASSUME NEW x \in Befores(Q) PROVE x \in moved
    <3>1. PICK r \in Q : x \in r.before
      BY DEF Befores
    <3>2. PICK g \in moved : r = W(g) \/ r = D(g)
      BY <1>6
    <3> QED
      BY <3>1, <3>2, <1>4
  <2>2. ASSUME NEW x \in Afters(Q) PROVE \E g \in moved : x = Moved(g, S)
    <3>1. PICK r \in Q : x \in r.after
      BY DEF Afters
    <3>2. PICK g \in moved : r = W(g) \/ r = D(g)
      BY <1>6
    <3> QED
      BY <3>1, <3>2, <1>4
  <2>3. ASSUME NEW g \in moved PROVE g \in Befores(Q) /\ Moved(g, S) \in Afters(Q)
    <3>1. W(g) \in Q /\ D(g) \in Q
      BY <1>6
    <3> QED
      BY <3>1, <1>4 DEF Befores, Afters
  <2> QED
    BY <2>1, <2>2, <2>3
<1>10. Result(files, Q) = {IF g.id \in S THEN Moved(g, S) ELSE g : g \in files}
  BY <1>9 DEF Result
<1>11. UniqueIds(Result(files, Q))
  BY <1>10 DEF UniqueIds
<1>12. Named(Result(files, Q)) = Named(files)
  <2>1. \A x \in Result(files, Q) : \E g \in files : x.id = g.id
    BY <1>10
  <2>2. \A g \in files : \E x \in Result(files, Q) : x.id = g.id
    BY <1>10
  <2>3. Named(Result(files, Q)) \subseteq Named(files)
    BY <2>1, SameNames
  <2>4. Named(files) \subseteq Named(Result(files, Q))
    BY <2>2, SameNames
  <2> QED
    BY <2>3, <2>4
<1>13. \A g, h \in moved :
           IF ArchiveFirst THEN ~Precedes(D(g), W(h)) ELSE ~Precedes(W(h), D(g))
  <2> SUFFICES ASSUME NEW g \in moved, NEW h \in moved
               PROVE  IF ArchiveFirst THEN ~Precedes(D(g), W(h)) ELSE ~Precedes(W(h), D(g))
    OBVIOUS
  <2>1. ArchiveFirst => ~PathLess(g, Moved(h, S))
    BY <1>1 DEF PathLess
  <2>2. ~ArchiveFirst => ~PathLess(Moved(h, S), g)
    BY <1>1 DEF PathLess
  <2> QED
    BY <2>1, <2>2, <1>4 DEF Precedes
<1>14. ASSUME NEW A, Prefix(Q, A)
       PROVE  Partway(files, Result(files, Q), Result(files, A))
  <2> DEFINE X == Result(files, A)
             G == Result(files, Q)
  <2>1. A \subseteq Q
    BY <1>14 DEF Prefix
  <2>2. \A x : x \in Befores(A) <=> x \in moved /\ D(x) \in A
    <3>1. ASSUME NEW x, x \in Befores(A) PROVE x \in moved /\ D(x) \in A
      <4>1. PICK r \in A : x \in r.before
        BY <3>1 DEF Befores
      <4>2. PICK g \in moved : r = W(g) \/ r = D(g)
        BY <2>1, <1>6
      <4> QED
        BY <4>1, <4>2, <1>4
    <3>2. ASSUME NEW x \in moved, D(x) \in A PROVE x \in Befores(A)
      BY <3>2, <1>4 DEF Befores
    <3> QED
      BY <3>1, <3>2
  <2>3. \A x : x \in Afters(A) <=> \E g \in moved : x = Moved(g, S) /\ W(g) \in A
    <3>1. ASSUME NEW x, x \in Afters(A) PROVE \E g \in moved : x = Moved(g, S) /\ W(g) \in A
      <4>1. PICK r \in A : x \in r.after
        BY <3>1 DEF Afters
      <4>2. PICK g \in moved : r = W(g) \/ r = D(g)
        BY <2>1, <1>6
      <4> QED
        BY <4>1, <4>2, <1>4
    <3>2. ASSUME NEW g \in moved, W(g) \in A PROVE Moved(g, S) \in Afters(A)
      BY <3>2, <1>4 DEF Afters
    <3> QED
      BY <3>1, <3>2
  <2>4. \A x : x \in X <=> \/ x \in files /\ ~(x \in moved /\ D(x) \in A)
                           \/ \E g \in moved : x = Moved(g, S) /\ W(g) \in A
    BY <2>2, <2>3 DEF Result
  <2>5. \A x : x \in G <=> \/ x \in files /\ x \notin moved
                           \/ \E g \in moved : x = Moved(g, S)
    BY <1>9 DEF Result
  <2> HIDE DEF X, G
  <2>6. CASE \E g \in moved : W(g) \in A /\ D(g) \notin A
    <3>1. PICK g \in moved : W(g) \in A /\ D(g) \notin A
      BY <2>6
    <3>2. g \in X /\ Moved(g, S) \in X
      BY <3>1, <2>4
    <3>3. ~UniqueIds(X)
      BY <3>2, <1>1, <1>2 DEF UniqueIds
    <3> QED
      BY <3>3 DEF Partway, X
  <2>7. CASE /\ \A g \in moved : W(g) \in A => D(g) \in A
             /\ \A g \in moved : W(g) \notin A
    <3>1. X \subseteq files
      BY <2>4, <2>7
    <3> QED
      BY <3>1, PartIsWhole DEF Partway, X
  <2>8. CASE /\ \A g \in moved : W(g) \in A => D(g) \in A
             /\ \E g \in moved : W(g) \in A
    <3>1. PICK g \in moved : W(g) \in A /\ D(g) \in A
      BY <2>8
    <3>2. \A h \in moved : D(h) \in A
      <4> SUFFICES ASSUME NEW h \in moved PROVE D(h) \in A
        OBVIOUS
      <4>1. CASE ArchiveFirst
        <5>1. ~Precedes(D(g), W(h))
          BY <4>1, <1>13
        <5>2. W(h) \in Q
          BY <1>6
        <5>3. W(h) \in A
          BY <5>1, <5>2, <3>1, <1>14 DEF Prefix
        <5> QED
          BY <5>3, <2>8
      <4>2. CASE ~ArchiveFirst
        <5>1. ~Precedes(W(g), D(h))
          BY <4>2, <1>13
        <5>2. D(h) \in Q
          BY <1>6
        <5> QED
          BY <5>1, <5>2, <3>1, <1>14 DEF Prefix
      <4> QED
        BY <4>1, <4>2
    <3>3. X \subseteq G
      BY <3>2, <2>4, <2>5
    <3>4. Named(G) = Named(files) /\ UniqueIds(G)
      BY <1>11, <1>12 DEF G
    <3> QED
      BY <3>3, <3>4, PartIsWhole DEF Partway, X, G
  <2> QED
    BY <2>6, <2>7, <2>8
<1> QED
  BY <1>7, <1>8, <1>10, <1>11, <1>14

-----------------------------------------------------------------------------
(* Every operation submits a batch that carries out one whole change *)

Plan(B, Q) ==
    /\ B \subseteq File /\ Q \subseteq Replacement
    /\ UniqueIds(B) /\ UniqueIds(Result(B, Q))
    /\ Sound(IssuesOf(B))
    /\ Changed(IssuesOf(B), IssuesOf(Result(B, Q)))
    /\ Disjoint(B, Q)
    /\ \A A : Prefix(Q, A) => Partway(B, Result(B, Q), Result(B, A))

\* What an operation relies on.
Ready == files \subseteq File /\ UniqueIds(files) /\ Sound(IssuesOf(files))

(* A file is replaced. *)
LEMMA ReplacingPlan ==
    ASSUME Ready, NEW f \in files, NEW n \in File, n.id = f.id, n.loc = f.loc,
           NEW Q, Q = {Write(n)} \cup (IF SamePath(f, n) THEN {} ELSE {Delete(f)}),
           Changed(IssuesOf(files), Replaced(IssuesOf(files), IssueOf(f), IssueOf(n)))
    PROVE  Plan(files, Q)
<1>1. files \subseteq File /\ UniqueIds(files) /\ Sound(IssuesOf(files))
  BY DEF Ready
<1>2. /\ Q \subseteq Replacement /\ Disjoint(files, Q)
      /\ Result(files, Q) = Replaced(files, f, n)
      /\ \A A : Prefix(Q, A) => Partway(files, Result(files, Q), Result(files, A))
  BY <1>1, ReplacingBatch
<1>3. /\ IssuesOf(Replaced(files, f, n)) = Replaced(IssuesOf(files), IssueOf(f), IssueOf(n))
      /\ UniqueIds(Replaced(files, f, n))
  BY <1>1, ReplacedIssues
<1> QED
  BY <1>1, <1>2, <1>3 DEF Plan

(* A file is written in place. *)
LEMMA WritingPlan ==
    ASSUME Ready, NEW f \in files, NEW n \in File, SamePath(f, n),
           NEW Q, Q = {Write(n)},
           Changed(IssuesOf(files), Replaced(IssuesOf(files), IssueOf(f), IssueOf(n)))
    PROVE  Plan(files, Q)
<1>1. n.id = f.id /\ n.loc = f.loc
  BY DEF SamePath
<1>2. Q = {Write(n)} \cup (IF SamePath(f, n) THEN {} ELSE {Delete(f)})
  OBVIOUS
<1> QED
  BY <1>1, <1>2, ReplacingPlan

(* An active file is an active issue. *)
LEMMA ActiveIssue ==
    ASSUME Ready, NEW f \in Active(files)
    PROVE  /\ f \in files /\ f \in File
           /\ IssueOf(f) \in Active(IssuesOf(files))
           /\ IssueOf(f).id = f.id
BY SameAnswers, IssueFields DEF Ready, Active, IssuesOf

(* A changed field of a file is a changed field of its issue. *)
LEMMA IssueChanges ==
    ASSUME NEW f \in File
    PROVE  /\ \A D : IssueOf([f EXCEPT !.depends = D]) = [IssueOf(f) EXCEPT !.depends = D]
           /\ \A D : IssueOf([f EXCEPT !.relates = D]) = [IssueOf(f) EXCEPT !.relates = D]
           /\ \A D : IssueOf([f EXCEPT !.supersedes = D]) = [IssueOf(f) EXCEPT !.supersedes = D]
           /\ \A D : IssueOf([f EXCEPT !.comments = D]) = [IssueOf(f) EXCEPT !.comments = D]
           /\ \A D : IssueOf([f EXCEPT !.type = D]) = [IssueOf(f) EXCEPT !.type = D]
           /\ \A D : IssueOf([f EXCEPT !.parent = D]) = [IssueOf(f) EXCEPT !.parent = D]
           /\ \A D : IssueOf([f EXCEPT !.loc = D]) = [IssueOf(f) EXCEPT !.loc = D]
           /\ \A D : IssueOf([f EXCEPT !.title = D]) = IssueOf(f)
BY DEF File, IssueOf

(* create *)
LEMMA CreatePlan ==
    ASSUME Ready, NEW id \in Ids, NEW title \in Titles, NEW type \in Types,
           NEW parent \in Parents, NEW depends \in SUBSET Ids,
           Create(id, title, type, parent, depends),
           NEW Q, Q = pending'
    PROVE  Plan(files, Q)
<1> DEFINE n == [id |-> id, title |-> title, loc |-> "active",
                 type |-> type, parent |-> parent, depends |-> depends,
                 relates |-> {}, supersedes |-> {}, comments |-> 0]
<1>1. files \subseteq File /\ UniqueIds(files) /\ Sound(IssuesOf(files))
  BY DEF Ready
<1>2. n \in File /\ n.id = id
  BY DEF File
<1>3. IssueOf(n) = [id |-> id, loc |-> "active", type |-> type, parent |-> parent,
                    depends |-> depends, relates |-> {}, supersedes |-> {},
                    comments |-> 0]
  BY DEF IssueOf
<1>4. Q = {Write(n)}
  BY DEF Create, Submit
<1> HIDE DEF n
<1>5. id \notin Named(files)
  BY DEF Create
<1>6. /\ Q \subseteq Replacement /\ Disjoint(files, Q)
      /\ Result(files, Q) = files \cup {n} /\ UniqueIds(files \cup {n})
      /\ IssuesOf(files \cup {n}) = IssuesOf(files) \cup {IssueOf(n)}
      /\ \A A : Prefix(Q, A) => Partway(files, Result(files, Q), Result(files, A))
  BY <1>1, <1>2, <1>4, <1>5, CreatingBatch
<1>7. /\ \A p \in parent : HasParent(Active(IssuesOf(files)), p, type)
      /\ depends \subseteq Named(Active(IssuesOf(files)))
      /\ id \notin Named(IssuesOf(files))
  BY <1>5, SameAnswers DEF Create
<1>8. Created(IssuesOf(files), IssuesOf(Result(files, Q)), id, type, parent, depends)
  BY <1>3, <1>6, <1>7 DEF Created
<1>9. Changed(IssuesOf(files), IssuesOf(Result(files, Q)))
  BY <1>8 DEF Changed
<1> QED
  BY <1>1, <1>6, <1>9 DEF Plan

(* update *)
LEMMA UpdatePlan ==
    ASSUME Ready, NEW f \in Active(files), NEW title \in Titles, NEW type \in Types,
           NEW parent \in Parents, Update(f, title, type, parent),
           NEW Q, Q = pending'
    PROVE  Plan(files, Q)
<1> DEFINE n == [f EXCEPT !.title = title, !.type = type, !.parent = parent]
           g == IssuesOf(files)
           i == IssueOf(f)
<1>1. f \in files /\ f \in File /\ i \in Active(g) /\ i.id = f.id
  BY ActiveIssue
<1>2. n \in File /\ n.id = f.id /\ n.loc = f.loc
  BY <1>1 DEF File
<1>3. IssueOf(n) = [i EXCEPT !.type = type, !.parent = parent]
  <2> DEFINE n1 == [f EXCEPT !.title = title]
             n2 == [n1 EXCEPT !.type = type]
             n3 == [n2 EXCEPT !.parent = parent]
             i2 == [i EXCEPT !.type = type]
             i3 == [i2 EXCEPT !.parent = parent]
  <2>1. n3 = n
    OBVIOUS
  <2>2. i3 = [i EXCEPT !.type = type, !.parent = parent]
    OBVIOUS
  <2>3. n1 \in File /\ n2 \in File
    BY <1>1 DEF File
  <2>4. IssueOf(n1) = i
    BY <1>1, IssueChanges
  <2> HIDE DEF n1, i
  <2>5. IssueOf(n2) = i2
    <3>1. IssueOf(n2) = [IssueOf(n1) EXCEPT !.type = type]
      BY <2>3, IssueChanges
    <3> QED
      BY <2>4, <3>1
  <2> HIDE DEF n2, i2
  <2>6. IssueOf(n3) = i3
    <3>1. IssueOf(n3) = [IssueOf(n2) EXCEPT !.parent = parent]
      BY <2>3, IssueChanges
    <3> QED
      BY <2>5, <3>1
  <2> HIDE DEF n3, i3
  <2> QED
    BY <2>1, <2>2, <2>6
<1>4. Q = {Write(n)} \cup (IF SamePath(f, n) THEN {} ELSE {Delete(f)})
  BY DEF Update, Submit
<1> HIDE DEF n
<1>5. \A p \in parent : p # i.id /\ HasParent(Active(g), p, type) /\ ~Above(g, p, i.id)
  BY <1>1, SameAnswers, SamePaths DEF Update
<1>6. \A c \in Active(g) : i.id \in c.parent => type \in AllowedParents[c.type]
  <2>1. \A c \in Active(files) : f.id \in c.parent => type \in AllowedParents[c.type]
    BY DEF Update
  <2>2. Active(g) = IssuesOf(Active(files))
    BY SameAnswers
  <2> QED
    BY <2>1, <2>2, <1>1, IssueFields DEF IssuesOf
<1> HIDE DEF g, i
<1>7. Updated(g, Replaced(g, i, IssueOf(n)), i, type, parent)
  BY <1>3, <1>5, <1>6 DEF Updated
<1>8. Changed(g, Replaced(g, i, IssueOf(n)))
  BY <1>1, <1>7 DEF Changed
<1> QED
  BY <1>1, <1>2, <1>4, <1>8, ReplacingPlan DEF g, i

(* comment *)
LEMMA CommentPlan ==
    ASSUME Ready, NEW f \in Active(files), Comment(f), NEW Q, Q = pending'
    PROVE  Plan(files, Q)
<1> DEFINE n == [f EXCEPT !.comments = @ + 1]
           g == IssuesOf(files)
           i == IssueOf(f)
<1>1. f \in files /\ f \in File /\ i \in Active(g) /\ i.comments = f.comments
  BY ActiveIssue, IssueFields
<1>2. n \in File /\ SamePath(f, n)
  BY <1>1 DEF File, SamePath
<1>3. IssueOf(n) = [i EXCEPT !.comments = @ + 1]
  BY <1>1, IssueChanges
<1>4. Q = {Write(n)}
  BY DEF Comment, Submit
<1> HIDE DEF n, g, i
<1>5. Commented(g, Replaced(g, i, IssueOf(n)), i)
  BY <1>3 DEF Commented
<1>6. Changed(g, Replaced(g, i, IssueOf(n)))
  BY <1>1, <1>5 DEF Changed
<1> QED
  BY <1>1, <1>2, <1>4, <1>6, WritingPlan DEF g, i

(* relate and unrelate: a dependency, which closes no cycle                 *)
LEMMA DependsPlan ==
    ASSUME Ready, NEW f \in Active(files), NEW k \in Active(files), NEW add \in BOOLEAN,
           SetDepends(f, k.id, add),
           (add /\ k.id \notin f.depends) => ~DependsOn(files, k.id, f.id),
           NEW Q, Q = pending'
    PROVE  Plan(files, Q)
<1> DEFINE n == [f EXCEPT !.depends = IF add THEN @ \cup {k.id} ELSE @ \ {k.id}]
           g == IssuesOf(files)
           i == IssueOf(f)
           j == IssueOf(k)
<1>1. /\ f \in files /\ f \in File /\ i \in Active(g) /\ i.id = f.id
      /\ k \in files /\ k \in File /\ j \in Active(g) /\ j.id = k.id
      /\ i.depends = f.depends
  BY ActiveIssue, IssueFields
<1>2. n \in File /\ SamePath(f, n)
  <2>1. k.id \in Ids
    BY <1>1 DEF File
  <2> QED
    BY <1>1, <2>1 DEF File, SamePath
<1>3. IssueOf(n) = IF add THEN [i EXCEPT !.depends = @ \cup {j.id}]
                          ELSE [i EXCEPT !.depends = @ \ {j.id}]
  <2> DEFINE D == IF add THEN f.depends \cup {k.id} ELSE f.depends \ {k.id}
  <2> HIDE DEF D
  <2>1. IssueOf([f EXCEPT !.depends = D]) = [i EXCEPT !.depends = D]
    BY <1>1, IssueChanges
  <2> USE DEF D
  <2> QED
    BY <1>1, <2>1
<1>4. Q = {Write(n)}
  BY DEF SetDepends, Submit
<1>5. add => ~DependsOn(g, j.id, i.id)
  BY <1>1, SamePaths DEF SetDepends
<1> HIDE DEF n, g, i, j
<1>6. IF add THEN DependencyAdded(g, Replaced(g, i, IssueOf(n)), i, j)
             ELSE DependencyRemoved(g, Replaced(g, i, IssueOf(n)), i, j)
  BY <1>3, <1>5 DEF DependencyAdded, DependencyRemoved
<1>7. Changed(g, Replaced(g, i, IssueOf(n)))
  BY <1>1, <1>6 DEF Changed
<1> QED
  BY <1>1, <1>2, <1>4, <1>7, WritingPlan DEF g, i

(* a symmetric relation, at the smaller identity                            *)
LEMMA RelatesPlan ==
    ASSUME Ready, NEW f \in Active(files), NEW k \in Active(files), NEW add \in BOOLEAN,
           SetRelates(f, k.id, add), f.id < k.id,
           NEW Q, Q = pending'
    PROVE  Plan(files, Q)
<1> DEFINE n == [f EXCEPT !.relates = IF add THEN @ \cup {k.id} ELSE @ \ {k.id}]
           g == IssuesOf(files)
           i == IssueOf(f)
           j == IssueOf(k)
<1>1. /\ f \in files /\ f \in File /\ i \in Active(g) /\ i.id = f.id
      /\ k \in files /\ k \in File /\ j \in Active(g) /\ j.id = k.id
      /\ i.relates = f.relates
  BY ActiveIssue, IssueFields
<1>2. n \in File /\ SamePath(f, n)
  <2>1. k.id \in Ids
    BY <1>1 DEF File
  <2> QED
    BY <1>1, <2>1 DEF File, SamePath
<1>3. IssueOf(n) = IF add THEN [i EXCEPT !.relates = @ \cup {j.id}]
                          ELSE [i EXCEPT !.relates = @ \ {j.id}]
  <2> DEFINE D == IF add THEN f.relates \cup {k.id} ELSE f.relates \ {k.id}
  <2> HIDE DEF D
  <2>1. IssueOf([f EXCEPT !.relates = D]) = [i EXCEPT !.relates = D]
    BY <1>1, IssueChanges
  <2> USE DEF D
  <2> QED
    BY <1>1, <2>1
<1>4. Q = {Write(n)}
  BY DEF SetRelates, Submit
<1>5. i.id < j.id
  BY <1>1
<1> HIDE DEF n, g, i, j
<1>6. IF add THEN RelationAdded(g, Replaced(g, i, IssueOf(n)), i, j)
             ELSE RelationRemoved(g, Replaced(g, i, IssueOf(n)), i, j)
  BY <1>3, <1>5 DEF RelationAdded, RelationRemoved
<1>7. Changed(g, Replaced(g, i, IssueOf(n)))
  BY <1>1, <1>6 DEF Changed
<1> QED
  BY <1>1, <1>2, <1>4, <1>7, WritingPlan DEF g, i

(* a supersession                                                           *)
LEMMA SupersedesPlan ==
    ASSUME Ready, NEW f \in Active(files), NEW k \in Active(files), NEW add \in BOOLEAN,
           SetSupersedes(f, k.id, add), f.id # k.id,
           NEW Q, Q = pending'
    PROVE  Plan(files, Q)
<1> DEFINE n == [f EXCEPT !.supersedes = IF add THEN @ \cup {k.id} ELSE @ \ {k.id}]
           g == IssuesOf(files)
           i == IssueOf(f)
           j == IssueOf(k)
<1>1. /\ f \in files /\ f \in File /\ i \in Active(g) /\ i.id = f.id
      /\ k \in files /\ k \in File /\ j \in Active(g) /\ j.id = k.id
      /\ i.supersedes = f.supersedes
  BY ActiveIssue, IssueFields
<1>2. n \in File /\ SamePath(f, n)
  <2>1. k.id \in Ids
    BY <1>1 DEF File
  <2> QED
    BY <1>1, <2>1 DEF File, SamePath
<1>3. IssueOf(n) = IF add THEN [i EXCEPT !.supersedes = @ \cup {j.id}]
                          ELSE [i EXCEPT !.supersedes = @ \ {j.id}]
  <2> DEFINE D == IF add THEN f.supersedes \cup {k.id} ELSE f.supersedes \ {k.id}
  <2> HIDE DEF D
  <2>1. IssueOf([f EXCEPT !.supersedes = D]) = [i EXCEPT !.supersedes = D]
    BY <1>1, IssueChanges
  <2> USE DEF D
  <2> QED
    BY <1>1, <2>1
<1>4. Q = {Write(n)}
  BY DEF SetSupersedes, Submit
<1>5. i.id # j.id
  BY <1>1
<1> HIDE DEF n, g, i, j
<1>6. IF add THEN SupersessionAdded(g, Replaced(g, i, IssueOf(n)), i, j)
             ELSE SupersessionRemoved(g, Replaced(g, i, IssueOf(n)), i, j)
  BY <1>3, <1>5 DEF SupersessionAdded, SupersessionRemoved
<1>7. Changed(g, Replaced(g, i, IssueOf(n)))
  BY <1>1, <1>6 DEF Changed
<1> QED
  BY <1>1, <1>2, <1>4, <1>7, WritingPlan DEF g, i

(* relate and unrelate *)
LEMMA RelationshipPlan ==
    ASSUME Ready, stage = "idle", BlocksSpareCycles,
           NEW f \in Active(files), NEW k \in Active(files), NEW add \in BOOLEAN,
           NEW relationship, Relationship(f, relationship, k, add),
           NEW Q, Q = pending'
    PROVE  Plan(files, Q)
<1>1. f \in files /\ k \in files /\ f.id \in Nat /\ k.id \in Nat /\ f.id # k.id
  BY IssueRulesAssumption DEF Relationship, Ready, Active, File
<1>2. CASE relationship = "blocks" /\ SetDepends(k, f.id, add)
  <2> DEFINE n == [k EXCEPT !.depends = IF add THEN @ \cup {f.id} ELSE @ \ {f.id}]
  <2>1. Q = {Write(n)}
    BY <1>2 DEF SetDepends, Submit
  <2>2. k \in Write(n).before /\ n \in Write(n).after
    <3>1. SamePath(n, k)
      BY <1>1 DEF SamePath, Ready, File
    <3> QED
      BY <3>1, <1>1 DEF Write
  <2>3. \A id \in n.depends \ k.depends : ~DependsOn(files, id, k.id)
    BY <2>1, <2>2 DEF BlocksSpareCycles
  <2>4. n.depends = IF add THEN k.depends \cup {f.id} ELSE k.depends \ {f.id}
    BY <1>1 DEF Ready, File
  <2>5. (add /\ f.id \notin k.depends) => ~DependsOn(files, f.id, k.id)
    BY <2>3, <2>4
  <2> QED
    BY <1>2, <2>5, DependsPlan
<1>3. CASE IF f.id < k.id THEN SetRelates(f, k.id, add) ELSE SetRelates(k, f.id, add)
  BY <1>1, <1>3, RelatesPlan
<1>4. CASE ~(add /\ DependsOn(files, k.id, f.id)) /\ SetDepends(f, k.id, add)
  BY <1>4, DependsPlan
<1>5. CASE SetSupersedes(f, k.id, add)
  BY <1>1, <1>5, SupersedesPlan
<1> QED
  BY <1>2, <1>3, <1>4, <1>5 DEF Relationship

(* An archived file is the file of an archived issue. *)
LEMMA MovedFile ==
    ASSUME NEW k \in File, NEW S
    PROVE  /\ Moved(k, S) \in File /\ Moved(k, S).id = k.id
           /\ Moved(k, S).loc = "archived"
           /\ IssueOf(Moved(k, S)) = Moved(IssueOf(k), S)
<1> DEFINE P == k.parent \cap S
           k2 == [k EXCEPT !.loc = "archived"]
           k3 == [k2 EXCEPT !.parent = P]
           j == IssueOf(k)
           j2 == [j EXCEPT !.loc = "archived"]
           j3 == [j2 EXCEPT !.parent = P]
<1>1. Moved(k, S) = k3
  BY DEF Moved
<1>2. Moved(j, S) = j3
  BY IssueFields DEF Moved
<1>3. P \in Parents
  <2>1. k.parent = {} \/ \E p \in Ids : k.parent = {p}
    BY DEF File, Parents
  <2>2. CASE k.parent = {}
    BY <2>2 DEF Parents
  <2>3. ASSUME NEW p \in Ids, k.parent = {p} PROVE P \in Parents
    <3>1. P = {} \/ P = {p}
      BY <2>3
    <3> QED
      BY <3>1 DEF Parents
  <2> QED
    BY <2>1, <2>2, <2>3
<1> HIDE DEF P
<1>4. k2 \in File /\ k2.id = k.id /\ k2.loc = "archived"
  BY DEF File
<1>5. k3 \in File /\ k3.id = k.id /\ k3.loc = "archived"
  BY <1>3, <1>4 DEF File
<1>6. IssueOf(k2) = j2
  BY IssueChanges
<1> HIDE DEF k2, j2
<1>7. IssueOf(k3) = j3
  <2>1. IssueOf(k3) = [IssueOf(k2) EXCEPT !.parent = P]
    BY <1>4, IssueChanges
  <2> QED
    BY <1>6, <2>1
<1> HIDE DEF k3, j3, j
<1>8. IssueOf(Moved(k, S)) = Moved(j, S)
  BY <1>1, <1>2, <1>7
<1> QED
  BY <1>1, <1>5, <1>8 DEF j

(* archive *)
LEMMA ArchivePlan ==
    ASSUME Ready, NEW f \in Active(files), Archive(f), NEW Q, Q = pending'
    PROVE  Plan(files, Q)
<1> DEFINE g == IssuesOf(files)
           i == IssueOf(f)
           S == Subtree(files, f.id) \cap Named(Active(files))
           moved == {k \in files : k.id \in S}
           h == {IF k.id \in S THEN Moved(k, S) ELSE k : k \in files}
<1>1. /\ files \subseteq File /\ UniqueIds(files) /\ Sound(g)
      /\ i \in Active(g) /\ i.id = f.id
  BY ActiveIssue DEF Ready
<1>2. S = ActiveSubtree(g, i)
  BY <1>1, SameAnswers, SamePaths DEF ActiveSubtree
<1>3. \A k \in files : k.id \in S => k.loc = "active"
  BY <1>1 DEF Named, Active, UniqueIds
<1>4. Q = {Write(Moved(k, S)) : k \in moved} \cup {Delete(k) : k \in moved}
  BY DEF Archive, Submit, Moved
<1> HIDE DEF S
<1>5. ASSUME NEW k \in files
      PROVE  /\ Moved(k, S) \in File /\ Moved(k, S).id = k.id
             /\ Moved(k, S).loc = "archived"
             /\ IssueOf(Moved(k, S)) = Moved(IssueOf(k), S)
  BY <1>1, MovedFile
<1>6. /\ Q \subseteq Replacement /\ Disjoint(files, Q)
      /\ Result(files, Q) = h /\ UniqueIds(Result(files, Q))
      /\ \A A : Prefix(Q, A) => Partway(files, Result(files, Q), Result(files, A))
  <2>1. \A k \in moved : /\ Moved(k, S) \in File /\ Moved(k, S).id = k.id
                         /\ Moved(k, S).loc = "archived"
    BY <1>5
  <2>2. moved = {k \in files : k.id \in S}
    OBVIOUS
  <2> HIDE DEF moved, g, i
  <2>3. /\ Q \subseteq Replacement /\ Disjoint(files, Q)
        /\ Result(files, Q) = {IF k.id \in S THEN Moved(k, S) ELSE k : k \in files}
        /\ UniqueIds(Result(files, Q))
        /\ \A A : Prefix(Q, A) => Partway(files, Result(files, Q), Result(files, A))
    BY <1>1, <1>3, <1>4, <2>1, <2>2, ArchivingBatch
  <2> QED
    BY <2>3
<1>7. IssuesOf(h) = {IF j.id \in S THEN Moved(j, S) ELSE j : j \in g}
  <2>1. ASSUME NEW k \in files
        PROVE  IssueOf(IF k.id \in S THEN Moved(k, S) ELSE k)
                   = IF IssueOf(k).id \in S THEN Moved(IssueOf(k), S) ELSE IssueOf(k)
    BY <1>5, IssueFields
  <2> QED
    BY <2>1 DEF IssuesOf
<1> HIDE DEF h
<1>8. Archived(g, IssuesOf(h), i)
  BY <1>2, <1>7 DEF Archived
<1>9. Changed(g, IssuesOf(h))
  BY <1>1, <1>8 DEF Changed
<1> QED
  BY <1>1, <1>6, <1>9 DEF Plan

(* Every operation submits a planned batch. *)
LEMMA OperationPlans ==
    ASSUME Ready, Operation, BlocksSpareCycles
    PROVE  \E Q : Q = pending' /\ Plan(files, Q)
<1> DEFINE Q == pending'
<1>1. Q = pending'
  OBVIOUS
<1> HIDE DEF Q
<1>2. ASSUME NEW id \in Ids, NEW title \in Titles, NEW type \in Types,
             NEW parent \in Parents, NEW depends \in SUBSET Ids,
             Create(id, title, type, parent, depends)
      PROVE  Plan(files, Q)
  BY <1>1, <1>2, CreatePlan
<1>3. ASSUME NEW f \in Active(files), NEW title \in Titles, NEW type \in Types,
             NEW parent \in Parents, Update(f, title, type, parent)
      PROVE  Plan(files, Q)
  BY <1>1, <1>3, UpdatePlan
<1>4. ASSUME NEW f \in Active(files), Comment(f) PROVE Plan(files, Q)
  BY <1>1, <1>4, CommentPlan
<1>5. ASSUME NEW f \in Active(files), Archive(f) PROVE Plan(files, Q)
  BY <1>1, <1>5, ArchivePlan
<1>6. ASSUME NEW f \in Active(files), NEW relationship, NEW k \in Active(files),
             NEW add \in BOOLEAN, Relationship(f, relationship, k, add)
      PROVE  Plan(files, Q)
  <2>1. stage = "idle"
    BY DEF Operation
  <2> QED
    BY <1>1, <1>6, <2>1, RelationshipPlan
<1>7. Plan(files, Q)
  BY <1>2, <1>3, <1>4, <1>5, <1>6 DEF Operation
<1> QED
  BY <1>1, <1>7

-----------------------------------------------------------------------------
(* The invariant *)

\* A is what is published of the batch Q for the files B; applied may be ahead
\* of it by what failed.
Publishing(B, Q, A) ==
    /\ Plan(B, Q)
    /\ Prefix(Q, A) /\ files = Result(B, A)
    /\ Prefix(Q, applied) /\ A \subseteq applied
    /\ stage = "publish" => A = applied /\ pending = Q \ applied

\* Unless a roll-back failed, a call is somewhere in a planned batch, and
\* between calls the files are sound or reported.
Kept ==
    /\ stage \in {"idle", "left"} => Reported \/ Sound(IssuesOf(files))
    /\ stage \in {"publish", "undo"} => ~temp /\ \E B, Q, A : Publishing(B, Q, A)

IInv == TypeOK /\ (warned \/ Kept)

(* Both ends of a planned batch are sound and valid. *)
LEMMA PlanSound ==
    ASSUME NEW B, NEW Q, Plan(B, Q)
    PROVE  /\ Valid(B) /\ Valid(Result(B, Q))
           /\ Sound(IssuesOf(B)) /\ Sound(IssuesOf(Result(B, Q)))
<1>1. Sound(IssuesOf(B)) /\ Sound(IssuesOf(Result(B, Q)))
  BY ChangedSound DEF Plan
<1> QED
  BY <1>1, SoundValid, ValidFiles DEF Plan

(* What counts is B, until the last file of the batch is published. *)
LEMMA CommittedNow ==
    ASSUME NEW B, NEW Q, NEW A, Publishing(B, Q, A)
    PROVE  Committed = IF stage = "publish" /\ pending = {} THEN Result(B, Q) ELSE B
<1>1. /\ Plan(B, Q)
      /\ files = Result(B, A)
      /\ Prefix(Q, applied) /\ A \subseteq applied
      /\ stage = "publish" => A = applied /\ pending = Q \ applied
  BY DEF Publishing
<1>2. (files \ Afters(applied)) \cup Befores(applied) = B
  <2>1. Disjoint(B, Q) /\ applied \subseteq Q
    BY <1>1 DEF Plan, Prefix
  <2> QED
    BY <1>1, <2>1, ResultUndone
<1>3. stage = "publish" /\ pending = {} => files = Result(B, Q)
  <2> SUFFICES ASSUME stage = "publish", pending = {}
               PROVE  files = Result(B, Q)
    OBVIOUS
  <2>1. A = Q
    BY <1>1 DEF Prefix
  <2> QED
    BY <1>1, <2>1
<1>4. Committed = IF stage = "publish" /\ pending = {} THEN files
                  ELSE (files \ Afters(applied)) \cup Befores(applied)
  BY DEF Committed, Afters, Befores
<1> QED
  BY <1>2, <1>3, <1>4

(* The same after a step. *)
LEMMA CommittedNext ==
    ASSUME NEW B, NEW Q, NEW A, Publishing(B, Q, A)'
    PROVE  Committed' = IF stage' = "publish" /\ pending' = {} THEN Result(B, Q) ELSE B
<1>1. /\ Plan(B, Q)
      /\ files' = Result(B, A)
      /\ Prefix(Q, applied') /\ A \subseteq applied'
      /\ stage' = "publish" => A = applied' /\ pending' = Q \ applied'
  BY DEF Publishing
<1>2. (files' \ Afters(applied')) \cup Befores(applied') = B
  <2>1. Disjoint(B, Q) /\ applied' \subseteq Q
    BY <1>1 DEF Plan, Prefix
  <2> QED
    BY <1>1, <2>1, ResultUndone
<1>3. stage' = "publish" /\ pending' = {} => files' = Result(B, Q)
  <2> SUFFICES ASSUME stage' = "publish", pending' = {}
               PROVE  files' = Result(B, Q)
    OBVIOUS
  <2>1. A = Q
    BY <1>1 DEF Prefix
  <2> QED
    BY <1>1, <2>1
<1>4. Committed' = IF stage' = "publish" /\ pending' = {} THEN files'
                   ELSE (files' \ Afters(applied')) \cup Befores(applied')
  BY DEF Committed, Afters, Befores
<1> QED
  BY <1>2, <1>3, <1>4

(* Between calls the files count as they are. *)
LEMMA CommittedIdle ==
    /\ TypeOK /\ stage \in {"idle", "left"} => Committed = files
    /\ (TypeOK /\ stage \in {"idle", "left"})' => Committed' = files'
BY DEF TypeOK, Committed

(* What counts is sound, unless it is reported. *)
LEMMA CommittedSound ==
    ASSUME IInv, ~Reported
    PROVE  Sound(IssuesOf(Committed))
<1>1. TypeOK /\ Kept
  BY DEF IInv, Reported
<1>2. CASE stage \in {"idle", "left"}
  BY <1>1, <1>2, CommittedIdle DEF Kept
<1>3. CASE stage \in {"publish", "undo"}
  <2>1. PICK B, Q, A : Publishing(B, Q, A)
    BY <1>1, <1>3 DEF Kept
  <2>2. Plan(B, Q)
    BY <2>1 DEF Publishing
  <2> QED
    BY <2>1, <2>2, CommittedNow, PlanSound
<1> QED
  BY <1>1, <1>2, <1>3 DEF TypeOK

-----------------------------------------------------------------------------
(* Steps inside a batch *)

(* What is first among the pending replacements extends the prefix. *)
LEMMA PrefixGrows ==
    ASSUME NEW Q, NEW A, Prefix(Q, A), NEW r \in Q \ A, IsFirst(r, Q \ A)
    PROVE  Prefix(Q, A \cup {r})
<1> SUFFICES ASSUME NEW s \in A \cup {r}, NEW q \in Q \ (A \cup {r})
             PROVE  Precedes(s, q)
  BY DEF Prefix
<1>1. CASE s \in A
  BY <1>1 DEF Prefix
<1>2. CASE s = r
  BY <1>2 DEF IsFirst, Precedes
<1> QED
  BY <1>1, <1>2

(* Without what is last among the applied ones, a prefix is left. *)
LEMMA PrefixShrinks ==
    ASSUME NEW Q, NEW P, NEW A, Prefix(Q, P), Prefix(Q, A), A \subseteq P,
           NEW r \in P, IsLast(r, P)
    PROVE  Prefix(Q, A \ {r})
<1> SUFFICES ASSUME NEW s \in A \ {r}, NEW q \in Q \ (A \ {r})
             PROVE  Precedes(s, q)
  BY DEF Prefix
<1>1. CASE q \in Q \ A
  BY <1>1 DEF Prefix
<1>2. CASE q = r
  BY <1>2 DEF IsLast, Precedes
<1> QED
  BY <1>1, <1>2

(* The next file of a batch is published. *)
LEMMA PublishNextGoesOn ==
    ASSUME NEW B, NEW Q, NEW A, Publishing(B, Q, A), PublishNext
    PROVE  (\E A2 : Publishing(B, Q, A2)') /\ pending # {}
<1>1. /\ Plan(B, Q) /\ Disjoint(B, Q) /\ applied \subseteq Q
      /\ Prefix(Q, applied) /\ files = Result(B, applied) /\ pending = Q \ applied
  BY DEF Publishing, PublishNext, Plan, Prefix
<1>2. PICK r \in Q \ applied :
          /\ IsFirst(r, Q \ applied)
          /\ files' = (files \ r.before) \cup r.after
          /\ pending' = pending \ {r} /\ applied' = applied \cup {r}
  BY <1>1 DEF PublishNext, Apply
<1> DEFINE A2 == applied \cup {r}
<1>3. files' = Result(B, A2)
  <2>1. Result(B, A2) = (Result(B, applied) \ r.before) \cup r.after
    BY <1>1, ResultGrows
  <2> QED
    BY <1>1, <1>2, <2>1
<1>4. Prefix(Q, A2)
  BY <1>1, <1>2, PrefixGrows
<1>5. pending' = Q \ A2 /\ applied' = A2
  BY <1>1, <1>2
<1> HIDE DEF A2
<1>6. PICK P : P = A2
  OBVIOUS
<1>7. Publishing(B, Q, P)'
  BY <1>1, <1>3, <1>4, <1>5, <1>6 DEF Publishing
<1> QED
  BY <1>1, <1>2, <1>7

(* It fails, before or after it took effect. *)
LEMMA PublishFailsGoesOn ==
    ASSUME NEW B, NEW Q, NEW A, Publishing(B, Q, A), PublishFails
    PROVE  (\E A2 : Publishing(B, Q, A2)') /\ pending # {}
<1>1. /\ Plan(B, Q) /\ Disjoint(B, Q) /\ applied \subseteq Q
      /\ Prefix(Q, applied) /\ files = Result(B, applied) /\ pending = Q \ applied
      /\ stage' = "undo"
  BY DEF Publishing, PublishFails, Plan, Prefix
<1>2. PICK r \in Q \ applied :
          /\ IsFirst(r, Q \ applied)
          /\ files' = files \/ files' = (files \ r.before) \cup r.after
          /\ applied' = applied \cup {r}
  BY <1>1 DEF PublishFails, Apply
<1>3. files' = Result(B, applied) \/ files' = Result(B, applied')
  <2>1. Result(B, applied \cup {r}) = (Result(B, applied) \ r.before) \cup r.after
    BY <1>1, ResultGrows
  <2> QED
    BY <1>1, <1>2, <2>1
<1>4. Prefix(Q, applied')
  BY <1>1, <1>2, PrefixGrows
<1>5. PICK P : P = applied'
  OBVIOUS
<1>6. PICK A2 : (A2 = applied \/ A2 = P) /\ files' = Result(B, A2)
  BY <1>3, <1>5
<1>7. Prefix(Q, A2) /\ A2 \subseteq applied'
  BY <1>1, <1>2, <1>4, <1>5, <1>6
<1>8. Publishing(B, Q, A2)'
  BY <1>1, <1>4, <1>6, <1>7 DEF Publishing
<1> QED
  BY <1>1, <1>2, <1>8

(* A replacement is rolled back, whether it was published or not. *)
LEMMA RollBackGoesOn ==
    ASSUME NEW B, NEW Q, NEW A, Publishing(B, Q, A), RollBackNext, ~warned'
    PROVE  \E A2 : Publishing(B, Q, A2)'
<1>1. /\ Plan(B, Q) /\ Disjoint(B, Q) /\ applied \subseteq Q
      /\ Prefix(Q, A) /\ files = Result(B, A) /\ Prefix(Q, applied) /\ A \subseteq applied
      /\ stage' = "undo"
  BY DEF Publishing, RollBackNext, Plan, Prefix
<1>2. PICK r \in applied :
          /\ IsLast(r, applied)
          /\ files' = (files \ r.after) \cup r.before
          /\ applied' = applied \ {r}
  BY DEF RollBackNext, Unapply
<1>3. files' = Result(B, A \ {r})
  <2>1. A \subseteq Q /\ r \in Q
    BY <1>1
  <2> QED
    BY <1>1, <1>2, <2>1, ResultShrinks
<1>4. Prefix(Q, A \ {r}) /\ Prefix(Q, applied')
  BY <1>1, <1>2, PrefixShrinks
<1>5. Publishing(B, Q, A \ {r})'
  BY <1>1, <1>2, <1>3, <1>4 DEF Publishing
<1> QED
  BY <1>5

(* What a death leaves is reported, or sound. *)
LEMMA DeathSound ==
    ASSUME NEW B, NEW Q, NEW A, Publishing(B, Q, A), Valid(files)
    PROVE  Sound(IssuesOf(files))
<1>1. /\ Plan(B, Q) /\ Prefix(Q, A) /\ files = Result(B, A)
      /\ UniqueIds(B) /\ UniqueIds(Result(B, Q))
  BY DEF Publishing, Plan
<1>2. Partway(B, Result(B, Q), files)
  BY <1>1 DEF Plan
<1>3. Sound(IssuesOf(B)) /\ Sound(IssuesOf(Result(B, Q)))
  BY <1>1, PlanSound
<1> QED
  BY <1>1, <1>2, <1>3, PartSound DEF Partway, Valid

(* If no issue is missing, it is all or nothing. *)
LEMMA DeathWhole ==
    ASSUME NEW B, NEW Q, NEW A, Publishing(B, Q, A), Valid(files),
           Named(B) \subseteq Named(files)
    PROVE  files = B \/ files = Result(B, Q)
<1>1. Plan(B, Q) /\ Prefix(Q, A) /\ files = Result(B, A)
  BY DEF Publishing
<1>2. Partway(B, Result(B, Q), files)
  BY <1>1 DEF Plan
<1> QED
  BY <1>2 DEF Partway, Valid

-----------------------------------------------------------------------------
(* The types *)

(* What is written is a file. *)
LEMMA WriteTyped ==
    ASSUME files \subseteq File
    PROVE  /\ \A n \in File : Write(n) \in Replacement
           /\ \A f \in files : Delete(f) \in Replacement
BY DEF Write, Delete, Replacement

(* A submission starts a batch and changes no file. *)
LEMMA OperationSubmits ==
    ASSUME Operation
    PROVE  /\ stage = "idle" /\ ~Refused /\ stage' = "publish" /\ ops' = ops + 1
           /\ UNCHANGED <<files, temp, applied, warned, faults, crashes>>
<1>1. ASSUME NEW Q, Submit(Q)
      PROVE  /\ stage' = "publish" /\ ops' = ops + 1
             /\ UNCHANGED <<files, temp, applied, warned, faults, crashes>>
  BY <1>1 DEF Submit
<1>2. ASSUME NEW id, NEW title, NEW type, NEW parent, NEW depends,
             Create(id, title, type, parent, depends)
      PROVE  \E Q : Submit(Q)
  BY <1>2 DEF Create
<1>3. ASSUME NEW f, NEW title, NEW type, NEW parent, Update(f, title, type, parent)
      PROVE  \E Q : Submit(Q)
  BY <1>3 DEF Update
<1>4. ASSUME NEW f, Comment(f) \/ Archive(f) PROVE \E Q : Submit(Q)
  BY <1>4 DEF Comment, Archive
<1>5. ASSUME NEW f, NEW id, NEW add,
             SetDepends(f, id, add) \/ SetRelates(f, id, add) \/ SetSupersedes(f, id, add)
      PROVE  \E Q : Submit(Q)
  BY <1>5 DEF SetDepends, SetRelates, SetSupersedes
<1>6. ASSUME NEW f, NEW relationship, NEW k, NEW add, Relationship(f, relationship, k, add)
      PROVE  \E Q : Submit(Q)
  BY <1>5, <1>6 DEF Relationship
<1>7. \E Q : Submit(Q)
  BY <1>2, <1>3, <1>4, <1>6 DEF Operation
<1> QED
  BY <1>1, <1>7 DEF Operation

(* Every operation submits replacements. *)
LEMMA OperationTyped ==
    ASSUME files \subseteq File, Operation
    PROVE  pending' \subseteq Replacement
<1>1. ASSUME NEW id \in Ids, NEW title \in Titles, NEW type \in Types,
             NEW parent \in Parents, NEW depends \in SUBSET Ids,
             Create(id, title, type, parent, depends)
      PROVE  pending' \subseteq Replacement
  <2> DEFINE n == [id |-> id, title |-> title, loc |-> "active",
                   type |-> type, parent |-> parent, depends |-> depends,
                   relates |-> {}, supersedes |-> {}, comments |-> 0]
  <2>1. n \in File
    BY DEF File
  <2>2. pending' = {Write(n)}
    BY <1>1 DEF Create, Submit
  <2> HIDE DEF n
  <2> QED
    BY <2>1, <2>2, WriteTyped
<1>2. ASSUME NEW f \in Active(files), NEW title \in Titles, NEW type \in Types,
             NEW parent \in Parents, Update(f, title, type, parent)
      PROVE  pending' \subseteq Replacement
  <2> DEFINE n == [f EXCEPT !.title = title, !.type = type, !.parent = parent]
  <2>1. f \in files /\ f \in File
    BY DEF Active
  <2>2. n \in File
    BY <2>1 DEF File
  <2>3. pending' = {Write(n)} \cup (IF SamePath(f, n) THEN {} ELSE {Delete(f)})
    BY <1>2 DEF Update, Submit
  <2> HIDE DEF n
  <2>4. Write(n) \in Replacement /\ Delete(f) \in Replacement
    BY <2>1, <2>2, WriteTyped
  <2> QED
    BY <2>3, <2>4
<1>3. ASSUME NEW f \in Active(files), Comment(f)
      PROVE  pending' \subseteq Replacement
  <2>1. [f EXCEPT !.comments = @ + 1] \in File
    BY DEF Active, File
  <2> QED
    BY <1>3, <2>1, WriteTyped DEF Comment, Submit
<1>4. ASSUME NEW f \in Active(files), NEW k \in Active(files), NEW add \in BOOLEAN,
             \/ SetDepends(f, k.id, add)
             \/ SetRelates(f, k.id, add)
             \/ SetSupersedes(f, k.id, add)
      PROVE  pending' \subseteq Replacement
  <2>1. f \in File /\ k.id \in Ids
    BY DEF Active, File
  <2>2. ASSUME NEW D \in SUBSET Ids
        PROVE  /\ [f EXCEPT !.depends = D] \in File
               /\ [f EXCEPT !.relates = D] \in File
               /\ [f EXCEPT !.supersedes = D] \in File
    BY <2>1 DEF File
  <2>3. f.depends \subseteq Ids /\ f.relates \subseteq Ids /\ f.supersedes \subseteq Ids
    BY <2>1 DEF File
  <2>4. CASE SetDepends(f, k.id, add)
    <3> DEFINE D == IF add THEN f.depends \cup {k.id} ELSE f.depends \ {k.id}
    <3>1. pending' = {Write([f EXCEPT !.depends = D])}
      BY <2>4 DEF SetDepends, Submit
    <3>2. D \in SUBSET Ids
      BY <2>1, <2>3
    <3> HIDE DEF D
    <3> QED
      BY <3>1, <3>2, <2>2, WriteTyped
  <2>5. CASE SetRelates(f, k.id, add)
    <3> DEFINE D == IF add THEN f.relates \cup {k.id} ELSE f.relates \ {k.id}
    <3>1. pending' = {Write([f EXCEPT !.relates = D])}
      BY <2>5 DEF SetRelates, Submit
    <3>2. D \in SUBSET Ids
      BY <2>1, <2>3
    <3> HIDE DEF D
    <3> QED
      BY <3>1, <3>2, <2>2, WriteTyped
  <2>6. CASE SetSupersedes(f, k.id, add)
    <3> DEFINE D == IF add THEN f.supersedes \cup {k.id} ELSE f.supersedes \ {k.id}
    <3>1. pending' = {Write([f EXCEPT !.supersedes = D])}
      BY <2>6 DEF SetSupersedes, Submit
    <3>2. D \in SUBSET Ids
      BY <2>1, <2>3
    <3> HIDE DEF D
    <3> QED
      BY <3>1, <3>2, <2>2, WriteTyped
  <2> QED
    BY <1>4, <2>4, <2>5, <2>6
<1>5. ASSUME NEW f \in Active(files), NEW relationship, NEW k \in Active(files),
             NEW add \in BOOLEAN, Relationship(f, relationship, k, add)
      PROVE  pending' \subseteq Replacement
  BY <1>4, <1>5 DEF Relationship
<1>6. ASSUME NEW f \in Active(files), Archive(f)
      PROVE  pending' \subseteq Replacement
  <2> DEFINE S == Subtree(files, f.id) \cap Named(Active(files))
             moved == {k \in files : k.id \in S}
  <2>1. pending' = {Write(Moved(k, S)) : k \in moved} \cup {Delete(k) : k \in moved}
    BY <1>6 DEF Archive, Submit, Moved
  <2> HIDE DEF S
  <2>2. \A k \in files : Moved(k, S) \in File
    BY MovedFile
  <2>3. \A k \in moved : Write(Moved(k, S)) \in Replacement /\ Delete(k) \in Replacement
    BY <2>2, WriteTyped
  <2> QED
    BY <2>1, <2>3
<1> QED
  BY <1>1, <1>2, <1>3, <1>5, <1>6 DEF Operation

(* Publishing and rolling back leave files. *)
LEMMA ReplacementTyped ==
    ASSUME files \subseteq File, NEW r \in Replacement
    PROVE  Apply(r) \/ Unapply(r) => files' \subseteq File
BY DEF Replacement, Apply, Unapply

(* Every step keeps the types. *)
LEMMA TypeStep == TypeOK /\ [Next]_vars => TypeOK'
<1> SUFFICES ASSUME TypeOK, [Next]_vars PROVE TypeOK'
  OBVIOUS
<1>0. /\ files \subseteq File
      /\ temp \in BOOLEAN /\ warned \in BOOLEAN
      /\ stage \in {"idle", "publish", "undo", "left"}
      /\ pending \subseteq Replacement /\ applied \subseteq Replacement
      /\ stage \in {"idle", "left"} => pending = {} /\ applied = {}
      /\ ops \in Nat /\ faults \in Nat /\ crashes \in Nat
  BY DEF TypeOK
<1>1. CASE OperatorRemovesLock
  BY <1>0, <1>1 DEF OperatorRemovesLock, TypeOK, batch, bounds
<1>2. CASE Read
  BY <1>0, <1>2 DEF Read, Release, TypeOK
<1>3. CASE Operation
  BY <1>0, <1>3, OperationSubmits, OperationTyped DEF TypeOK
<1>4. CASE PublishNext
  <2>1. PICK r \in pending : Apply(r) /\ pending' = pending \ {r} /\ applied' = applied \cup {r}
    BY <1>4 DEF PublishNext
  <2>2. files' \subseteq File
    BY <2>1, <1>0, ReplacementTyped
  <2> QED
    BY <2>1, <2>2, <1>0, <1>4 DEF PublishNext, TypeOK, bounds
<1>5. CASE PublishFails
  <2>1. PICK r \in pending : /\ UNCHANGED files \/ Apply(r)
                             /\ applied' = applied \cup {r} /\ faults' = faults + 1
    BY <1>5 DEF PublishFails, Fault
  <2>2. files' \subseteq File
    BY <2>1, <1>0, ReplacementTyped
  <2> QED
    BY <2>1, <2>2, <1>0, <1>5 DEF PublishFails, TypeOK
<1>6. CASE RollBackNext
  <2>1. PICK r \in applied :
            /\ applied' = applied \ {r}
            /\ \/ Unapply(r) /\ UNCHANGED <<warned, faults>>
               \/ /\ Fault("rollback") /\ warned' = TRUE
                  /\ UNCHANGED files \/ Unapply(r)
    BY <1>6 DEF RollBackNext
  <2>2. files' \subseteq File
    BY <2>1, <1>0, ReplacementTyped
  <2>3. warned' = warned \/ warned' = TRUE
    BY <2>1
  <2>4. faults' = faults \/ faults' = faults + 1
    BY <2>1 DEF Fault
  <2>5. warned' \in BOOLEAN
    BY <2>3, <1>0
  <2>6. faults' \in Nat
    BY <2>4, <1>0
  <2> QED
    BY <2>1, <2>2, <2>5, <2>6, <1>0, <1>6 DEF RollBackNext, TypeOK
<1>7. CASE Finish
  BY <1>0, <1>7 DEF Finish, Release, TypeOK
<1>8. CASE Crash
  <2>1. (temp \/ Writing) \in BOOLEAN
    OBVIOUS
  <2>2. temp' = temp \/ temp' = (temp \/ Writing)
    BY <1>8 DEF Crash
  <2>3. temp' \in BOOLEAN
    BY <2>1, <2>2, <1>0
  <2> QED
    BY <2>3, <1>0, <1>8 DEF Crash, TypeOK
<1>9. CASE UNCHANGED vars
  BY <1>0, <1>9 DEF vars, batch, bounds, TypeOK
<1> QED
  BY <1>1, <1>2, <1>3, <1>4, <1>5, <1>6, <1>7, <1>8, <1>9 DEF Next

-----------------------------------------------------------------------------
(* The invariant is inductive *)

(* A warning is never taken back. *)
LEMMA WarningStays == [Next]_vars /\ warned => warned'
<1> SUFFICES ASSUME [Next]_vars, warned PROVE warned'
  OBVIOUS
<1>1. warned' = warned \/ warned' = TRUE
  <2>1. CASE OperatorRemovesLock \/ Read
    BY <2>1 DEF OperatorRemovesLock, Read
  <2>2. CASE Operation
    BY <2>2, OperationSubmits
  <2>3. CASE PublishNext \/ PublishFails
    BY <2>3 DEF PublishNext, PublishFails
  <2>4. CASE RollBackNext
    BY <2>4 DEF RollBackNext
  <2>5. CASE Finish \/ Crash
    BY <2>5 DEF Finish, Crash
  <2>6. CASE UNCHANGED vars
    BY <2>6 DEF vars
  <2> QED
    BY <2>1, <2>2, <2>3, <2>4, <2>5, <2>6 DEF Next
<1> QED
  BY <1>1

(* An operation finds sound files and plans its batch. *)
LEMMA OperationGoesOn ==
    ASSUME TypeOK, Kept, ~warned, Operation, BlocksSpareCycles
    PROVE  \E Q : Publishing(files, Q, {})' /\ Plan(files, Q)
<1>1. /\ stage = "idle" /\ ~temp /\ Valid(files) /\ stage' = "publish"
      /\ UNCHANGED <<files, temp, applied, warned, faults, crashes>>
  BY OperationSubmits DEF Refused
<1>2. Committed = files /\ applied = {}
  BY <1>1, CommittedIdle DEF TypeOK
<1>3. ~Reported
  BY <1>1, <1>2 DEF Reported
<1>4. Ready
  BY <1>1, <1>3 DEF Ready, Kept, TypeOK, Valid
<1>5. PICK Q : Q = pending' /\ Plan(files, Q)
  BY <1>4, OperationPlans
<1>6. Prefix(Q, {})
  BY DEF Prefix
<1>7. files = Result(files, {})
  BY NothingApplied
<1>8. Publishing(files, Q, {})'
  BY <1>1, <1>2, <1>5, <1>6, <1>7 DEF Publishing
<1> QED
  BY <1>5, <1>8

(* Files that are sound need no report, and what is reported stays so.     *)
LEMMA IdleKept ==
    ASSUME TypeOK, Kept, ~warned, stage \in {"idle", "left"},
           UNCHANGED <<files, temp, warned, crashes>>,
           TypeOK', stage' \in {"idle", "left"}
    PROVE  Kept' /\ (Reported' <=> Reported) /\ Committed' = Committed
<1>1. Committed = files /\ Committed' = files'
  BY CommittedIdle
<1>2. Reported' <=> Reported
  BY <1>1 DEF Reported
<1> QED
  BY <1>1, <1>2 DEF Kept

(* A call that ends leaves sound files. *)
LEMMA FinishSound ==
    ASSUME NEW B, NEW Q, NEW A, Publishing(B, Q, A), Finish
    PROVE  files = Committed /\ Sound(IssuesOf(files))
<1>1. Plan(B, Q) /\ Prefix(Q, A) /\ files = Result(B, A) /\ A \subseteq applied
  BY DEF Publishing
<1>2. CASE stage = "publish" /\ pending = {}
  <2>1. files = Result(B, Q)
    BY <1>1, <1>2 DEF Publishing, Prefix
  <2> QED
    BY <1>1, <1>2, <2>1, CommittedNow, PlanSound
<1>3. CASE stage = "undo" /\ applied = {}
  <2>1. files = B
    BY <1>1, <1>3, NothingApplied
  <2> QED
    BY <1>1, <1>3, <2>1, CommittedNow, PlanSound
<1> QED
  BY <1>2, <1>3 DEF Finish

(* Every step keeps the invariant. *)
LEMMA InvStep == IInv /\ [Next]_vars /\ [BlocksSpareCycles]_vars => IInv'
<1> SUFFICES ASSUME IInv, [Next]_vars, [BlocksSpareCycles]_vars, ~warned'
             PROVE  Kept'
  BY TypeStep DEF IInv
<1>1. ~warned /\ TypeOK /\ Kept /\ TypeOK'
  BY WarningStays, TypeStep DEF IInv
<1>2. CASE OperatorRemovesLock
  BY <1>1, <1>2, IdleKept DEF OperatorRemovesLock, bounds
<1>3. CASE Read
  <2>1. stage = "idle" /\ stage' \in {"idle", "left"}
        /\ UNCHANGED <<files, temp, warned, crashes>>
    BY <1>3 DEF Read, Release
  <2> QED
    BY <1>1, <2>1, IdleKept
<1>4. CASE Operation
  <2>1. stage' = "publish" /\ ~temp'
    BY <1>4, OperationSubmits DEF Refused
  <2>2. BlocksSpareCycles
    <3>1. ops' # ops
      BY <1>1, <1>4, OperationSubmits DEF TypeOK
    <3> QED
      BY <3>1 DEF vars, bounds
  <2>3. PICK Q : Publishing(files, Q, {})'
    BY <1>1, <1>4, <2>2, OperationGoesOn
  <2>4. PICK B : B = files
    OBVIOUS
  <2>5. \E B2, Q2, A2 : Publishing(B2, Q2, A2)'
    <3>1. files' = files
      BY <1>4, OperationSubmits
    <3>2. Publishing(B, Q, {})'
      BY <2>3, <2>4, <3>1 DEF Publishing
    <3> QED
      BY <3>2
  <2> QED
    BY <2>1, <2>5 DEF Kept
<1>5. ASSUME PublishNext \/ PublishFails \/ RollBackNext \/ Finish \/ Crash
      PROVE  ~temp /\ \E B, Q, A : Publishing(B, Q, A)
  <2>1. stage \in {"publish", "undo"}
    BY <1>5 DEF PublishNext, PublishFails, RollBackNext, Finish, Crash
  <2> QED
    BY <1>1, <2>1 DEF Kept
<1>6. CASE PublishNext \/ PublishFails \/ RollBackNext
  <2>1. PICK B, Q, A : Publishing(B, Q, A)
    BY <1>5, <1>6
  <2>2. \E A2 : Publishing(B, Q, A2)'
    BY <1>6, <2>1, PublishNextGoesOn, PublishFailsGoesOn, RollBackGoesOn
  <2>3. temp' = temp /\ stage' \in {"publish", "undo"}
    BY <1>6 DEF PublishNext, PublishFails, RollBackNext
  <2> QED
    BY <1>5, <1>6, <2>2, <2>3 DEF Kept
<1>7. CASE Finish
  <2>1. PICK B, Q, A : Publishing(B, Q, A)
    BY <1>5, <1>7
  <2>2. Sound(IssuesOf(files))
    BY <1>7, <2>1, FinishSound
  <2>3. files' = files /\ stage' \in {"idle", "left"}
    BY <1>7 DEF Finish, Release
  <2> QED
    BY <2>2, <2>3 DEF Kept
<1>8. CASE Crash
  <2>1. PICK B, Q, A : Publishing(B, Q, A)
    BY <1>5, <1>8
  <2>2. files' = files /\ stage' = "left" /\ crashes' > 0
    BY <1>1, <1>8 DEF Crash, TypeOK
  <2>3. Committed' = files'
    BY <1>1, <2>2, CommittedIdle
  <2>4. ~Reported' => Valid(files)
    BY <2>2, <2>3 DEF Reported
  <2>5. Valid(files) => Sound(IssuesOf(files))
    BY <2>1, DeathSound
  <2> QED
    BY <2>2, <2>4, <2>5 DEF Kept
<1>9. CASE UNCHANGED vars
  <2>1. CASE stage \in {"idle", "left"}
    BY <1>1, <1>9, <2>1, IdleKept DEF vars, bounds
  <2>2. CASE stage \in {"publish", "undo"}
    <3>1. PICK B, Q, A : ~temp /\ Publishing(B, Q, A)
      BY <1>1, <2>2 DEF Kept
    <3>2. Publishing(B, Q, A)'
      BY <1>9, <3>1 DEF vars, batch, Publishing
    <3> QED
      BY <1>9, <2>2, <3>1, <3>2 DEF vars, Kept
  <2> QED
    BY <1>1, <2>1, <2>2 DEF TypeOK
<1> QED
  BY <1>2, <1>3, <1>4, <1>6, <1>7, <1>8, <1>9 DEF Next

(* It holds at first. *)
LEMMA InvInit == Init => IInv
<1> SUFFICES ASSUME Init PROVE IInv
  OBVIOUS
<1>1. TypeOK
  BY DEF Init, TypeOK
<1>2. IssuesOf(files) = {}
  BY DEF Init, IssuesOf
<1>3. Kept
  BY <1>2, EmptySound DEF Init, Kept
<1> QED
  BY <1>1, <1>3 DEF IInv

(* It holds always, if blocks spares cycles. *)
LEMMA Inductive == Spec /\ [][BlocksSpareCycles]_vars => []IInv
BY InvInit, InvStep, PTL DEF Spec

-----------------------------------------------------------------------------
(* The graph that the files stand for *)

GraphIssues == IF Reported THEN {} ELSE IssuesOf(Committed)
GraphHealth == IF Reported THEN "reported"
               ELSE IF crashes > 0 THEN "harmed" ELSE "sound"

(* The rules that IssueGraph speaks of are those of IssueRules ... *)
LEMMA SameRules ==
    /\ Graph!Parents = Parents /\ Graph!AllowedParents = AllowedParents
    /\ \A g : Graph!Active(g) = Active(g)
    /\ \A g : Graph!Named(g) = Named(g)
    /\ \A g : Graph!DependencyEdges(g) = DependencyEdges(g)
    /\ \A E : Graph!NoCycle(E) <=> NoCycle(E)
    /\ \A g, p, t : Graph!HasParent(g, p, t) <=> HasParent(g, p, t)
    /\ \A g, a, b : Graph!Above(g, a, b) <=> Above(g, a, b)
    /\ \A g, a, b : Graph!DependsOn(g, a, b) <=> DependsOn(g, a, b)
    /\ \A g, a : Graph!Subtree(g, a) = Subtree(g, a)
    /\ \A g : Graph!Valid(g) <=> Valid(g)
<1>1. /\ Graph!Parents = Parents /\ Graph!AllowedParents = AllowedParents
      /\ \A g : Graph!Active(g) = Active(g)
      /\ \A g : Graph!Named(g) = Named(g)
  BY DEF Graph!Parents, Parents, Graph!AllowedParents, AllowedParents,
         Graph!Active, Active, Graph!Named, Named
<1>2. /\ \A g : Graph!ParentEdges(g) = ParentEdges(g)
      /\ \A g : Graph!DependencyEdges(g) = DependencyEdges(g)
  BY DEF Graph!ParentEdges, ParentEdges, Graph!DependencyEdges, DependencyEdges
<1>3. \A E : Graph!NoCycle(E) <=> NoCycle(E)
  BY DEF Graph!NoCycle, NoCycle
<1>4. \A E, S : Graph!Closed(E, S) <=> Closed(E, S)
  BY DEF Graph!Closed, Closed
<1>5. \A g, p, t : Graph!HasParent(g, p, t) <=> HasParent(g, p, t)
  BY <1>1 DEF Graph!HasParent, HasParent, Graph!MayParent, MayParent
<1>6. \A g, a, b : Graph!Above(g, a, b) <=> Above(g, a, b)
  BY <1>1, <1>2, <1>4 DEF Graph!Above, Above
<1>7. \A g, a, b : Graph!DependsOn(g, a, b) <=> DependsOn(g, a, b)
  BY <1>1, <1>2, <1>4 DEF Graph!DependsOn, DependsOn
<1>8. \A g, a : Graph!Subtree(g, a) = Subtree(g, a)
  BY DEF Graph!Subtree, Subtree
<1>9. \A g : Graph!UniqueIds(g) <=> UniqueIds(g)
  BY DEF Graph!UniqueIds, UniqueIds
<1>10. \A g : Graph!ParentsAllowed(g) <=> ParentsAllowed(g)
  BY <1>5 DEF Graph!ParentsAllowed, ParentsAllowed
<1>11. \A g : Graph!ReferencesResolve(g) <=> ReferencesResolve(g)
  BY <1>1 DEF Graph!ReferencesResolve, ReferencesResolve
<1>12. \A g : Graph!Valid(g) <=> Valid(g)
  BY <1>2, <1>3, <1>9, <1>10, <1>11 DEF Graph!Valid, Valid
<1> QED
  BY <1>1, <1>2, <1>3, <1>5, <1>6, <1>7, <1>8, <1>12

(* ... and its operations are those of IssueOperations. *)
LEMMA SameOperations ==
    ASSUME NEW g, NEW h
    PROVE  Graph!Changed(g, h) <=> Changed(g, h)
<1>1. \A i, n : Graph!Replaced(g, i, n) = Replaced(g, i, n)
  BY DEF Graph!Replaced, Replaced
<1>2. ASSUME NEW id, NEW type, NEW parent, NEW depends
      PROVE  Graph!Created(g, h, id, type, parent, depends)
                 <=> Created(g, h, id, type, parent, depends)
  BY SameRules DEF Graph!Created, Created
<1>3. ASSUME NEW i, NEW type, NEW parent
      PROVE  Graph!Updated(g, h, i, type, parent) <=> Updated(g, h, i, type, parent)
  BY <1>1, SameRules DEF Graph!Updated, Updated
<1>4. ASSUME NEW i PROVE Graph!Commented(g, h, i) <=> Commented(g, h, i)
  BY <1>1 DEF Graph!Commented, Commented
<1>5. ASSUME NEW i PROVE Graph!Archived(g, h, i) <=> Archived(g, h, i)
  <2>1. Graph!ActiveSubtree(g, i) = ActiveSubtree(g, i)
    BY SameRules DEF Graph!ActiveSubtree, ActiveSubtree
  <2>2. \A j, S : Graph!Moved(j, S) = Moved(j, S)
    BY DEF Graph!Moved, Moved
  <2> QED
    BY <2>1, <2>2 DEF Graph!Archived, Archived
<1>6. ASSUME NEW i, NEW j
      PROVE  /\ Graph!DependencyAdded(g, h, i, j) <=> DependencyAdded(g, h, i, j)
             /\ Graph!DependencyRemoved(g, h, i, j) <=> DependencyRemoved(g, h, i, j)
  BY <1>1, SameRules DEF Graph!DependencyAdded, DependencyAdded,
                         Graph!DependencyRemoved, DependencyRemoved
<1>7. ASSUME NEW i, NEW j
      PROVE  /\ Graph!RelationAdded(g, h, i, j) <=> RelationAdded(g, h, i, j)
             /\ Graph!RelationRemoved(g, h, i, j) <=> RelationRemoved(g, h, i, j)
  BY <1>1 DEF Graph!RelationAdded, RelationAdded, Graph!RelationRemoved, RelationRemoved
<1>8. ASSUME NEW i, NEW j
      PROVE  /\ Graph!SupersessionAdded(g, h, i, j) <=> SupersessionAdded(g, h, i, j)
             /\ Graph!SupersessionRemoved(g, h, i, j) <=> SupersessionRemoved(g, h, i, j)
  BY <1>1 DEF Graph!SupersessionAdded, SupersessionAdded,
              Graph!SupersessionRemoved, SupersessionRemoved
<1>9. Graph!Parents = Parents /\ Graph!Active(g) = Active(g)
  BY SameRules
<1> QED
  BY <1>2, <1>3, <1>4, <1>5, <1>6, <1>7, <1>8, <1>9 DEF Graph!Changed, Changed

\* The steps of IssueGraph, in the terms of this module.
GraphNext ==
    /\ GraphHealth # "reported"
    /\ \/ Changed(GraphIssues, GraphIssues') /\ GraphHealth' \in {GraphHealth, "harmed"}
       \/ GraphHealth = "sound" /\ GraphHealth' = "harmed" /\ GraphIssues' = GraphIssues
       \/ GraphHealth' = "reported" /\ GraphIssues' = {}
GraphSame == GraphIssues' = GraphIssues /\ GraphHealth' = GraphHealth

(* What is reported stays reported. *)
LEMMA ReportStays ==
    ASSUME IInv, IInv', [Next]_vars, Reported
    PROVE  Reported'
<1>1. CASE warned
  BY <1>1, WarningStays DEF Reported
<1>2. CASE ~warned
  <2>1. TypeOK /\ Kept /\ crashes > 0 /\ (temp \/ ~Valid(Committed))
    BY <1>2 DEF IInv, Reported
  <2>2. stage \in {"idle", "left"}
    <3> SUFFICES ASSUME stage \in {"publish", "undo"} PROVE FALSE
      BY <2>1 DEF TypeOK
    <3>1. PICK B, Q, A : ~temp /\ Publishing(B, Q, A)
      BY <2>1 DEF Kept
    <3>2. Valid(Committed)
      BY <3>1, CommittedNow, PlanSound DEF Publishing
    <3> QED
      BY <2>1, <3>1, <3>2
  <2>3. Refused
    BY <2>1, <2>2, CommittedIdle DEF Refused
  <2>4. OperatorRemovesLock \/ Read \/ UNCHANGED vars
    BY <2>2, <2>3 DEF Next, Operation, PublishNext, PublishFails, RollBackNext,
                      Finish, Crash
  <2>5. stage' \in {"idle", "left"} /\ UNCHANGED <<files, temp, warned, crashes>>
    BY <2>2, <2>4 DEF OperatorRemovesLock, Read, Release, vars, bounds
  <2>6. TypeOK'
    BY DEF IInv
  <2> QED
    BY <1>2, <2>1, <2>2, <2>5, <2>6, IdleKept
<1> QED
  BY <1>1, <1>2

(* The files after a step of a batch, in terms of the graph. *)
LEMMA SameCommitted ==
    ASSUME ~Reported, ~Reported', Committed' = Committed, crashes' = crashes
    PROVE  GraphSame
BY DEF GraphSame, GraphIssues, GraphHealth

(* Every step is a step of the graph, or none. *)
LEMMA GraphStep ==
    ASSUME IInv, IInv', [Next]_vars, [BlocksSpareCycles]_vars, [CrashesSpareIssues]_vars
    PROVE  GraphNext \/ GraphSame
<1>1. CASE Reported
  BY <1>1, ReportStays DEF GraphSame, GraphIssues, GraphHealth
<1>2. CASE ~Reported /\ Reported'
  BY <1>2 DEF GraphNext, GraphIssues, GraphHealth
<1>3. CASE ~Reported /\ ~Reported'
  <2>1. /\ ~warned /\ ~warned' /\ TypeOK /\ TypeOK' /\ Kept
        /\ crashes \in Nat /\ crashes' \in Nat
    BY <1>3 DEF IInv, Reported, TypeOK
  <2>2. CASE OperatorRemovesLock \/ Read
    <3>1. /\ stage \in {"idle", "left"} /\ stage' \in {"idle", "left"}
          /\ UNCHANGED <<files, temp, warned, crashes>>
      BY <2>2 DEF OperatorRemovesLock, Read, Release, bounds
    <3> QED
      BY <1>3, <2>1, <3>1, IdleKept, SameCommitted
  <2>3. CASE Operation
    <3>1. ops' # ops /\ files' = files /\ crashes' = crashes /\ stage = "idle"
      BY <2>1, <2>3, OperationSubmits DEF TypeOK
    <3>2. BlocksSpareCycles
      BY <3>1 DEF vars, bounds
    <3>3. PICK Q : Publishing(files, Q, {})'
      BY <2>1, <2>3, <3>2, OperationGoesOn
    <3>4. PICK B : B = files
      OBVIOUS
    <3>5. Publishing(B, Q, {})'
      BY <3>1, <3>3, <3>4 DEF Publishing
    <3>6. files' = Result(B, {}) /\ (stage' = "publish" /\ pending' = {} => Q = {})
      BY <3>5 DEF Publishing, Prefix
    <3>7. Committed' = B
      BY <3>5, <3>6, CommittedNext, NothingApplied
    <3> QED
      BY <1>3, <2>1, <3>1, <3>4, <3>7, CommittedIdle, SameCommitted
  <2>4. ASSUME PublishNext \/ PublishFails \/ RollBackNext \/ Finish \/ Crash
        PROVE  \E B, Q, A : Publishing(B, Q, A)
    <3>1. stage \in {"publish", "undo"}
      BY <2>4 DEF PublishNext, PublishFails, RollBackNext, Finish, Crash
    <3> QED
      BY <2>1, <3>1 DEF Kept
  <2>5. CASE PublishNext \/ PublishFails \/ RollBackNext
    <3>1. PICK B, Q, A : Publishing(B, Q, A)
      BY <2>4, <2>5
    <3>2. PICK A2 : Publishing(B, Q, A2)'
      BY <2>1, <2>5, <3>1, PublishNextGoesOn, PublishFailsGoesOn, RollBackGoesOn
    <3>3. ~(stage = "publish" /\ pending = {})
      BY <2>5, <3>1, PublishNextGoesOn, PublishFailsGoesOn DEF RollBackNext
    <3>4. Committed = B
      BY <3>1, <3>3, CommittedNow
    <3>5. Committed' = Result(B, Q) \/ Committed' = B
      BY <3>2, CommittedNext
    <3>6. crashes' = crashes
      BY <2>5 DEF PublishNext, PublishFails, RollBackNext, bounds
    <3>7. Changed(IssuesOf(B), IssuesOf(Result(B, Q)))
      BY <3>1 DEF Publishing, Plan
    <3>8. CASE Committed' = Result(B, Q)
      <4>1. GraphIssues = IssuesOf(B) /\ GraphIssues' = IssuesOf(Result(B, Q))
        BY <1>3, <3>4, <3>8 DEF GraphIssues
      <4>2. GraphHealth' = GraphHealth /\ GraphHealth # "reported"
        BY <1>3, <3>6 DEF GraphHealth
      <4> QED
        BY <3>7, <4>1, <4>2 DEF GraphNext
    <3>9. CASE Committed' = B
      BY <1>3, <3>4, <3>6, <3>9, SameCommitted
    <3> QED
      BY <3>5, <3>8, <3>9
  <2>6. CASE Finish
    <3>1. PICK B, Q, A : Publishing(B, Q, A)
      BY <2>4, <2>6
    <3>2. files = Committed
      BY <2>6, <3>1, FinishSound
    <3>3. files' = files /\ crashes' = crashes /\ stage' \in {"idle", "left"}
      BY <2>6 DEF Finish, Release
    <3>4. Committed' = Committed
      BY <2>1, <3>2, <3>3, CommittedIdle
    <3> QED
      BY <1>3, <3>3, <3>4, SameCommitted
  <2>7. CASE Crash
    <3>1. PICK B, Q, A : Publishing(B, Q, A)
      BY <2>4, <2>7
    <3>2. files' = files /\ stage' = "left" /\ crashes' = crashes + 1
      BY <2>7 DEF Crash
    <3>3. Committed' = files
      BY <2>1, <3>2, CommittedIdle
    <3>4. crashes' > 0 /\ Valid(files)
      BY <1>3, <2>1, <3>2, <3>3 DEF Reported
    <3>5. Named(Committed) \subseteq Named(files)
      <4>1. CrashesSpareIssues
        BY <2>1, <3>2 DEF vars, bounds
      <4> QED
        BY <2>1, <3>2, <4>1 DEF CrashesSpareIssues
    <3>6. GraphHealth \in {"sound", "harmed"} /\ GraphHealth' = "harmed"
      BY <1>3, <3>4 DEF GraphHealth
    <3>7. GraphIssues = IssuesOf(Committed) /\ GraphIssues' = IssuesOf(files)
      BY <1>3, <3>3 DEF GraphIssues
    <3>8. CASE files = Committed
      BY <3>6, <3>7, <3>8 DEF GraphNext, GraphSame
    <3>9. CASE files # Committed
      <4>1. ~(stage = "publish" /\ pending = {})
        BY <3>9 DEF Committed
      <4>2. Committed = B
        BY <3>1, <4>1, CommittedNow
      <4>3. files = Result(B, Q)
        BY <3>1, <3>4, <3>5, <3>9, <4>2, DeathWhole
      <4>4. Changed(IssuesOf(B), IssuesOf(Result(B, Q)))
        BY <3>1 DEF Publishing, Plan
      <4> QED
        BY <3>6, <3>7, <4>2, <4>3, <4>4 DEF GraphNext
    <3> QED
      BY <3>8, <3>9
  <2>8. CASE UNCHANGED vars
    <3>1. Committed' = Committed /\ crashes' = crashes
      BY <2>8 DEF vars, batch, bounds, Committed
    <3> QED
      BY <1>3, <3>1, SameCommitted
  <2> QED
    BY <2>2, <2>3, <2>5, <2>6, <2>7, <2>8 DEF Next
<1> QED
  BY <1>1, <1>2, <1>3

(* GraphNext is the next-state relation of IssueGraph, and so on. *)
LEMMA SameSpec ==
    /\ Graph!Init <=> GraphIssues = {} /\ GraphHealth = "sound"
    /\ [Graph!Next]_Graph!vars <=> GraphNext \/ GraphSame
    /\ Graph!TypeOK <=> /\ GraphIssues \subseteq Issue
                        /\ GraphHealth \in {"sound", "harmed", "reported"}
    /\ Graph!GraphValid <=> Valid(GraphIssues)
    /\ Graph!DependenciesAcyclic <=> NoCycle(DependencyEdges(GraphIssues))
    /\ Graph!FamiliesTogether <=>
           \A i \in GraphIssues : \A p \in i.parent :
               \E q \in GraphIssues : q.id = p /\ q.loc = i.loc
<1>1. Graph!Init <=> GraphIssues = {} /\ GraphHealth = "sound"
  BY DEF Graph!Init, GraphIssues, GraphHealth, IssuesOf
<1>2. Graph!Next <=> GraphNext
  <2>1. /\ Graph!Harm <=> /\ GraphHealth = "sound" /\ GraphHealth' = "harmed"
                          /\ GraphIssues' = GraphIssues
        /\ Graph!Damage <=> GraphHealth' = "reported" /\ GraphIssues' = {}
    BY DEF Graph!Harm, Graph!Damage, GraphIssues, GraphHealth, IssuesOf
  <2>2. Graph!Changed(GraphIssues, GraphIssues') <=> Changed(GraphIssues, GraphIssues')
    BY SameOperations
  <2>3. Graph!Next <=>
            /\ GraphHealth # "reported"
            /\ \/ /\ Graph!Changed(GraphIssues, GraphIssues')
                  /\ GraphHealth' \in {GraphHealth, "harmed"}
               \/ Graph!Harm \/ Graph!Damage
    BY DEF Graph!Next, GraphIssues, GraphHealth, IssuesOf
  <2> QED
    BY <2>1, <2>2, <2>3 DEF GraphNext
<1>3. UNCHANGED Graph!vars <=> GraphSame
  BY DEF Graph!vars, GraphSame, GraphIssues, GraphHealth, IssuesOf
<1>4. Graph!TypeOK <=> /\ GraphIssues \subseteq Issue
                       /\ GraphHealth \in {"sound", "harmed", "reported"}
  <2>1. Graph!Issue = Issue
    BY SameRules DEF Graph!Issue, Issue
  <2> QED
    BY <2>1 DEF Graph!TypeOK, GraphIssues, GraphHealth, IssuesOf
<1>5. Graph!GraphValid <=> Valid(GraphIssues)
  <2>1. Graph!GraphValid <=> Graph!Valid(GraphIssues)
    BY DEF Graph!GraphValid, GraphIssues, IssuesOf
  <2> QED
    BY <2>1, SameRules
<1>6. Graph!DependenciesAcyclic <=> NoCycle(DependencyEdges(GraphIssues))
  <2>1. Graph!DependenciesAcyclic <=> Graph!NoCycle(Graph!DependencyEdges(GraphIssues))
    BY DEF Graph!DependenciesAcyclic, GraphIssues, IssuesOf
  <2> QED
    BY <2>1, SameRules
<1>7. Graph!FamiliesTogether <=>
          \A i \in GraphIssues : \A p \in i.parent :
              \E q \in GraphIssues : q.id = p /\ q.loc = i.loc
  BY DEF Graph!FamiliesTogether, GraphIssues, IssuesOf
<1> QED
  BY <1>1, <1>2, <1>3, <1>4, <1>5, <1>6, <1>7

-----------------------------------------------------------------------------
(* Theorems about IssueGraph *)

GraphInv ==
    Sound(GraphIssues) /\ GraphHealth \in {"sound", "harmed", "reported"}

(* The graph is sound, whatever order its operations come in. *)
LEMMA GraphInductive == Graph!Spec => []GraphInv
<1>1. Graph!Init => GraphInv
  BY SameSpec, EmptySound DEF GraphInv
<1>2. GraphInv /\ [Graph!Next]_Graph!vars => GraphInv'
  <2> SUFFICES ASSUME GraphInv, GraphNext \/ GraphSame PROVE GraphInv'
    BY SameSpec
  <2>1. CASE GraphSame
    BY <2>1 DEF GraphSame, GraphInv
  <2>2. CASE GraphNext
    BY <2>2, ChangedSound, EmptySound DEF GraphNext, GraphInv
  <2> QED
    BY <2>1, <2>2
<1> QED
  BY <1>1, <1>2, PTL DEF Graph!Spec

(* No sequence of whole operations leads to a graph that validateUnlocked  *)
(* refuses, stores a dependency cycle or splits a family over the archive, *)
(* for any number of issues: create, update, relate and archive check      *)
(* enough.                                                                 *)
THEOREM GraphStaysSound ==
    Graph!Spec => [](/\ Graph!TypeOK /\ Graph!GraphValid
                     /\ Graph!DependenciesAcyclic /\ Graph!FamiliesTogether)
<1>1. GraphInv => /\ Graph!TypeOK /\ Graph!GraphValid
                  /\ Graph!DependenciesAcyclic /\ Graph!FamiliesTogether
  BY SameSpec, SoundValid DEF GraphInv, Sound
<1> QED
  BY <1>1, GraphInductive, PTL

(* Unless it is reported, no whole operation loses an issue, takes a       *)
(* comment back or changes an archived issue.                              *)
THEOREM GraphKeepsIssues == Graph!Spec => Graph!NothingLost
<1>1. GraphInv /\ [Graph!Next]_Graph!vars =>
          \/ GraphHealth' = "reported" \/ Keeps(GraphIssues, GraphIssues')
  <2> SUFFICES ASSUME GraphInv, GraphNext \/ GraphSame, GraphHealth' # "reported"
               PROVE  Keeps(GraphIssues, GraphIssues')
    BY SameSpec
  <2>1. CASE GraphIssues' = GraphIssues
    BY <2>1 DEF GraphInv, Sound, Issue, Keeps
  <2>2. CASE Changed(GraphIssues, GraphIssues')
    BY <2>2, ChangedKeeps DEF GraphInv
  <2> QED
    BY <2>1, <2>2 DEF GraphNext, GraphSame
<1>2. GraphInv /\ [Graph!Next]_Graph!vars =>
          [GraphHealth' # "reported" => Keeps(GraphIssues, GraphIssues')]_Graph!vars
  BY <1>1
<1>3. (GraphHealth' # "reported" => Keeps(GraphIssues, GraphIssues')) <=>
          (GraphHealth' # "reported" =>
              \A i \in GraphIssues : \E j \in GraphIssues' :
                  /\ j.id = i.id /\ j.comments >= i.comments
                  /\ i.loc = "archived" => j = i)
  BY DEF Keeps
<1> QED
  BY <1>2, <1>3, GraphInductive, PTL
     DEF Graph!Spec, Graph!NothingLost, GraphIssues, GraphHealth, IssuesOf

-----------------------------------------------------------------------------
(* Theorems about IssueStore *)

(* The files, the batch and the counters are well typed, whatever fails.   *)
THEOREM TypeCorrect == Spec => []TypeOK
<1>1. Init => TypeOK
  BY InvInit DEF IInv
<1> QED
  BY <1>1, TypeStep, PTL DEF Spec

(* What the files stand for is sound, or reported. *)
LEMMA StoreSound == IInv => Sound(GraphIssues)
BY CommittedSound, EmptySound DEF GraphIssues

(* Whatever fails or dies, validateUnlocked accepts the graph unless it    *)
(* told of the damage, as long as blocks is used where depends_on would be *)
(* accepted: no call locks out the ones after it.                          *)
THEOREM GraphAlwaysValid == Spec /\ [][BlocksSpareCycles]_vars => []GraphValid
<1>1. IInv => GraphValid
  BY StoreSound, SoundValid, SameSpec DEF IInv, GraphValid
<1> QED
  BY <1>1, Inductive, PTL

(* No sequence of such calls stores a dependency cycle. *)
THEOREM DependenciesNeverCyclic ==
    Spec /\ [][BlocksSpareCycles]_vars => []DependenciesAcyclic
<1>1. IInv => DependenciesAcyclic
  BY StoreSound, SameSpec DEF DependenciesAcyclic, Sound
<1> QED
  BY <1>1, Inductive, PTL

(* An archived issue never has active descendants, which archive skips,    *)
(* not even when a batch dies half-way.                                    *)
THEOREM FamiliesStayTogether ==
    Spec /\ [][BlocksSpareCycles]_vars => []FamiliesTogether
<1>1. IInv => FamiliesTogether
  BY StoreSound, SameSpec DEF FamiliesTogether, Sound
<1> QED
  BY <1>1, Inductive, PTL

(* Every step of the store, its failures, roll-backs and deaths included,  *)
(* is a whole operation of IssueGraph, its Harm or Damage, or none.        *)
THEOREM ImplementsIssueGraph ==
    Spec /\ [][BlocksSpareCycles /\ CrashesSpareIssues]_vars => RefinesIssueGraph
<1>1. Init => Graph!Init
  <2> SUFFICES ASSUME Init PROVE Graph!Init
    OBVIOUS
  <2>1. Committed = {}
    BY DEF Init, Committed
  <2>2. ~Reported /\ ~(crashes > 0)
    BY DEF Init, Reported
  <2> QED
    BY <2>1, <2>2, SameSpec DEF GraphIssues, GraphHealth, IssuesOf
<1>2. /\ [BlocksSpareCycles /\ CrashesSpareIssues]_vars => [BlocksSpareCycles]_vars
      /\ [BlocksSpareCycles /\ CrashesSpareIssues]_vars => [CrashesSpareIssues]_vars
  OBVIOUS
<1>3. IInv /\ IInv' /\ [Next]_vars /\ [BlocksSpareCycles]_vars /\ [CrashesSpareIssues]_vars
          => [Graph!Next]_Graph!vars
  BY GraphStep, SameSpec
<1> QED
  BY <1>1, <1>2, <1>3, Inductive, PTL DEF Spec, RefinesIssueGraph, Graph!Spec

(* Whatever fails or dies, no issue and no comment is lost and no archived *)
(* issue changes, unless it is reported.                                   *)
THEOREM NothingEverLost ==
    Spec /\ [][BlocksSpareCycles /\ CrashesSpareIssues]_vars => NothingLost
BY ImplementsIssueGraph, GraphKeepsIssues DEF RefinesIssueGraph, NothingLost
=============================================================================
