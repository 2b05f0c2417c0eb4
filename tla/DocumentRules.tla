---------------------------- MODULE DocumentRules ---------------------------
(***************************************************************************)
(* The parameters that LineageStore and DocumentStore share.               *)
(***************************************************************************)
EXTENDS Naturals

CONSTANTS
    Docs,        \* document identities
    Titles,      \* titles, as numbers in the order of their slugs
    MaxVersion,  \* DOCUMENT_LIMITS.versions
    MaxRevision  \* bound: contents written in a behaviour

ASSUME DocumentRulesAssumption ==
    /\ Titles \subseteq Nat
    /\ MaxVersion \in Nat \ {0} /\ MaxRevision \in Nat

Locations == {"active", "archive"}
Versions  == 1..MaxVersion
Revisions == 1..MaxRevision
=============================================================================
