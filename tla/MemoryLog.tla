------------------------------ MODULE MemoryLog ------------------------------
(***************************************************************************)
(* What project memory (extensions/generic-tools/memory.ts) promises: a    *)
(* log of knowledge that is only ever added to, by whole operations.       *)
(* Nothing is edited or removed: a record is corrected by one that         *)
(* supersedes it and retired by a tombstone (docs/memory.md).  A dying     *)
(* import or a failed roll-back may leave files that the next call         *)
(* refuses; no promise is made from there on.                              *)
(***************************************************************************)
EXTENDS MemoryRules

VARIABLES
    log,     \* the items, as later operations find them
    health   \* "sound", or "refused": later operations report the files

vars == <<log, health>>

-----------------------------------------------------------------------------
Init == log = {} /\ health = "sound"

\* A call adds a batch whose identities are new and whose targets exist: one
\* record, one tombstone, or an import of several, a dying one in part.
Add(batch) ==
    /\ batch \subseteq Item /\ Importable(log, batch)
    /\ log' = log \cup batch

Damage == health' = "refused" /\ log' = {}

Next ==
    /\ health = "sound"
    /\ \/ Add(log' \ log) /\ UNCHANGED health
       \/ Damage

Spec == Init /\ [][Next]_vars
-----------------------------------------------------------------------------
TypeOK == log \subseteq Item /\ health \in {"sound", "refused"}

\* Everything superseded or buried exists, no identity is used twice and no
\* supersession is circular: loadState would refuse the memory otherwise.
MemoryValid == Valid(log)

\* Unless the files are refused, no item is lost, and what is superseded or
\* buried never becomes active again.
AppendOnly ==
    [][health' = "sound" =>
          log \subseteq log' /\ Retired(log) \cap ActiveIds(log') = {}]_vars
=============================================================================
