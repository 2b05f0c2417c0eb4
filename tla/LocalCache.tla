----------------------------- MODULE LocalCache -----------------------------
(***************************************************************************)
(* The SQLite cache of extensions/generic-tools/local-persistence.ts: a    *)
(* projection of the canonical files that is written and verified but      *)
(* never the authority.  The actions are the steps of ensureLocalCache and *)
(* synchronizeLocalCache; whoever takes them holds the project barrier.    *)
(* A snapshot is whatever the caller loaded from the canonical files.      *)
(***************************************************************************)
CONSTANTS
    Snapshots,  \* the snapshots the rows can come from
    Garbled     \* rows that no snapshot has

VARIABLE cache

\* The database file is missing, has no tables, or holds rows with the
\* fingerprint of the snapshot they came from and the digest of the rows.
Missing == [file |-> "missing"]
Bare    == [file |-> "bare"]
Filled(rows, fingerprint, digest) ==
    [file |-> "filled", rows |-> rows, fingerprint |-> fingerprint, digest |-> digest]

Database ==
    {Missing, Bare} \cup
    [file : {"filled"}, rows : Snapshots \cup {Garbled},
     fingerprint : Snapshots, digest : Snapshots]

Mirrors(snapshot) == cache.file = "filled" /\ cache.rows = snapshot

\* Mutant: the digest of the rows is not computed again.
HealthyByFingerprint(snapshot) ==
    cache.file = "filled" /\ cache.fingerprint = snapshot

\* Mutant: any database that is there will do.
HealthyIfPresent(snapshot) == cache.file # "missing"

\* cacheIsHealthy: schema, fingerprint, digest; the row counts follow.
Healthy(snapshot) ==
    /\ cache.file = "filled"
    /\ cache.fingerprint = snapshot
    /\ cache.digest = cache.rows

\* replaceSnapshot, or createSchema and replaceSnapshot into a temporary that
\* is renamed over the database.
Replace(snapshot) == cache' = Filled(snapshot, snapshot, snapshot)

\* Opening a database that is missing creates one without tables, on which
\* the replacement fails; any other failure rolls the transaction back.
Reopen == cache' = IF cache.file = "missing" THEN Bare ELSE cache

\* Somebody deletes the database, or changes its rows.
Lose   == cache' = Missing
Garble == cache.file = "filled" /\ cache' = [cache EXCEPT !.rows = Garbled]
=============================================================================
