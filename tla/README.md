# Formal models of harnessctl

This directory holds TLA+ models of the stateful core of harnessctl: the
`generic-tools` extension, which keeps documents, issues, memories and execution
workspaces as files in a repository and in Git's administrative directory. TLC
checks the models on small instances; TLAPS proves the theorems in the
`*_proofs` modules for every value of the constants. Paths below are relative to
the repository; `generic-tools/` stands for `src/extensions/generic-tools/`.

## The system

Two host adapters (OpenCode, Pi) decode tool calls and make one provider call
each. The providers are synchronous TypeScript: a call runs to its end inside
its process, and what makes it hard is what happens *between* its file-system
effects: the process may die, an effect may be reported as failed, and other
processes run their own calls. No component keeps anything in memory from one
call to the next; the files are the state.

| Component | State | Operations | What is hard | What makes it correct |
|---|---|---|---|---|
| Document store (`documents.ts`) | Markdown files, active and archived; move journal and backups under `.control` | create, get, list, validate, update, version, archive, restore; recovery before each of them | multi-file moves that die or fail half-way; leftovers of earlier calls; links held by issues | lineages whole and in one place, no version lost, earlier ones immutable, interrupted moves resolved |
| Batch publisher and project barrier (`local-persistence.ts`) | temporary files; a lock directory without an owner record | publish a sorted batch, roll it back; take and release the barrier | a failure after the effect; a failed roll-back; a dead owner | all or nothing; before-images still valid when used |
| SQLite cache (`local-persistence.ts`) | `cache.sqlite`: rows, their fingerprint and their digest | ensure (health check, rebuild), synchronise, repair | it may fail after the canonical files changed, vanish, be damaged or left by an earlier process | it is never the authority: no call goes on before its rows are those of the files; it catches up |
| Repository lock (`execution-context.ts` 935-1065) | one lock file with owner evidence | link, inspect, quarantine, wait, release | several processes, each of which may die; two recoverers | mutual exclusion, a live owner keeps its lock, a dead one loses it |
| Execution contexts (`execution-context.ts`) | workspace records, session bindings, a transaction file, Git worktrees | allocate, attach, adopt, bind, resolve, release, hasBinding | two-record transitions that die or fail half-way; worktrees that fail; readers without the lock | transitions are whole; an Epic has one workspace; generations identify contents |
| Execution routing and hosts (`execution-routing.ts`, `pi-tools/`, `opencode-tools/`) | the tool call in flight; the recovery entries of a Pi session | hook, start of the tool, session tools, recovery at session start and compaction | the configuration, the binding and Git's worktrees change between the hook and the tool; a host dies between a transition and its entry | a bound session never works in the main checkout, nor in a workspace that became somebody else's; the log is never ahead of the registry |
| Issue tracker (`issues*.ts`) | one YAML file per issue, active or archived | create, get, list, validate, update, transition, comment, relate, unrelate, link, archive | multi-file batches without a journal; a check of the whole graph before every call, so that one bad edge blocks everything | the graph stays one that validation accepts; families are archived together; nothing is lost unreported |
| Memory store (`memory.ts`) | one YAML file per record or tombstone, never rewritten | store, supersede, delete, import, get, list, search, export, validate | import batches without a journal, validated before the barrier is taken; the cache fails after the files changed | the files stay loadable; knowledge is only added to, and a failing call takes back nothing but its own; callers are told what happened |
| Legacy Git workspaces (`workspaces.ts`) | a record per Epic, its worktree, Git's entry and lock, a lock directory | ensure, mark ready, cleanup | Git commands that fail, time out or are cut off; the topology is read before the lock; people work in the worktree | no uncommitted work removed; the life of a worktree goes forward; interrupted calls can be repeated |
| Delegated operations (`operations.ts`) | the consent, the running process, the evidence | prepare, execute, the bootstrap coordinator | everything a descriptor was made of may change before it is executed; evidence is the caller's to pass | consent and evidence hold for one binding only |
| Installer (`src/src/harnessctl/install.py`) | host configuration files | install, update, roll back | partial roll-back of many files | before-images restored |
| Configuration, schemas, scripts, templates, MCP projection | none over time | pure functions | | |

Interactions: document and issue calls share the project barrier, the batch
publisher and the cache; documents refuse to move or rename what an issue links,
and issues accept only links to active documents. Execution contexts adopt the
worktrees of the legacy provider, which changes them under a lock of its own.
Memory calls use the same barrier and cache and need a valid issue graph. Adapters
ask `resolveProjectRoot` (which asks `hasBinding` or `resolveSession`, as the
configuration says) before they let a tool through, and again where a tool of
theirs runs. Operations resolve the session when a descriptor is built and again
when it is executed.

## Modules

### `DocumentStore`, `LineageStore`, `DocumentStore_proofs`

`DocumentStore` is `documents.ts` together with `applyCanonicalFileBatch`,
`publishCanonicalFile` and `withLocalBarrier`. A file is a record of its
location (active, archive, backup), identity, version, title and a revision that
stands for its bytes. `stage` is the place the running call has reached:

    recover -> temps -> orphans | restore -> unjournal -> unbackup -> ready
    ready   -> mutate -> sync                      create, update, version
    ready   -> backups -> journal -> move
            -> unjournal -> unbackup -> sync       archive, restore

Every file effect is one step, so `Crash` may fall between any two. A batch is
three variables: `pending` and `applied` are the replacements yet to be
published and already published, each with its before-image, and `undoing` says
that the batch is being rolled back (in reverse order, as in the code).
`mode` distinguishes why a shared stage runs. A reported failure is a
choice of the environment, of a kind listed in `FaultKinds`, admitted by the
constant `Faults` and counted against `MaxFaults`.

`LineageStore` is what `docs/documents.md` promises: a set of documents changed
by whole operations. `DocumentStore` refines it under the mapping `Committed`:
an interrupted move has not happened until its journal is gone, a mutation has
not happened until its last file is out.

Abstractions, and why they are sound for the properties:

- Bytes are a number, drawn afresh by every mutation; titles are numbers in the
  order of their slugs. Paths are compared by `SamePath`, as the code compares
  portable path keys. Batches are published in path order; active paths start
  with the default prefix `doc-`, so archive paths come first.
- The publisher checks every before-image before it publishes the first file.
  The model builds the before-images and publishes without checking:
  `ExpectationsHold`, a theorem, shows that the check cannot fail in a call that
  holds the barrier.
- The deletion of orphaned backups that `startMoveJournal` repeats is left out:
  `StartsClean`, a theorem, shows that there are none.
- Temporaries are remembered per directory, not one by one; they are deleted
  as one step that may fail part-way.
- The cache is one bit, `cacheFresh`, which a failure leaves stale; `LocalCache` has
  its files and tables.
- Refused arguments (stale revision, unknown identity, limits other than the
  number of versions) are the one action `Reject`: they all end the call with
  no effect.
- An issue call is one atomic step (`IssueLink`): only document links matter
  here, and it runs under the same barrier. It needs a loadable snapshot, and does
  not look at the journal; that is what the code does.

### `RepositoryLock`, `ExecutionLock`

The lock file of `withRepositoryLock`, with several processes. `lock` holds the
process whose nonce the file records; `pc` is the place of each process in
acquire, inspect, quarantine, wait, operation and release. `Unprovable` is the
set of processes whose death the evidence cannot prove (another host, or a PID
in use again without a start token). Time is abstracted: `GiveUp` may happen at
any wait. The operation under the lock is the single point `critical`.
`RepositoryLock` declares the processes, the lock and what counts as a dead owner;
`ExecutionLock` has the steps. Its theorems are the last section of
`ExecutionContext_proofs`, as the contexts rely on them.

### `ContextRegistry`, `ExecutionContext`, `RegistryRules`, `ContextRegistry_proofs`, `ExecutionContext_proofs`

`ExecutionContext` has the files (`records`, `bindings`, `transaction`), the Git
worktrees (`trees`) and the call in progress. `publishWorkspaceAndBinding` is
four stages (transaction, record, binding, commit); its roll-back and the
recovery of a pending transaction are the same three (`undoRecord`,
`undoBinding`, `undoTransaction`), as they are the same function in the code. A
failed allocation tries once to complete itself (`reconcile`). `granted`
collects what sessions were told, for the properties. `ContextRegistry` is the
promise: workspaces and bindings changed by whole transitions. The mapping reads
a pending transaction as "before", and a `creating` record as no workspace.

The lock is modelled separately: here one call runs at a time, which
`ExecutionLock` shows to hold up to the race below. Workspace identities are
ULIDs and never drawn twice (`used`). `LegacyChange` is the legacy provider (`EpicWorkspaces`) seen
from adoption. The temporary files of `writeRecord` are never read and are left
out, and so are the interruption hooks that exist for tests.

### `IssueStore`, `IssueGraph`, `IssueOperations`, `IssueRules`, `IssueStore_proofs`

`IssueRules` has the rules all of them use: which types may be parents, what
`validateUnlocked` accepts (`Valid`) and the questions operations ask of a graph:
`Above` is `hasHierarchyCycle`, `DependsOn` is `hasDependencyPath`, `Subtree` is
the walk of `archiveUnlocked`. The walks are stated without recursion: x leads to
y when every set that holds x and is closed under the edges holds y. `IssueOperations` has
what each operation makes of a graph, as relations between the graph it reads and the
one it leaves (`Changed` is any of them).

`IssueStore` is `issues.ts` and `issues-storage.ts`. Its state is the files, the
batch being published (`pending`, `applied`) and the stage of the call:

    idle -> publish -> idle                  a successful call
            publish -> undo -> idle          a failure, rolled back from memory
            publish | undo -> left           a death; the lock directory stays

An operation checks and builds its batch in one step (`Submit`), then each file is
one step. `IssueGraph` is the promise: a graph changed by whole operations
(`Changed`), until the caller is told that files may be inconsistent (`health`). The mapping
`Committed` reads a batch as having happened with its last file. `Reported` says
when the promise ends: a roll-back failed and said so, or a process died and
every later call refuses what it left (`~Valid`, or a temporary file).

Abstractions: the status, body, assignee and metadata of an issue are not told
apart, and `transition` is an `Update` of the status; comments are their number,
since they are only ever appended; `relates_to` and `duplicates` are treated
alike in the code and are one relation; revisions are the files themselves; a
stale expected revision is a refused call (`Read`), and so is a failure of the
cache or of the document snapshot before the operation. A failure of the cache after
it changes no issue file. Document links are the subject of `DocumentStore`.

### `MemoryStore`, `MemoryLog`, `MemoryRules`, `LocalCache`, `MemoryStore_proofs`

`MemoryRules` has the items (records and tombstones), what a memory that loads
is (`Valid`, `Loadable`) and which batches may be added to it (`Importable`).
Supersession is acyclic iff no non-empty set of records is superseded from
within.

`MemoryStore` is `memory.ts`. Every call runs through the stages

    idle -> ensure -> checked | rebuilt -> publish -> sync -> repair -> idle
                                           publish -> undo -> idle

where `execute` loads all files and brings the cache up to date, the operation
submits its batch (`Submit`), each file is one step, the files are loaded again
(`Reload`) and the cache is synchronised or, failing that, rebuilt (`Repair`). An
import is checked outside the barrier first (`CheckImport`), in the middle of
whatever other call is running, and again inside. `told` is the answer of the
last call, `warned` that it said "inconsistent". `Crash` leaves the files and the
lock directory. The other contents the cache mirrors, issues and documents, are
one value (`others`) that other tools change between calls and that may be
invalid.

`LocalCache` has the steps of `ensureLocalCache` and `synchronizeLocalCache` on a
database that is missing, without tables, or filled with rows, the fingerprint of
the snapshot they came from and the digest of the rows. `MemoryStore` composes
it by `INSTANCE` and adds who may damage it.

`MemoryLog` is what `docs/memory.md` promises: a log that whole operations add
to. The mapping reads a batch as having happened with its last file, and what a
dying import or a failed roll-back leaves as `"refused"` when it cannot be loaded.

Abstractions: payloads, tags and search are not told apart, and neither are the
reads. Of the limits, that on the number of files is modelled because it is
checked after the write; those on bytes are not.

### `EpicWorkspaces`, `EpicWorkspaces_proofs`

One Epic's worktree as `workspaces.ts` creates and removes it. The record (`state`,
and whether cleanup has started), the worktree (directory, Git's entry, Git's lock),
the branch and the lock directory are the state; every Git command and every
record write is a step of its own, which may fail, or take effect and be reported
as failed (a timeout, a directory fsync). `seen` is the topology that `loadContext`
observes *before* the call waits for the lock: mark and cleanup act on Git's entry
as seen then, and on the directory as it is. `Crash` leaves the lock directory
and may cut Git's command off between branch, directory and entry. People edit and
commit meanwhile; `git worktree prune` is the operator's. The checks that only
refuse (a clean primary checkout, the canonical Epic) are calls not made.

### `ProjectRoot`, `SessionRouting`, `SessionRouting_proofs`

`ProjectRoot` is `resolveProjectRoot` over the registry of `ContextRegistry`
(an `INSTANCE`: a transition is one step there, and `ExecutionContext` is what shows
that it may be taken as one), the routing switch of the configuration and the
worktrees missing from Git. The code reads the switch and then the binding, and the
switch may change in between: `HasRoot` and `Root` have what was read of it as a
parameter `on`, and a tool call may have read either value, whatever the switch is when
the binding is read. That loses and adds nothing, as somebody may turn the switch
at any time (`SetRouting`) and back. For the same reason the transitions and the
descriptors of `DelegatedOperations`, which read the switch first as well, may take it as
it is when they take effect: a call that found it otherwise is one before which it
was so for an instant.

`SessionRouting` adds the hosts. A tool call is let through by the hook (`Pass`) and
starts later (`Start`); `seen` is what the session was bound to at the hook. Pi
resolves again for its own file tools and shell, with the path already rewritten;
OpenCode does not. `RunProjectTool` is a tool of harnessctl itself, which resolves
and works at once. A session tool of Pi leaves an entry to be appended (`owed`)
that the host's death may prevent; `Recover` is `recordSessionRecovery` at session
start and compaction. Paths are places (a workspace, the main checkout) with
symbolic links followed; `Relative` stands for any relative path.

### `DelegatedOperations`, `DelegatedOperations_proofs`

`operations.ts` over `ProjectRoot`: `Prepare` builds a descriptor and the user
agrees to it, `Execute` builds it anew and compares, `Finish` leaves evidence, and
`Accepts` and `NextOperation` are `deriveNextBootstrapOperation`. A digest is the
descriptor it is made of. It names the workspace, its generation and that of
the binding, but neither the session nor the Epic. `at` and `agreed` remember
the binding for the properties. Between any two of these steps sessions are
bound, attached and released, routing is switched and tasks are edited.

`DocumentRules` and `RegistryRules` declare the constants that an abstract module
and its implementation share, with their assumptions.

The modules named `MC...` give the constants values. Operators introduced by a
comment "Mutant" are altered forms of the definition that follows them; they are
used nowhere in the specifications and record which bug each property detects.

## Runs

| Run | Checks | Shows |
|---|---|---|
| `documents` | `TypeOK`, `JournalBacked`, `RefinesLineageStore`, `RecoveryCompletes` | all operations on two documents and two titles implement whole operations; interrupted moves are resolved |
| `document_failures` | `LinksResolve`, `StartsClean`, `ExpectationsHold` | what holds under every kind of failure |
| `lock` | `MutualExclusion`, `LiveLockKept`, `StaleLockRecovered` | two processes, one of them beyond proof of death |
| `lock_race` | `LiveLockKept`, violated | finding 1 |
| `contexts` | `BindingsGrounded`, `RefinesRegistry` | transitions are all or nothing |
| `context_failures` | `ContextsUnambiguous`, `GrantsBacked`, `BoundSessionsRouted`, `TransactionsResolved` | what callers may rely on under every kind of failure |
| `issues` | `GraphValid`, `FamiliesTogether`, `RefinesIssueGraph`, `NothingLost` | all issue operations implement whole operations on a valid graph, under failures and a death |
| `issue_cycle` | `DependenciesAcyclic`, violated | finding 2 |
| `memories` | `MemoryValid`, `RefinesMemoryLog`, `AppendOnly`, `TakesBackOnlyItsOwn`, `AnswersTrue`, `EvidenceTrue`, `CacheCatchesUp` | the memory implements a log that only grows, no call takes back another one's items even where the files are refused, callers are told the truth, and the cache never answers for other files than it mirrors |
| `workspaces` | `ActiveIsOwned`, `ClosedIsGone`, `WorkKept`, `LifecycleForward`, `CreationResumes`, `CleanupResumes` | no uncommitted work is lost and interrupted creations and cleanups are taken up by repeating the call, under two concurrent calls, two failing commands, a death and people at work |
| `routing` | `NeverFallsBack`, `StaysInWorkspace`, `RecoveryTrue`, `ClaimsRespected`, `RecoveryCatchesUp` | where tool calls end up, that no call is let through unaware of whose Epic its workspace is, and what a Pi session's log says, whatever changes between hook and tool |
| `operations` | `ConsentExact`, `CompletionEarned` | consent and evidence hold for one binding only |

Every module has a type invariant `TypeOK`, proved for all constants (`TypeCorrect`;
`LockTyped`, a lemma, for the lock, and the first conjunct of `ActiveStaysOwned` for the worktrees),
so that runs do not repeat it, except `documents`; in `ExecutionContext`, `IssueStore` and `EpicWorkspaces` it is also the
first conjunct of `BindingsGrounded`, `GraphValid` and `ActiveIsOwned`.

Bounds. Two versions and two entries are the least with which a move is a
proper multi-file batch; three contents allow create, version and a change of
either; two documents are enough for one lineage to disturb another, since a
call touches one. Two crashes let recovery itself die once. One failure without
durable effect suffices for `documents`, because a call ends at the first one;
two in `document_failures` and `context_failures` let a roll-back or a reconciliation
fail too. Two sessions and two workspaces are the least for a binding to be
superseded and for an Epic to be contested; generation 3 allows bind, attach and
rebind. Two processes suffice for exclusion, as the race needs three (that is
theorem `ExclusionOfTwo`), and three are in `lock_race`.

`documents` uses the specification `SparedSpec`, which adds `CrashesSpareRenames` to
the steps: a process does not die within the batch of a title change, because that batch has no journal and the death
loses atomicity (see Known divergences). What the abstract modules `LineageStore`,
`ContextRegistry` and `IssueGraph` guarantee by themselves is proved, not run.

`issues` has three identities (the least for a dependency path with an inner
issue and for a family of parent, child and outsider), the types epic and story
(a pair that may and a pair that may not be a family), two titles, four changing
calls, two failures in a call (an effect and its roll-back) and one death.
`SparedSpec` adds two assumptions that are real and that the theorems make too:
`BlocksSpareCycles` leaves out `blocks` where `depends_on` would be refused, which is the
run `issue_cycle`, and `CrashesSpareIssues` deaths between the two files of a title
change that leave neither (Known divergences). Two more bound the exploration only
and no theorem needs them: identities grow (`CreatedInOrder`; ULIDs start with the time)
and no call follows a failed roll-back, after which nothing is promised (`WarnedStops`). The failure to
remove the lock directory is in the module, not in the run: it ends a call like any
other and an operator resumes. `ArchiveFirst` is true, as `archived/` sorts before
every prefix that starts with a later letter, such as this repository's.

`memories` has four identities and the types decision and fact, the least for a
batch whose path order is not the order of its supersessions, and four imports: a
decision that supersedes a fact of its own batch, a circle, one that retires what
another call may retire first, and one whose identity another call may take.
Three files are allowed, so that the fourth meets the limit; three changing calls,
one damage to the cache, one change of the other contents (also to invalid ones)
and one death. `OrderedSpec` assumes that identities grow, that single records are
facts (the type decides the path, which matters to batches only), that one
import at a time waits for the barrier and that the cache is damaged between
calls or before it is synchronised; elsewhere nobody reads it.

`workspaces` has two processes, since a third only waits, two failing commands (a
creation that fails and a repair that fails), one death and one edit. `routing` has
a session of each host, two workspaces, one Epic, one missing worktree and
generation 3: bind, attach by the other, rebind. Only one call is in flight at a
time, as two only read the registry. `operations` has two sessions that may come to
the same generations of one workspace, an installation (which evidence is about)
and a command (which has no task), two targets besides none, and one piece of
evidence, since `Accepts` takes at most one. Sessions, workspaces and targets are
interchangeable there, and no liveness is checked, so symmetry is sound.

Fairness. A call is straight-line synchronous code, so a live process takes its
next step (weak fairness of the stages). Calls keep coming while the host is in
use. For documents, an operator removes the barrier of a dead call: the code
never does, and says so in its error. For the lock, each live process continues;
giving up and dying are not fair. For memories, the rebuild of the cache succeeds
at some time or other (strong fairness: a full disk is emptied), which the
code's "the next initialization will retry" presumes; `CacheCatchesUp` says no more
than that. For worktrees, a call that has begun runs to its end, the operator
removes a dead call's lock and prunes, and work is committed in the end; that a call
is repeated is a premise of `CreationResumes` and `CleanupResumes`, not an assumption.
For Pi, the entry is appended in the same turn of the event loop unless the host
dies, a dead session is started again and a live one is compacted. No fairness is
assumed of failures, crashes, issue links, people's edits or session tools.

## Findings

1. `lock_race`: of two processes that recover one dead owner, the slower renames
   away the lock the faster (or a third) has acquired since the inspection
   (`execution-context.ts` 1049), although a live owner's lock must never be removed.
2. `issue_cycle`: `relate` with `blocks` stores `depends_on` at the target
   (`issues.ts` 578-582) without the cycle check that `depends_on` has (592). Two
   calls, A depends on B and A blocks B, store a cycle; the check of the whole
   graph then refuses every call, `unrelate` included, and only an editor of the YAML
   files can repair it.

## Known divergences

The code also differs from its documents in the following ways. The modules
contain each of them; the runs leave the faults or deaths that cause them out by a
constant or a named constraint, and giving the constants the values below shows the
violation.

- *Title changes have no journal.* An update of a document that changes the title
  publishes the new file and deletes the old one; a crash between them leaves two
  files for one version, which every later call refuses, or, when the old path sorts
  first, none (the theorem `DeathsTearOneVersion` says that this is all it does). For an issue the same batch may delete the old file first
  (`issues-storage.ts` 109): a death in between leaves no file, and as the
  remaining graph is valid nothing is reported, where `doc-00006`:168-170 lets no
  failure go unnoticed. (`MCIssueStore` with `Spec`, two identities, one type, two titles,
  `Dependencies` and one crash: `NothingLost`.)
- *Failures after the effect.* A directory fsync that fails after the rename or
  unlink (`local-persistence.ts` 1026) makes a document batch undo everything but that
  effect, since the failing replacement is not among the applied ones, and a version
  can be lost; `docs/documents.md`:68,70 promise a roll-back. The issue and memory
  batches record the replacement before they publish it. (`MCDocumentStore` with one
  document, one title, `LateFaults` and `MaxRevision = 3`: `RefinesLineageStore`.)
- *An issue may link a document that an interrupted restore has already moved* to
  the active location; recovery, which would move it back, is then refused by the
  issue graph check (`documents.ts` 718), for ever, where `doc-00014`:148 has the
  next call recover. (`MCDocumentStore` with `FairSpec`, `NoFaults`, one crash, one link:
  `RecoveryCompletes`.)
- *A late commit.* A fsync that fails after the transaction file was unlinked
  (`execution-context.ts` 888-890) starts a roll-back that is itself unprotected; a
  crash in it leaves a binding to a generation that was never published.
  (`MCExecutionContext` with one workspace, one Epic, `LateFaults`, one fault and one
  crash: `BindingsGrounded`.)
- *Compound failures of a move.* With the fault kind `rollback`, a move whose
  roll-back fails still removes its journal and backups (`documents.ts` 383-387)
  and loses versions. With the kind `after` at `WriteJournal`, the backups of a
  journal that is on disk are discarded (664-669), and recovery refuses it from then on.
- *One memory file too many.* A record is published before the number of files is
  checked (`memory.ts` 719): at the limit the file is written, the caller is told of
  an error, and every later call is refused, as deleting would write one file more.
  `AnswersTrue` states the exception.
- *A death in an import batch* may leave a decision whose supersession target, a
  file that sorts later, was not written; later calls are refused, which
  `doc-00007`:131-133 accepts. `Refused` names it.
- *Cleanup with a stale topology.* Cleanup takes Git's entry as seen before the lock.
  Another call may create the worktree's entry anew, or leave it half-removed, in
  between: `closed` may be recorded with Git's entry left behind, where
  `doc-00019`:72,76 want it verified. `ClosedIsGone` therefore speaks of the
  directory and the branch only.
- *A creating record without a worktree* (a death before `git worktree add`) is
  refused by ensure for ever, against `docs/cvs.md`:98,107-109; a worktree whose
  directory is gone and whose entry is not needs `git worktree prune`.
- *Provisional allocation.* A crash after the record that announces a worktree
  (`execution-context.ts` 272) leaves a creating record, and perhaps a worktree, that no
  operation completes or removes.
- *Pi releases what resolves only.* Pi's release resolves the session first
  (`pi-tools/index.ts` 537): a session whose workspace moved on, or whose worktree is
  missing, can be neither released nor bound again to the same workspace there;
  OpenCode releases directly. With routing disabled both are refused
  (`docs/cvs.md`:140-142).
- *A started call keeps its path.* Between hook and tool a session may be bound
  elsewhere; Pi resolves again, but the path is already that of the old workspace, and
  OpenCode does not resolve again. `StaysInWorkspace` states what holds: the call
  works in the workspace that it was let through to.
- *Recovery entries of what no longer resolves.* `recordSessionRecovery` throws for
  a released or stale binding and records nothing, so that a death between a release
  and its entry leaves a "bound" entry, which `RecoveryTrue` allows (it is behind)
  and `RecoveryCatchesUp` does not cover.
- *`once_per_workspace_generation`*, declared for the installation
  (`operations.ts` 12), is enforced by nothing: the same consent executes it again.
- *Archived dependencies.* `hasDependencyPath` walks active issues only and throws on
  a dependency that is archived, so that `relate` refuses a dependency on an issue
  that itself depends on an archived one. No property is broken by it.
- *`hasBinding` takes no lock* and may report a binding that the next call rolls
  back; `BoundSessionsRouted` states the direction that holds.

## Proofs

Every safety property and every refinement that a run checks is a theorem, for every
value of the constants: any number of documents, issues, sessions, processes, failures
and deaths. The only assumptions on constants are the `ASSUME`s, which TLC evaluates
in every run (that the null value `None` is no Epic, record, binding or call is one of
them). A theorem that needs more has it as a hypothesis, and each hypothesis leaves out
one thing that the code does and a finding or a divergence above names:

| Hypothesis | Theorems | Without it |
|---|---|---|
| `"unlink" \notin Faults` | `ImplementsRegistry`, `BindingsStayGrounded`, `GenerationsNeverReused` | a late commit is rolled back without protection |
| `"after" \notin Faults` | `JournalsStayBacked`, `ImplementsLineageStore`, `StoreKeepsLineages`, `DeathsTearOneVersion` | a failure after the effect is not undone, or discards the backups of a journal on disk |
| `"rollback" \notin Faults` | `ImplementsLineageStore`, `StoreKeepsLineages`, `DeathsTearOneVersion` | a move that cannot be rolled back drops its journal |
| `[][CrashesSpareRenames]_vars` | `ImplementsLineageStore`, `StoreKeepsLineages` | a death in a title change leaves two files or none |
| `[][BlocksSpareCycles]_vars` | those about `IssueStore!Spec`, but `TypeCorrect` | finding 2, run `issue_cycle` |
| `[][CrashesSpareIssues]_vars` | `ImplementsIssueGraph`, `NothingEverLost` | a death in an issue's title change may leave no file |
| `[][RecoversDeadLock]_vars` | `ExclusionBarringTheRace`, `LiveLockKeptBarringTheRace` | finding 1, run `lock_race` |
| `Free \notin Procs` | the theorems on the lock | (an `ASSUME` of `ExecutionLock`: an absent lock has no owner) |

- `DocumentStore_proofs`. Three layers, each inductive given the ones before it.
  - `PlanHeld` (a stage that uses the journal value has one) and `CleanInv`, which says
    for every stage which backups may exist and what the batch touches, give
    `TypeCorrect` and `OperationsStartClean`. `StartsClean` is not inductive by itself: that
    recovery leaves nothing behind depends on every stage before it.
  - `BatchInv` is about the files of the batch: `BatchExact` (each replacement finds what
    it expects, its inverse when rolled back, and no two meet), `MovesOK` (a move
    is to the other location, one entry for each version), `BackedUp` (the backups are
    complete when the journal is written and until it is removed), `LineagePlanned` (until
    then the lineage is what the journal will say), `LinksKept` (no replacement takes a
    linked document away). It gives
    `BatchesFindWhatTheyExpect` and `LinksStayResolved` under every kind of failure, and
    with it `MoveContained` gives `JournalsStayBacked`.
  - `WholeInv` says what the committed documents are while files move. With it every
    step is a whole operation of `LineageStore` or none: `ImplementsLineageStore`. The
    abstract theorems `LineagesCoherent` and `NothingLost` then carry over to the files
    (`StoreKeepsLineages`).
  - `ChangeShaped` (a change replaces one file, or the two files of one version) says what
    is left of that when processes die inside title changes too:
    `DeathsTearOneVersion`, that such a death leaves the newest version of one active
    lineage under both titles or under none, and harms nothing else.
- `ContextRegistry_proofs`: `TypeCorrect`, `EpicsExclusive`, `BindingsAreGrounded`
  and `GenerationsOnlyGrow`, from one lemma on what a step writes (`StepEffect`).
- `ExecutionContext_proofs`. The invariant that survives every failure and death is
  `StageKept` (what each stage knows of the transaction file and of what was written),
  `CallKept` (what the running call is about to publish contradicts nothing a session was
  told), `DiskKept` (neither do the records, the bindings and what a pending transaction
  would restore; an Epic has one record), `ToldOnce` and `Routed` (a session bound
  before a transition is bound during it). From it: `TypeCorrect`,
  `ContextsStayUnambiguous`, `GrantsStayBacked`, `BoundSessionsStayRouted`. The delicate
  case is a roll-back by one call of what a reader without the lock already saw. With
  `Masked` (what a pending transaction hides is what is on disk otherwise) and
  `Transition` (each call publishes one of the registry's transitions):
  `ImplementsRegistry`, and from `ContextRegistry_proofs` then `BindingsStayGrounded` and
  `GenerationsNeverReused`: no roll-back takes back a generation that was committed, which
  is what callers who pass an expected generation, and `SessionRouting`, rely on.
- The lock, at the end of the same module: `OwnerInv`, a process in its operation or about
  to remove its lock owns the lock, is inductive except for one step, the late
  quarantine of finding 1. `ExclusionWithoutRecovery` (no death can be proved) and
  `ExclusionOfTwo` (two processes) need no hypothesis about that step.
- `IssueStore_proofs`.
  - The graph: the invariant `Sound` is validity without the hierarchy's acyclicity, which
    follows from the types (`TypedHierarchy`: a parent is of a higher type). It needs
    `FamiliesTogether`, because update looks at active children only, and archive at
    active members of a subtree. Cycles are treated without paths or induction: a graph
    is acyclic iff every non-empty set of identities has a member without a successor in
    the set. `EdgeAdded` is the heart: a closed set that holds the target of a new edge
    and not its source, which is what a failed search for a path back yields, keeps
    every set with such a member. Theorems: `GraphStaysSound`, `GraphKeepsIssues`.
  - The store: a call in progress is somewhere in a `Plan`, a set of replacements that
    do not meet and whose two ends are one `Changed` apart. What a process that dies
    leaves is a prefix of it in path order, and `Partway` says that any such prefix leaves
    the old graph, the new one, one that validation refuses, or files that miss an
    issue. For most operations that is one or two files; for an archive it
    depends on the order of the two directories, and is proved for either: all new files
    come before all deletions, so that a partial batch has duplicate identities, or
    the reverse, so that it misses issues. The invariant is `TypeOK /\ (warned \/ Kept)`, where
    `Kept` has this for a running call and `Reported \/ Sound` between calls. Theorems:
    `TypeCorrect`, `GraphAlwaysValid`, `DependenciesNeverCyclic`, `FamiliesStayTogether`,
    `ImplementsIssueGraph`, `NothingEverLost`.
- `EpicWorkspaces_proofs`: the invariant is `ActiveIsOwned` and `ClosedIsGone` with what
  the holder of the lock directory relies on (`StepsKept`: nothing was there before
  `git worktree add`, and nothing is taken down before the record says that cleanup
  started) and `RecordKept`. It holds although calls use a topology read before they
  had the lock, because what it does not say of Git's entry is what that read may get
  wrong. Theorems: `ActiveStaysOwned`, `ClosedStaysGone`, `WorkIsKept`,
  `LifecycleOnlyForward`, and `ChangesAsAssumed`: seen by adoption, the provider takes
  exactly the steps that `ExecutionContext` models as `LegacyChange`.
- `MemoryStore_proofs`: the invariant `IInv` says for every stage what the call has
  left in the files: nothing before its batch (`NothingWritten`), a published part of a
  legal batch (`PartWritten`), a part yet to be removed (`PartRemoved`), all of it
  (`AllWritten`). That a batch which was legal when it was submitted still adds up to
  a valid memory needs `StartKept`: no other call removes a file meanwhile.
  `CommittedValid` and `CacheHonest` (digest and fingerprint are written together)
  complete it. From it follow `ImplementsMemoryLog`, the refinement, and with it
  `StaysValid` and `NothingComesBack`; `AnswersAreTrue`; `EvidenceIsTrue`.
  `TakesBackNothingElse` does not go through the refinement, which promises nothing
  once the files are refused: what a roll-back removes was new when its batch was
  submitted (`BatchIsNew`), and `PartRemoved` keeps it apart from what was there.
- `SessionRouting_proofs`: the invariant is `CallKept` (a routed call carries the
  workspace its session was bound to; no other call was let through for a bound
  session), `EpicKept`, `PrimaryKept`, `RecoveryTrue` and `ClaimsKept` (whatever any
  binding or log entry says of a workspace and its Epic is still so, and no Epic has two
  workspaces). It rests on three facts of the registry: no workspace is given a second
  Epic (`EpicsStay`), no Epic a second workspace (`NextExclusive`), and no binding changes
  without a higher generation (`BindingsGrow`, from `ContextRegistry_proofs`), which is
  why an entry once true can only fall behind (`StaysBehind`). Theorems:
  `NothingFallsBack`, `CallsStayInWorkspace`, `ClaimsAreRespected`, `LogsAreTrue`, and
  `TypeCorrect`.
- `DelegatedOperations_proofs`: a descriptor names no session and no Epic, so that its
  generations stand for one binding is not evident. The invariant `Grounded` says of
  every remembered binding that its workspace has reached its generation and, while
  it is at it, has its Epic; `SameBinding` then shows that two descriptions that
  agree are of one binding. Theorems: `ConsentIsExact`, `CompletionIsEarned`,
  `TypeCorrect`.

Only model-checked are the liveness properties (`RecoveryCompletes`,
`StaleLockRecovered`, `TransactionsResolved`, `CacheCatchesUp`, `CreationResumes`,
`CleanupResumes`, `RecoveryCatchesUp`): fairness and `ENABLED` are beyond the prover.


## Not modelled

Real-path confinement, YAML and front-matter parsing, limits on bytes, schema
generation, prompts, templates and MCP projection are pure functions or wording. The
adapters' other tools decode arguments and make one provider call each.

The installer (`src/src/harnessctl/install.py`) is a single process that rewrites
host files and restores them from memory on a failure; between the two it runs
package managers, and what is left after a failure is mostly what those did. Reading
it shows one divergence: `.pi/settings.json` is rendered (439-442) before `pi install`
runs (546-566) and written over what that wrote (567-571), so that the smoke check
fails and everything is rolled back, against `docs/cvs.md`:403-404,410-412.

## Plan

1. The composition of the registry's contexts with the lock: `ExecutionContext` takes one
   call at a time, which `ExecutionLock` shows to hold but for finding 1.
2. A model of the installer's transaction, once it journals its before-images.
