# Verification of the collaborative workbook server and its clients

TLA+ models of this repository's spreadsheet: a Java server that keeps each
workbook as a log of operations with checkpoints, and browser clients that edit
optimistically, queue what they did while they are offline, and follow the log
over HTTP and a WebSocket.  The models are checked with TLC on small instances;
the safety of the operation log, of its replay and of the coordination outbox, most
of that of the client's queue, journal, history and calculation port, and the algebra of the
row edits are also proved with TLAPS for every instance.

## 1. Inventory

Paths are relative to `src/`; `server/` stands for
`backend/src/main/java/com/xc/luckysheet/server/` and `packages/` for
`frontend-react/packages/`.

| Component | State | Operations | What makes it correct |
| --- | --- | --- | --- |
| Operation log: `server/service/WorkbookOperationService.java`, `server/store/` | workbook row (revision, snapshot, snapshot revision, lifecycle), operation rows, checkpoint rows, outbox rows | commit, operationResult, readSnapshot, readRevision, revisions, checkpoint, restore | one operation per revision, an identity committed once, no unseen overwrite, every revision readable, answers never change |
| Snapshot reducer and structural patches: `server/mutation/`, `server/contract/StructuralPatch.java` | none of its own (documents in, documents out; patches are stored with the operation) | apply a mutation, generate and invert a patch | replay gives what commit accepted; an undo restores its preimage exactly |
| Catalog and lifecycle: `server/service/WorkbookCatalogService.java` | workbook rows, folders | create, import, rename, trash, restore from trash, purge | a trashed workbook is not written to |
| Access: `server/service/AccessControlService.java`, `RangeAccessService.java`, `AccessProjectionService.java` | ACL rows, range policies, access revision | grant, revoke, project a snapshot or an event | nobody receives what they may not read |
| Coordination: `server/coordination/` | outbox rows with lease, attempts and published time; Redis channel; sessions per workbook; the identities already broadcast | claim, publish, mark, release, delete; join, leave, broadcast | every revision event reaches every instance at least once, a session sees it at most once |
| Client queue and session: `packages/spreadsheet-app/src/collaboration/`, the collaboration part of `runtime.ts`, the socket of `packages/protocol` | queued operations with status and base, pending operations, remote revision, connection status | enqueue, flush, acknowledge, reject, discard, apply remote, rebase, reload and replay | a local edit is committed once or refused visibly; the document of a client that is in step equals the server's |
| Recovery journal and checkpoint coordinator: `packages/spreadsheet-app/src/features/persistence/` | journal entries with confirmed revision, requested and covered revision | persist, confirm, cover, clear, load; request, flush | after a crash each operation is replayed once, none is forgotten |
| Command runtime: `packages/command-runtime` | document, undo and redo stacks, operation identities | execute, undo, redo, apply remote, mark committed | undo inverts exactly what the server has |
| Row edits and their transform: `packages/core-model/src/structural-transform.ts`, `packages/sheet-features`, `packages/spreadsheet-app/src/collaboration/ot-rebase.ts` | the sheets | apply, invert, rebase a mutation | an inverse restores; a rebased draft lands in the row its user meant |
| Formula engine: `packages/formula-engine`, the scheduler of `runtime.ts` | texts, values and dirty roots on the page; a copy of the texts in a worker; inputs not acknowledged | change an input, the mode or the visibility; calculate what is dirty, one sheet, everything; cancel | what is out of date is known to be, the worker has the page's inputs, formulas come up to date |
| Data blocks, assets, queries, authentication, workspaces, migrations | see `PROJECT.json` | | |
| Rendering, user interface, SDK, file exchange | documents and views | | presentational; not protocol state |

How they interact.  A client sends an operation envelope with HTTP POST.
`commit` runs in one database transaction that begins by locking the workbook
row, so writes to one workbook are serialised, and nothing is left behind by a
crash in the middle.  After the transaction the controller broadcasts the
committed operation to the sessions of its own instance; the outbox row,
inserted in the transaction, lets a scheduled publisher tell the other
instances through Redis.  A client thus learns of an operation from the HTTP
response, from its socket, and by asking for history or for the result of an
operation identity, in any order and possibly more than once or not at all.
Before a page sends an operation it writes it to its journal in IndexedDB, and it
keeps it there until a checkpoint of the server covers it; the journal of a page
that is gone is taken over by the next page of the same user.  Every mutation,
its own or another user's, also goes to the page's formula engine, which has a
web worker calculate.

What is hard.  Lost responses and repeated requests; writes on a stale base;
replaying history from checkpoints across restores; undo of structural
operations, and undo of undo; events that overtake each other or the
acknowledgement; a client that reloads while one of its operations is under
way; crashes between the steps of the client's journal; leases that expire
while their owner still works; undo of what others have moved since; calculations
that are cancelled while the worker keeps the inputs they carried.  `PROJECT.json` lists these under `hazards`, each
at its line.

## 2. Plan

1. `OperationLog` with `CommitService`, the promise made to clients that repeat
   requests; proofs of its safety and of the refinement. *Done.*
2. `WorkbookSnapshots`, which extends `OperationLog` with the documents: replay,
   structural patches, undo; proofs of replay. *Done for one column.*
3. `Collaboration`: queue and session of the clients over a lean server;
   acknowledgements racing events, reloads, rejections. *Done, without documents.*
4. `CoordinationOutbox` with `EventDelivery`: leases and at-least-once
   publication, with liveness under fairness of the schedule; proofs of its
   safety. *Done.*
5. `RecoveryJournal` with the checkpoint coordinator: crashes and restarts,
   discards and purges. *Done.*
6. `RowEdits`, `SharedEditing`, `EditHistory`: the documents of a page that edits
   while others do, rebased drafts, undo and redo; proofs of the algebra of
   `RowEdits`. *Done for cell writes and row edits on one column.*
7. `CalculationTasks`: the page and its calculation worker. *Done without spills.*
8. Left: range access and projection of what a page reads; the purge of a
   workbook on the server; data blocks against their garbage collection; columns
   and second sheets in `RowEdits` and `WorkbookSnapshots`.
9. Proofs of the client: `Collaboration`, `RecoveryJournal`, `EditHistory`,
   `CalculationTasks`. *Done.*
10. Proofs of what was only model-checked: the undo of the latest operation on the
    server and on the page, pages in step, what is out of date.  *Done; of
    `LatestUndoable` not for undos that move several rows.*

## 3. Modules

**`CommitService`** - the abstract specification.  Identities are given
consecutive revisions (`Accept`) and every answer about an identity names its
revision (`Repeat`).  An answer may be lost.

**`OperationLog`** - `WorkbookOperationService` for one workbook.  Its variables
are the columns of the database: `revision`, `snapshotRevision` and `lifecycle`
of the workbook row, the rows of the operation table (`operations`), the
revisions that have a checkpoint row (`checkpoints`), the outbox rows ever
inserted (`outbox`), and, as the only thing outside the database, the results
that reached a client (`replies`).  One action per handler, since a handler is a
transaction under the row lock:

| Action | Code |
| --- | --- |
| `Commit` | `commit`, `commitInternal` for a new operation: lifecycle, role, identity and sequence, undo intent, base, readable current document, insertion, outbox, checkpoint if the threshold is reached; the response may be lost |
| `Resubmit` | `commitInternal` when the identity is known and the content the same |
| `OperationResult` | `operationResult` |
| `Checkpoint` | `checkpoint` |
| `Restore` | `restore`; a system operation with its own checkpoint |
| `MoveToTrash`, `RestoreFromTrash` | `WorkbookCatalogService` |

Reads that change nothing (`readSnapshot`, `readRevision`, `revisions`) appear as
the operator `Readable`, the condition under which they return a document and do
not report `STORAGE_CORRUPT`.  Refused requests change nothing and are no
actions.  Content is reduced to what the control depends on: a mutation has an
id (which decides `DISJOINT_CELLS` or `EXACT_BASE`), the row it touches, and a
value.

**`WorkbookSnapshots`** - extends `OperationLog` with what the handlers do to
documents.  A document is one column of cells; a formula cell refers to a row
of it.  Inserting or deleting a row remaps the references, turns a reference to
a deleted row into `lost` (`#REF!`), drops cached formula values, and produces a
patch with the formula owner deltas.  Undo intents are checked as in
`validateIntent` and `validateStructuralUndoMutations`, the inverse of the
target's stored patch is merged and applied, and the result must equal the
preimage.  `ReplayFrom` and `ApplyOperation` follow `applyCommittedEnvelope`,
including the comparison of derived and stored patches; `ApplyMutations` is the loop
over the mutations, which gets the inverse patch of each.

**`Collaboration`** - one browser page among others: `OfflineQueue`,
`CollaborationSession`, and the part of `runtime.ts` that sends operations,
receives revision events and synchronizes.  `client` is the record of what the
callbacks share (`model`, `remoteRevision`, `baseRevision`,
`committedOperationIds`, `ownOperationIds`, the queue, and the flags of
`startCollaborationSession`); `request` is where `flushQueue` awaits; `loads`
holds one synchronization per opening of the socket, each at the await it has
reached; `log` is the server, reduced to the order of operations, with `unsent`
for the events under way and `late` for requests that the page gave up.  A
callback runs alone until its next `await`, so the code between two awaits is
one action:

| Action | Code |
| --- | --- |
| `Edit`, `FlushPending` | `submitChangeset` and `scheduleOperation`, allowed by the mutation guard; `flushPendingCollaborations` |
| `ServerHandles`, `ServerHandlesLate`, `OtherCommits` | `commit` for the page's request, for one it gave up, for another page's |
| `Acknowledged`, `SendNext`, `SendFails` | the transport callback after the journal's `confirm`, after the local checkpoint, and its `catch` with that of `flushQueue` |
| `Broadcast` | `broadcastRevision` and `applyRemote` of `runtime.ts`, deferred while synchronizing |
| `Disconnect`, `Open` | the socket of `packages/protocol`, the status listener |
| `ReadSnapshot`, `HydrateSnapshot` | `getSnapshot` answered; `hydrateRuntime` |
| `CheckResult` | one turn of the loop over `getOperationResult` |
| `ReadHistory`, `ReceiveHistory`, `HydrateNewer` | `listRevisions` answered and received; `getRevisionSnapshot` and `hydrateRuntime` |
| `FinishLoad`, `LoadFails` | `loadCommittedHistory`, the stale-draft check, replay, deferred messages, online; the `catch` |

Simplifications: an operation is an identity with the cells it touches, and a
document is the sequence of operations applied to it; a structural operation is
one that touches every cell.  The server's answer to `getOperationResult` and
its arrival are one step, and so are a commit response's arrival and the
journal's confirmation.  Every failure of a send ends in the same rejection, as
in the code, where the transport rejects before `flushQueue` can count a retry.
The page starts with an empty journal; it is not restarted, see `RecoveryJournal`.

**`EventDelivery`** - the abstract specification of the outbox: a committed event
is announced, and then settled, unless its workbook is purged; an event may be
announced again.

**`CoordinationOutbox`** - the publishers of several server instances over the
outbox table of one workbook.  A row has a status, a lease and a pause
(`next_attempt_at`); `claimed` and `step` are the local variables of the loop in
`publishPending`.  Clocks are left out: `LeaseLapses` and `BackoffEnds` say when
a time is over.

| Action | Code |
| --- | --- |
| `Commit`, `Purge` | `OutboxEntity`'s insertion in the transaction of a commit; the deletion of a workbook with its rows |
| `Claim` | `findPendingForUpdate`, whose `PESSIMISTIC_WRITE` locks make a second claim wait, and the lease, in one transaction |
| `Publish`, `PublishFails` | `RedisCoordinationPublisher`; a failed call may have reached Redis |
| `Mark`, `MarkFails`, `Release`, `ReleaseFails` | `markPublished` and `release`, each a transaction; release does not look whose lease it is |
| `Crash`, `Cleanup` | the instance restarts with an empty batch; the hourly deletion of published rows |

**`RowEdits`** - operators without state: a document is a column of cells;
`Applied`, `Inverted`, `Rebased` are `StructuralTransform.apply`, the inverses of
the sheet features, and `rebaseMutation` of `ot-rebase.ts`.  A rebase of a draft
over a committed mutation keeps it, moves it, or refuses it as a conflict.

**`SharedEditing`** - extends `RowEdits`: a page applies its edits at once and
queues them (`Edit`), the server accepts or refuses the first in the queue
(`Accept`, `Refuse`: base rule, undo intents, `DISJOINT_CELLS`), others commit
(`RemoteCommit`), and the page receives revisions in order: its own
(`ReceiveOwn`) renumber the queue, those of others (`ReceiveOther`) are applied
to its document as they were committed, and rebase the queue or stop the page.
`Discard` gives up the drafts and reloads.

**`EditHistory`** - extends `SharedEditing` with the stacks of `CommandRuntime`:
`Execute`, `Undo`, `Redo`, `Acknowledge` (`markOperationCommitted`),
`ReceiveRemote` (`transformHistoryAgainstRemote` maps or drops each entry of both
stacks), `Reload` (hydration empties them).  What these modules show of the
code's rules: the server accepts an undo only of the latest revision; one made
while an own operation before it is unacknowledged is refused, which
`LatestUndoAccepted` excepts as `draft`; a structural operation cannot be redone
once its undo is acknowledged (`STALE_OPERATION`), and an entry that cannot be
replayed stays on top and blocks the ones below.

**`RecoveryJournal`** - the pages of one user over time, the journal records they
own in IndexedDB, and the log.  `tail` is the chain of writes of a page, `saver`
its `CheckpointCoordinator`, `phase` where it is between opening and its end.

| Action | Code |
| --- | --- |
| `Open`, `Close`, `Release`, `Crash` | `load` with the takeover of records whose page holds no lock, `dispose`, `release`, the end of a process |
| `Write`, `WriteFails` | one write of the chain in `persist`; behind a failed one nothing runs |
| `Draft`, `Send`, `Answer`, `Acknowledge`, `Fails` | `submitChangeset`, the transport (which waits for `flushed`), `confirm` |
| `Check`, `Finish` | one turn of the loop over `getOperationResult`; history, replay, online |
| `TimerFires`, `Save`, `CheckpointSaved`, `Covered`, `CheckpointFails`, `CoverFails` | `request`, `flush` and explicit save, `coverCheckpoint` |
| `Discard`, `Purge` | `discardRecoveryDraft`, `purgeSubjectWorkbookState` |
| `Handle`, `Refuse` | `commitInternal`, for requests of pages that are gone too |

A page that is opened again under its identity is set apart in the properties
(`restarted`), because the code does not keep two promises for it.  Its client
sequence restarts from the journal it loads (`runtime.ts:1712-1715`), where
covered operations are missing, and can be one its session has committed; the
server then refuses the draft ("clientSequence was already committed").  And what it still holds as
confirmed it writes back into a record that another page has taken over, which
makes the next load fail (`RECOVERY_DUPLICATE_OPERATION`).  That failure can hit
pages that were never started again: with three pages, two of them can take over
the records that the restarted one wrote with the same draft.  So
`LoadableUnlessRestarted` speaks of states in which no page was started again.  The model also has:
restored drafts are never rewritten, a write chain that failed once stays failed
until the page ends, `clear` removes the records of live pages as well, and a
failed save is retried by an explicit save only.  A request may be under way when
the access changes; its answer, with the base it was sent on (`sentBase`), is
confirmed in the journal although the queue is gone, so the purged operation is in
the record again until a checkpoint covers it.  The history variable `purged` has
what a purge removed and no other live page holds or is about to write.  `Purge` is
one step: `clear` waits for the chain, deletes the records and forgets what is
confirmed with awaits in between, and an answer that comes there is modelled as
coming before or after.

**`CalculationTasks`** - the formula engine of the page (`page`), its port
(`task`, `workerContext`) and the worker's engine (`worker`), with the two
message queues between them.  A text is a version and a value the term it was
calculated from, so that a value is up to date exactly when it equals the
evaluation of all formulas.

| Action | Code |
| --- | --- |
| `Edit`, `ChangeVisibility`, `SetMode` | `synchronizeInputs`, `notifyVisibilityChanged`, `setRecalculationMode`, each with the task `runtime.ts` schedules for it, the cancellation of the one before, and, when calculation is deferred, the evaluation of a formula that was entered |
| `CalculateNow`, `CalculateSheet`, `CalculateFull` | `recalculateFormulas` (F9, Shift+F9, Ctrl+Alt+F9) |
| `WorkerHandles` | the worker's `onmessage`: snapshot or inputs, `executeCalculationTask`, the report; or an exception (`Throws`) |
| `Receive` | `handleMessage` of the port, `applyCalculationTaskResult`, the acknowledgement of inputs |
| `WorkerError` | the worker's `error` and `messageerror` events: `failAll` |

The scheduler coalesces calls in one turn of the event loop and starts the task
before any other event, so that a change and its task are one step.  A
cancellation message reaches the worker behind its task and never stops it.

**`Queues`** - `Array.filter`: what remains of a sequence when only some of its
positions are kept.  `Collaboration`, `RecoveryJournal` and `EditHistory` use it for
their queues, journals and stacks.  It is defined without recursion, so that what
it returns can be proved (`Queues_proofs`).

`MCOperationLog`, `MCWorkbookSnapshots`, `MCCollaboration`, `MCEditHistory` and
`MCCalculationTasks` hold the instances; the modules `..._proofs` the theorems
(section 5).

## 4. Runs

Three runs check liveness, each under the fairness its code gives.
`coordination_outbox`: the scheduler of an instance calls `publishPending` again
and again and each call ends, so `Claim`, `Publish`, `Mark` and `Release` are
weakly fair, and so are the ends of leases and pauses, which are finite; faults
are not, and their number is bounded, because a row whose publication fails
forever is never announced.  `recovery_journal`: writes to IndexedDB, timers and
checkpoint requests of a live page come to an end.  `calculation_tasks`: the
worker takes its messages and the page's event loop takes the results.  The other
runs claim safety only and assume nothing.

**`operation_log`** (`OperationLog.cfg`, about 65,000 states).  An owner and an
editor with five operation identities, twelve envelopes chosen so that every
branch of `commitInternal` is taken and refused: fresh, stale and future bases;
overlapping and disjoint writes; exact-base operations; a repeated envelope, an
identity reused with other content and by another subject, a sequence used
twice; undo, undo of undo, undo of another subject's operation and of a restore.
`MaxRevision = 4` with `CheckpointLimit = 3` lets a checkpoint be taken by the
threshold, by request and by a restore, in each order, with operations between
and after.  It checks that the history is contiguous (`ContiguousHistory`), that
identities and sequences are committed once (`CommittedOnce`), that a stale
commit had seen what it touches (`NoUnseenOverwrite`), that every revision can
be read (`RevisionsReadable`) from a bounded history (`BoundedReplay`), that
answers stay true (`RepliesDurable`), that events match operations
(`OutboxComplete`), and that the log implements `CommitService`
(`ImplementsCommitService`).  That no step rewrites history (`HistoryImmutable`)
is left to its proof.

**`workbook_snapshots`** (`WorkbookSnapshots.cfg`, about 209,000 states).  Two
documents of three rows whose formulas refer to rows before, at and after the
ones inserted or deleted; edits, undos and undos of undos by the owner, cell
writes on every base by the editor, one of them below the sheet.  It checks
`ReplayFaithful` (each revision reads back as it was accepted, whatever
checkpoints and restores came later), `NoBlindOverwrite` (a stale write finds
the cell as its client saw it) and `LatestUndoable` (the server accepts the
inverse of the latest operation and restores the document exactly).  Here cells
carry no cached formula values; with them undo fails, see below.

**`cached_formula_undo`** (`ImportedFormulas.cfg`) - a disagreement with
`docs/linked-calculation-architecture.md`: structural edits are described as
reversible, but an axis mutation drops the `formulaValue` of every formula cell,
imported cells have one, the patch does not record it, and the undo must match
the preimage exactly.

**`collaboration_session`** (`Collaboration.cfg`, about 675,000 states).  A page
with two operations, on different cells, and another page with one on the cell of
the first; the socket opens twice, so that two synchronizations can overlap and a
request, an event or a load can straddle a reconnection.  It checks that a local
operation stays queued until it is in the log, whatever fails (`NoSilentLoss`),
and that operations are committed in the order of issue even when one is given up
and handled late (`CommittedInOrder`).  The other two promises the code keeps
only outside races that the history variable `races` records: an acknowledgement
that skips revisions (`skips`), one that a synchronization under way misses
(`missed`), a base lifted past revisions to which an unsent operation was not
compared (`passes`), synchronizations that overlap (`overlap`), and one that ends
on a closed socket (`closed`).  `InStepUnlessRaced`: while the page may be edited,
its document is that of the log up to the page's own revision with the pending
operations applied; how far that revision is behind the log it does not say.
`NoUnseenOverwriteUnlessRaced`: what it commits overwrites only what its user
saw.  A larger instance, with a second operation of the other page on a cell of
its own (15.7 million states), was checked once with the same result; a third
opening of the socket is beyond the time of a run.

Two runs show such races on the same instance:

- **`ack_skips_revision`** (`RevisionSkipped.cfg`): an acknowledgement raises the
  page's revision past another user's operation, whose event is then dropped.
- **`draft_overwrites_unseen_change`** (`DraftOverwrites.cfg`): an acknowledgement
  lifts the base of the next draft past an unseen change of its cell, and the
  server accepts it.

**`coordination_outbox`** (`CoordinationOutbox.cfg`, about 763,000 states).  Two
instances, three events, batches of two, two faults: a batch can be interrupted
with one row handled and one not, the other instance can claim either, a failed
call can be followed by a failed release, and a third row competes with the two.
It checks that the leases keep batches apart (`BatchesApartUnlessDisturbed`) and
announcements single (`RepeatedOnlyIfDisturbed`) unless a call failed or a lease
lapsed under its owner, and that the outbox implements `EventDelivery` with its
liveness (`DeliversEvents`).

**`edit_history`** (`EditHistory.cfg`, about 2,064,000 states).  A sheet that
starts with two rows and has at most three, four operations of the page, undo and
redo included, one of another user, and a stack of two entries, so that entries
fall out, are displaced, and meet the other user's operation before and after
their own is acknowledged.  Four operations are edit, undo, redo, undo.  It checks that a page
with nothing pending has the server's sheet (`ConvergesUnlessCrossed`), that what
is committed writes over what its user saw (`LandsWhereAimed`), that the next
undo or redo of a write finds the cell it names
(`HistoryInPlaceUnlessDisplaced`), that nothing is undone twice (`UndoneOnce`),
that entries know their operations (`HistoryKnowsItsOperations`) and that the
latest operation can be undone (`LatestUndoAccepted`).  The exceptions are
history variables: `crossed`, a revision applied to a document whose rows local
drafts had moved; `displaced`, an entry that lost the structural entry its
coordinates rest on.

**`structural_drafts_diverge`** (`StructuralDrafts.cfg`) - the first exception is
a disagreement in the code: another user's change is applied at its committed row
to a page that has inserted a row above it, and the two sheets differ for good.

**`recovery_journal`** (`RecoveryJournal.cfg`, about 982,000 states).  Two pages,
two drafts, one fault; the first page may be started again.  With two pages a
record can be left by a crash, taken over while a write or a request of its owner
is still under way, and left again.  It checks that nothing is sent before it is in
the journal (`SentWasDurable`), that nothing leaves the journal before a
checkpoint covers it unless the user gave it up (`NoDraftLost`), that records can
be loaded (`LoadableUnlessRestarted`), that replay applies an operation once
(`ReplayedOnce`), that waiting operations have unused sequences
(`SequenceFreshUnlessRestarted`), that what a purge removed comes back into a
record or a queue only if the server has committed it (`PurgedReturnsCommitted`),
and that a checkpoint does not stay due: again and again none is, or a failure is
on display, or the page is gone (`CheckpointsCatchUp`).

**`calculation_tasks`** (`CalculationTasks.cfg`, about 437,000 states).  Two
sheets, an input, three formulas of which one reads another sheet's formula and
the visibility of the rows; two changes, two commands, one fault, from a workbook
that was just loaded in either mode.  Two changes and two commands let a task be
cancelled before, while and after the worker handles it and be followed by one of
another kind.  It checks that a formula that is out of date depends on a dirty
root (`StaleIsDirtyUnlessAlone`), that the worker has every input the page no
longer holds for it, and that nothing on its way takes it back (`WorkerInStep`), and that in automatic mode formulas come up
to date (`EditsReachFormulas`).  `alone` marks the exception: one sheet was
calculated while roots outside it were dirty, since the last full calculation.

**`sheet_calculation_forgets`** (`SheetCalculation.cfg`) - what that exception
hides: Shift+F9 on one sheet while an edit of another is being calculated makes
the page forget that the other is out of date.  In manual mode the same happens
when a following F9 is cancelled by an edit after the worker handled it.

Bounds are constants of the modules (`MaxRevision`, `MaxConnections`, `CheckpointLimit`,
`MaxRows`, `MaxFaults`, `MaxDrafts`, ...) or the finite sets of the MC modules.  `CHECKPOINT_BYTES_LIMIT` is a
nondeterministic choice at each commit.

## 5. Proofs

`OperationLog_proofs` proves, for every set of actors, roles, requests, every
checkpoint limit of at least 2 and every bound on revisions, all the safety
properties of `operation_log`, that no step rewrites committed history
(`HistoryImmutable`, which no run checks), and that `OperationLog` refines
`CommitService`.

Assumptions (in `OperationLog`, evaluated by TLC in each run): requests are
well-formed envelopes with at least one mutation, none of them a restore
(`RequestsAssumption`); client identities differ from those the server makes up,
and clients cannot act as the system (`IdentityAssumption`, which stands for
random UUIDs and for `SYSTEM_RESTORE_ACTOR`); roles are roles
(`RolesAssumption`); bounds are numbers (`BoundsAssumption`).

None of the properties but the contiguity of history is inductive.  That every
revision is readable, for instance, needs that a restore always has its own
checkpoint, that a restore can only come from the system, that the target of a
stored undo is an earlier row of the same subject, and that the workbook's
snapshot is the last checkpoint.  `LogInv` is the conjunction of the properties
with these facts:

- `RowSources`: a row is a client's and no restore, or the system's, numbered by
  its revision;
- `RestoresCheckpointed`: the system's rows have a checkpoint;
- `UndoTargetsKept`: targets of undos are earlier rows of the same subject;
- `CheckpointsCover`: `snapshotRevision` is the greatest checkpoint and each
  revision has a latest checkpoint at or before it.

`InitEstablishes` and `StepPreserves` (one lemma per handler) show that `LogInv`
is inductive, `HistoryReadable` derives `RevisionsReadable`, `StepRefines` maps
each step to a step of `CommitService` or to a stutter.

`WorkbookSnapshots_proofs` proves, for any requests, documents and bounds,
`ReplayFaithful` and `NoBlindOverwrite`.  A step of the documents is a step of the
log (`DocumentsFollowTheLog`), so `LogInv` holds with them; `DocumentsInv` adds that
every operation but a restore is `Reproducible`: applied to the revision before it,
with the targets and the patches stored now, it gives the revision and the patches
it gave when it was accepted.  A new operation leaves the old ones reproducible
because it is the target of none of them (a target is an earlier row, and an
identity is committed once) and the patches of their targets stay as they are.  The
replay from a checkpoint is then the history itself: the history satisfies the
recursion that defines the replay, and at the least revision where the two differed
they would agree.  Neither the invariant nor the replay needs what a mutation does
to a document.  `NoBlindOverwrite` does: a write leaves the other cells alone, also
when it makes the sheet longer (`WriteKeepsOtherCells`), so do all the writes of an
operation, and by `NoUnseenOverwrite` all operations between the base of a write and
the write are such writes.

`LatestUndoable` does even more: the server applies the client's inverse with the
patches it stored, must find in each patched row the formula before or after the
repair, and must end with exactly the document before.  `SheetsInv` says that every
revision's document has rows, not more than `MaxRows`, and no formula with a cached
value, and that every operation but a restore is `Traced`: there is a chain of
documents between its mutations in which each row edit is `Exact`, that is, its
stored patch says of each formula which the edit or its repair changed where it came
from, where it went and what it was before and after.  Then a row edit can be taken back
(`AxisIsExact`, `AxisTakenBack`), not only from the document it made but from any
`Between` that one and the one without repairs, which is needed because the client
computes what it puts back from the latter.  `RunIsTraced` gives the chain for a new
operation, an undo included (`UndoIsApplicable`: what the patches of its target say
is still so in the latest document).  `PlanMatches` shows that the inverse passes
`validateStructuralUndoMutations`, `PlanEnds` that it leads back along the chain.

`SheetsInvariant` and `LatestCanBeTakenBack` have three hypotheses on the constants, which
the instance of `workbook_snapshots` satisfies.  `PlainValues` and `PlainDocuments`: no
formula with a cached value is written or imported, and none that is lost already is
written; with an imported one the property is false, which is what `cached_formula_undo`
shows.  `ModestRequests`: cells are within `MaxRows`, the bound of the model; no
request inserts, or deletes, one row number twice; and an undo moves rows once.  The
rows a user selects to be inserted or deleted are different
(`executeSelectedDimensionCommand`), but a batch may insert twice at one row, and
then the patches of the two cannot be told apart and the server refuses every undo:
TLC shows this on a small instance.  It also shows that the property as it is stated is
false of an undo that moves several rows and writes a cell that the first of the
moves had repaired: its own inverse puts back the unrepaired formula, which the
patch of the second move does not know.  A client redoes by the mutations of the
undone operation (`forwardMutations`), not by that inverse.

`CoordinationOutbox_proofs` proves, for every set of instances, number of events,
batch size and number of faults, the three invariants of `coordination_outbox`
and that the outbox implements the safety of `EventDelivery`.  That batches are
disjoint is not inductive: an instance could hold a row whose lease is free.
`IInv` adds that a row in a batch is pending, leased and unsent, except the one
about to be marked, unless it is disturbed, and that `sent` and `repeated` agree
with the rows.  The lapse of a lease under its owner and each failed call put the
row among the disturbed, which is what makes the exception inductive.

`EditHistory_proofs` proves first the algebra of `RowEdits` that `SharedEditing` and
`EditHistory` rely on, for documents of any length: mutations within bounds keep documents
(`MutationsKeepSheets`); an inverse restores (`InverseRestores`); a draft rebased over a committed
mutation gives the same sheet as the two in the other order (`RebaseCommutes`),
two deletions only when a row remains (`Len(doc) > 2`); and a change that no local
row edit crosses commutes with it (`UncrossedCommutes`).

`Queues_proofs` proves what `Kept` returns for any sequence and any positions: the
entries at these positions, each once and in their order.  The position of an
entry is its rank, the number of kept positions up to it, so that the proof counts
finite sets where a recursive filter would need induction.

`Collaboration_proofs` proves, for any operations, cells and number of openings of
the socket, the types, `NoSilentLoss` and `CommittedInOrder`.  Neither is
inductive: a page could acknowledge an operation of its queue that is not in the
log, or send its second operation before the first.  `IInv` says what each
callback finds: `Sound`, of the client between any two callbacks and of each value
that a synchronization carries over an await, says that the client's counters
name revisions the log has, that what it holds for committed is in the log up to
its base, that an issued operation is in the queue or in the log, and that the
queue is in the order of issue; `SentInOrder`, that what was issued before an
operation the server may still handle, a request given up included, is in the log;
`AnswerIsCommitted`, that an answer names the revision of its operation.
`Rebase`, `Without` and a replay over a history of any length keep `Sound` (lemmas
of their own, the replay by the least revision at which it fails).

The same module proves `NoUnseenOverwriteUnlessRaced` on top of `IInv`.  While nothing
raced but a closed socket (`Calm`), `CareInv` says of every operation what it was
compared with: a waiting one with each revision up to the session's base, a sent one
with each up to its own (`Careful`), and so a request that may still be handled, a
given up one included (`Comparable`).  A comparison is with what the user saw: the
document of an editable page has all that the page counts and has issued (`Full`),
and a later operation saw the earlier ones (`SeenInOrder`).  So an acknowledgement,
which moves the base past an operation of the page itself, leaves later operations
compared with it, and the earlier ones are by `CommittedInOrder` in the log already.
`LoadFits` says for each stage of a synchronization what it has read so far, and
`OneLoad` that there is at most one.  TLC found no violation of `CareInv` on the
constants of `Collaboration.cfg`, nor on larger ones.

`InStepUnlessRaced` has its own invariant, `PlaceInv`.  What a cell went through is
a sequence of operations, the entries of a document that touch the cell; two
documents are the same if they agree cell by cell (`SameDocument`), and so an
operation may pass another that has no cell in common with it.  The document a page shows is that
of its revision with the queue on top (`InPlace`); what a synchronization carries
over an await is a document of that form for the revisions it has read so far
(`LoadPlaced`), and a received revision passes the queue because none of the queue
overlaps it, or is the head of the queue itself.

`RecoveryJournal_proofs` proves, for any number of pages, restarts, drafts and
faults, all the safety properties of `recovery_journal`.  `IInv` holds the
state together (everything anywhere was drafted; a client sequence names one draft
of its session, unless its page was started again).  Five invariants are proved
on top of it: `JournalInv`, that an entry of a queue was written, or is in a write
that the page waits for before it sends, or belongs to a page whose chain failed
and that sends nothing any more; `ChainInv`, that what is in a record or a write,
neither given up nor covered, is in each write behind it and, as long as the page
writes, in its memory; `Replayed`, the invariant behind `ReplayedOnce`, on what
a page applied and what its snapshot holds; and `ApartInv`, behind
`LoadableUnlessRestarted`.  It says of any number of pages, none of them started
again, that what a page has in its record, on the way there and in its memory is
in no other page, and that an operation has one entry there.  The second needs
more than that an operation is queued once: a page also writes what it confirmed,
which agrees with the queue only as an entry that was sent or restored is not
rebased any more, and as an answer is confirmed with the base that was sent
(`Consistent`).  The last is `PurgeInv`, behind `PurgedReturnsCommitted`: what was
purged is an old draft (a new one cannot take its place), and it is committed, or
in no record, no write that waits and no queue of a live page.  The waiting writes
are needed because one of them would put it back into a record.  A step then has
to show only where the operations of a record, a write or a queue come from
(`Comes`): they were in one of them before, are committed, or are new.

`EditHistory_proofs` proves of `EditHistory`, for sheets and stacks of any size and number of
operations, the types and all the safety properties of `edit_history`.  Convergence is about documents that exist nowhere:
`InPlace` says that there are a document for each revision (`History`) and one for
each draft (`Drafts`), such that each follows from the one before, the last of the
revisions is the server's sheet, and the last of the drafts, which start at the
page's revision, is what the page shows; a revision of another user then moves
through all drafts by `UncrossedCommutes`.  That step needs the drafts to stay
within bounds, which they do not have to if rows moved since the base of the first
one.  But then the server will refuse that one (`Doomed`), and
nothing behind it is sent before it is discarded; and if it is not doomed, no
revision under way moved rows (`OthersOnlyWrite`).  `Own` and `Waiting` say that at
most the first draft is committed and not yet received, and that nothing moved
rows or touched its row between its base and its revision; `Drafts` also says what
each draft was aimed at, and the two give `LandsWhereAimed`; `Linked` says that
undone operations left the stack; `Known` what each entry of the stacks knows.

`LatestUndoAccepted` is about the server, which takes an undo only if it is the
opposite of what its target did.  `UndoInv` follows the inverse from the entry
through the queue to the log: a stack entry that waits has the mutation of its draft
(`Matching`), an entry of the latest received revision takes back what was committed
as that revision (`Fresh`), and an undo that waits names an operation the page has
received (`TargetsReceived`) and is its opposite when its turn comes (`HeadUndoes`).
While something is to be redone the latest operation is an undo, of which the undo
stack has no entry (`Parted`): an undo made then comes too late and is not promised
anything.

`HistoryInPlaceUnlessDisplaced` speaks of the top of each stack only, but the top
becomes what was below it.  `Leading` says that from the document of the page
there is, for each entry downwards, a document in which that entry is the next to
be taken back and what it wrote is there (`Chain`), down to the last entry or to
one that the code refuses to replay.  A revision of another user must then pass
through the documents of the stack as it passes through the drafts; it does because
it crosses no draft, and because the row edits of the stack that are not committed
are drafts on the same rows (`Riding`).

`CalculationTasks_proofs` proves, for any cells, references and number of faults,
the types and `WorkerInStep`.  The page counts inputs as known to the worker on the
strength of a result, which by itself says nothing of other tasks.  `Ordered` says
that the port keeps the order of tasks, so that a result the page accepts is that
of the last task and nothing else is under way; `Current`, that the page has not
changed since it sent the task it waits for, and that this task is the last on its
way and says all the worker may lack, or was handled and the worker has the texts
of the page; `Started`, that a task without a snapshot finds an engine.

The module also proves `StaleIsDirtyUnlessAlone`, by `DirtyInv`: the formulas of
an engine that do not have the value of their sources are among those its dirty
cells affect.  That is so on the page and in the worker (`Tracked`); what the
worker or a task holds as dirty is dirty on the page (`Covered`), the last task of
the page names all that is (`Asked`), and the result of that task brings all of it
up to date (`Answered`).  The operators of this module compute by recursive
functions over the references, and before anything can be said of them they must be
shown to exist.  `Sources` and `Owners` recurse on the number of steps.  `Evaluated`
recurses on the references themselves: its functions exist because no formula
depends on itself (`AcyclicAssumption`), by joining the partial ones, and two of them
agree because the formulas on which they differ would contain one that reads no
other of them.  That argument, a least counterexample instead of an induction, also
gives that a value depends on the texts of the sources alone (`ValueFromReads`).

The assumptions of these modules are the bounds' being numbers, and the named
assumptions on the constants in the modules (each operation has cells; the graph
of references is over cells and has no cycle; and so on), all evaluated by TLC in the runs.

Only model-checked:

- liveness (`DeliversEvents`, `CheckpointsCatchUp`, `EditsReachFormulas`), which is
  out of the prover's reach;
- `LatestUndoable` for the operations that the hypotheses of `LatestCanBeTakenBack`
  leave out;
- the statements of the runs that expect a violation, which are false.

## 6. Not modelled

Of the client: columns, ranges, merges, tables and objects in the operational
transform and the history; commands of several mutations, batches and selections;
changes of access other than the purge they cause; presence and cursors; spills,
volatile functions, circular references and external links of the formula engine,
and its function library.  `Collaboration` has no documents, `SharedEditing` no
reordered events, `RecoveryJournal` one synchronization per start: each module
leaves to the others what they are about, and their composition is not checked.

Of the server: other mutations than the four of the model, columns and second sheets, the
resource budgets and data-block checks of commit (they only refuse), range
access and projection of what is read, purge of a workbook, corruption of the
database (checksums), and the components that `PROJECT.json` lists as
`not_modelled`.  Concurrency inside a handler is excluded by the row lock that
each writing handler takes first; readers run in their own transactions on rows
that are only ever added.
