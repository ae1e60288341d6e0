----------------------------- MODULE OperationLog -----------------------------
(***************************************************************************)
(* The operation log of one workbook, as WorkbookOperationService keeps it *)
(* in the database: operation rows, checkpoints, the workbook row and the  *)
(* coordination outbox.  A write is one database transaction that starts   *)
(* by locking the workbook row (findForUpdate), so a handler is one action *)
(* and a crash inside it leaves no trace.  The contents of documents are   *)
(* in WorkbookSnapshots, which extends this module.                        *)
(***************************************************************************)
EXTENDS Integers, FiniteSets, Sequences

CONSTANTS
  Actors,           \* authenticated subjects
  RoleOf,           \* the workbook role of each actor
  OperationIds,     \* identities chosen by clients
  Sessions,         \* client session identities
  Values,           \* cell values
  Requests,         \* the operation envelopes clients submit
  NoOperation,      \* the target of an operation without an undo intent
  SystemActor,      \* SYSTEM_RESTORE_ACTOR
  SystemSession,    \* the client session of a system operation
  RedisEnabled,     \* CoordinationProperties.redisEnabled
  CheckpointLimit,  \* CHECKPOINT_OPERATION_LIMIT
  MaxRevision       \* bound: no operation is committed beyond this revision

MutationIds == {"cell.set", "cell.restore", "rows.inserted", "rows.deleted"}
Mutation == [id : MutationIds, at : Nat, value : Values]
RestoreMutation == [id : {"workbook.restore"}, at : Nat]

\* OperationEnvelope with the subject that authenticated; target and
\* targetBase are its undo intent.
Envelope ==
  [operationId : OperationIds, actor : Actors, session : Sessions,
   sequence : Nat \ {0}, base : Nat, mutations : Seq(Mutation),
   target : OperationIds \cup Nat \cup {NoOperation}, targetBase : Nat]

OperationRow ==
  [operationId : OperationIds \cup Nat, actor : Actors \cup {SystemActor},
   session : Sessions \cup {SystemSession}, sequence : Nat \ {0}, base : Nat,
   mutations : Seq(Mutation \cup RestoreMutation),
   target : OperationIds \cup Nat \cup {NoOperation}, targetBase : Nat,
   revision : Nat \ {0}]

Role == {"owner", "editor", "commenter", "viewer", "none"}
Owners  == {a \in Actors : RoleOf[a] = "owner"}
Editors == {a \in Actors : RoleOf[a] \in {"owner", "editor"}}
Viewers == {a \in Actors : RoleOf[a] # "none"}

ASSUME RolesAssumption == RoleOf \in [Actors -> Role]
ASSUME RequestsAssumption ==
  /\ Requests \subseteq Envelope
  /\ \A request \in Requests : request.mutations # << >>
ASSUME IdentityAssumption ==
  /\ OperationIds \cap Nat = {}
  /\ NoOperation \notin OperationIds \cup Nat
  /\ SystemActor \notin Actors
  /\ SystemSession \notin Sessions
ASSUME BoundsAssumption ==
  /\ CheckpointLimit \in Nat \ {0, 1}
  /\ MaxRevision \in Nat
  /\ RedisEnabled \in BOOLEAN

VARIABLES
  revision,         \* workbooks.revision
  snapshotRevision, \* workbooks.snapshot_revision
  lifecycle,        \* workbooks.lifecycle
  operations,       \* the rows of the operation log
  checkpoints,      \* the revisions that have a checkpoint row
  outbox,           \* <<operationId, revision>> of the outbox rows ever inserted
  replies           \* the commit results that reached some client

vars == <<revision, snapshotRevision, lifecycle, operations, checkpoints,
          outbox, replies>>

Init ==
  /\ revision = 0
  /\ snapshotRevision = 0
  /\ lifecycle = "ACTIVE"
  /\ operations = {}
  /\ checkpoints = {0}
  /\ outbox = {}
  /\ replies = {}

-----------------------------------------------------------------------------
(* Reading the stored history. *)

RowsBetween(after, through) ==
  {row \in operations : after < row.revision /\ row.revision <= through}

\* contiguousOperationRowsBetween does not fail: one row at each revision.
Contiguous(after, through) ==
  /\ \A r \in after + 1 .. through :
       \E row \in operations : row.revision = r
  /\ \A left, right \in RowsBetween(after, through) :
       left.revision = right.revision => left = right

IsRestore(row) ==
  \E i \in DOMAIN row.mutations : row.mutations[i].id = "workbook.restore"

\* applyCommittedEnvelope does not fail: a restore is not replayed, and the
\* target of an undo is an earlier operation of the same subject.
Replayable(row) ==
  /\ ~IsRestore(row)
  /\ row.target # NoOperation =>
       \E earlier \in operations :
         /\ earlier.operationId = row.target
         /\ earlier.actor = row.actor
         /\ earlier.revision < row.revision

CanReplay(after, through) ==
  /\ Contiguous(after, through)
  /\ \A row \in RowsBetween(after, through) : Replayable(row)

IsLatestCheckpoint(c, through) ==
  /\ c \in checkpoints
  /\ c <= through
  /\ \A other \in checkpoints : other <= through => other <= c

\* snapshotAtRevision returns a document instead of raising an error.
Readable(target) ==
  IF target = revision
  THEN snapshotRevision \in checkpoints /\ CanReplay(snapshotRevision, revision)
  ELSE \E c \in checkpoints :
         IsLatestCheckpoint(c, target) /\ CanReplay(c, target)

-----------------------------------------------------------------------------
(* Writing: what every handler that adds a revision does. *)

InsertOperation(row) == operations' = operations \cup {row}

SaveSnapshotOnly(r) ==
  /\ snapshotRevision' = r
  /\ UNCHANGED checkpoints

SaveCheckpoint(r) ==
  /\ snapshotRevision' = r
  /\ checkpoints' = checkpoints \cup {r}

EnqueueUnlessTrashed(operationId, r) ==
  outbox' = IF RedisEnabled /\ lifecycle = "ACTIVE"
            THEN outbox \cup {<<operationId, r>>} ELSE outbox

Enqueue(operationId, r) ==
  outbox' = IF RedisEnabled THEN outbox \cup {<<operationId, r>>} ELSE outbox

\* The result reaches the client, or is lost with the connection.
MaybeReply(actor, operationId, r) ==
  \/ replies' = replies \cup
       {[actor |-> actor, operationId |-> operationId, revision |-> r]}
  \/ UNCHANGED replies

-----------------------------------------------------------------------------
(* Committing an operation. *)

\* requiresExactBase: only cell.set is DISJOINT_CELLS, everything else is
\* EXACT_BASE (for workbook.restore the registry raises an error instead,
\* which rejects the operation just the same).
RequiresExactBase(mutations) ==
  \E i \in DOMAIN mutations : mutations[i].id # "cell.set"

\* The affected range of each mutation here is the single row "at".
Overlap(left, right) ==
  \E i \in DOMAIN left, j \in DOMAIN right : left[i].at = right[j].at

NotYetCommittedByIdentity(request) ==
  \A row \in operations : row.operationId # request.operationId

NotYetCommittedBySequence(request) ==
  \A row \in operations :
    ~ /\ row.actor = request.actor
      /\ row.session = request.session
      /\ row.sequence = request.sequence

NotYetCommitted(request) ==
  \A row \in operations :
    /\ row.operationId # request.operationId
    /\ ~ /\ row.actor = request.actor
         /\ row.session = request.session
         /\ row.sequence = request.sequence

\* validateIntent, except for the content of the inverse mutations.
UndoAllowed(request) ==
  request.target # NoOperation =>
    /\ request.target # request.operationId
    /\ \E row \in operations :
         /\ row.operationId = request.target
         /\ row.actor = request.actor
         /\ row.base = request.targetBase
         /\ row.revision = revision
         /\ Readable(row.revision - 1)
    /\ request.base = revision

BaseAcceptedAgainstNext(request) ==
  /\ request.base <= revision
  /\ RequiresExactBase(request.mutations) => request.base = revision
  /\ \A row \in operations :
       row.revision = request.base + 1 =>
         /\ ~RequiresExactBase(row.mutations)
         /\ ~Overlap(row.mutations, request.mutations)

\* The base is current, or nothing committed since it touches the same cells
\* or moves them.
BaseAccepted(request) ==
  /\ request.base <= revision
  /\ RequiresExactBase(request.mutations) => request.base = revision
  /\ Contiguous(request.base, revision)
  /\ \A row \in RowsBetween(request.base, revision) :
       /\ ~RequiresExactBase(row.mutations)
       /\ ~Overlap(row.mutations, request.mutations)

ShouldCheckpointLate(bytesReached) ==
  /\ snapshotRevision # revision
  /\ \/ Cardinality(RowsBetween(snapshotRevision, revision))
          >= CheckpointLimit
     \/ bytesReached

\* bytesReached abstracts the size of the envelopes since the last checkpoint
\* (CHECKPOINT_BYTES_LIMIT).
ShouldCheckpoint(bytesReached) ==
  /\ snapshotRevision # revision
  /\ \/ Cardinality(RowsBetween(snapshotRevision, revision)) + 1
          >= CheckpointLimit
     \/ bytesReached

RowAtBase(request, r) ==
  [operationId |-> request.operationId, actor |-> request.actor,
   session |-> request.session, sequence |-> request.sequence,
   base |-> request.base, mutations |-> request.mutations,
   target |-> request.target, targetBase |-> request.targetBase,
   revision |-> request.base + 1]

RowOf(request, r) ==
  [operationId |-> request.operationId, actor |-> request.actor,
   session |-> request.session, sequence |-> request.sequence,
   base |-> request.base, mutations |-> request.mutations,
   target |-> request.target, targetBase |-> request.targetBase,
   revision |-> r]

CommitGuard(request) ==
  /\ lifecycle = "ACTIVE"
  /\ request.actor \in Editors
  /\ NotYetCommitted(request)
  /\ UndoAllowed(request)
  /\ BaseAccepted(request)
  /\ Readable(revision)
  /\ revision < MaxRevision

Commit(request, bytesReached) ==
  /\ CommitGuard(request)
  /\ revision' = revision + 1
  /\ InsertOperation(RowOf(request, revision + 1))
  /\ Enqueue(request.operationId, revision + 1)
  /\ IF ShouldCheckpoint(bytesReached)
     THEN SaveCheckpoint(revision + 1)
     ELSE UNCHANGED <<snapshotRevision, checkpoints>>
  /\ MaybeReply(request.actor, request.operationId, revision + 1)
  /\ UNCHANGED lifecycle

-----------------------------------------------------------------------------
(* Asking again. *)

Answer(actor, row) ==
  /\ replies' = replies \cup
       {[actor |-> actor, operationId |-> row.operationId,
         revision |-> row.revision]}
  /\ UNCHANGED <<revision, snapshotRevision, lifecycle, operations,
                 checkpoints, outbox>>

SameIdentity(row, request) == row.operationId = request.operationId

\* A known identity with other content, or of another subject, is refused.
SameRequest(row, request) == row = RowOf(request, row.revision)

\* The same envelope arrives again: the stored result is returned.
Resubmit(request) ==
  /\ lifecycle = "ACTIVE"
  /\ request.actor \in Viewers
  /\ \E row \in operations :
       SameRequest(row, request) /\ Answer(request.actor, row)

\* GET .../operations/{operationId}: a client asks what became of its own
\* operation.
OperationResult(actor, operationId) ==
  /\ lifecycle = "ACTIVE"
  /\ actor \in Viewers
  /\ \E row \in operations :
       /\ row.operationId = operationId
       /\ row.actor = actor
       /\ Answer(actor, row)

-----------------------------------------------------------------------------
(* Checkpoints, restoring an earlier revision, the trash. *)

\* When snapshotRevision = revision the handler only reads.
Checkpoint(actor) ==
  /\ lifecycle = "ACTIVE"
  /\ actor \in Editors
  /\ snapshotRevision # revision
  /\ Readable(revision)
  /\ SaveCheckpoint(revision)
  /\ UNCHANGED <<revision, lifecycle, operations, outbox, replies>>

RestoreRowAtBase(target, r) ==
  [operationId |-> r, actor |-> SystemActor, session |-> SystemSession,
   sequence |-> r, base |-> r - 1,
   mutations |-> <<[id |-> "workbook.restore", at |-> target]>>,
   target |-> NoOperation, targetBase |-> 0, revision |-> r - 1]

\* The identity of a restore is a fresh UUID: the number of its revision
\* stands for it, since client identities are not numbers.
RestoreRow(target, r) ==
  [operationId |-> r, actor |-> SystemActor, session |-> SystemSession,
   sequence |-> r, base |-> r - 1,
   mutations |-> <<[id |-> "workbook.restore", at |-> target]>>,
   target |-> NoOperation, targetBase |-> 0, revision |-> r]

\* The restore handler does not look at the lifecycle.
Restore(actor, target) ==
  /\ actor \in Owners
  /\ target <= revision
  /\ Readable(target)
  /\ revision < MaxRevision
  /\ revision' = revision + 1
  /\ InsertOperation(RestoreRow(target, revision + 1))
  /\ Enqueue(revision + 1, revision + 1)
  /\ SaveCheckpoint(revision + 1)
  /\ MaybeReply(actor, revision + 1, revision + 1)
  /\ UNCHANGED lifecycle

MoveToTrash(actor) ==
  /\ actor \in Owners
  /\ lifecycle = "ACTIVE"
  /\ lifecycle' = "TRASHED"
  /\ UNCHANGED <<revision, snapshotRevision, operations, checkpoints, outbox,
                 replies>>

RestoreFromTrash(actor) ==
  /\ actor \in Owners
  /\ lifecycle = "TRASHED"
  /\ lifecycle' = "ACTIVE"
  /\ UNCHANGED <<revision, snapshotRevision, operations, checkpoints, outbox,
                 replies>>

Next ==
  \/ \E request \in Requests, bytesReached \in BOOLEAN :
       Commit(request, bytesReached)
  \/ \E request \in Requests : Resubmit(request)
  \/ \E actor \in Actors, operationId \in OperationIds :
       OperationResult(actor, operationId)
  \/ \E actor \in Actors : Checkpoint(actor)
  \/ \E actor \in Actors, target \in 0 .. MaxRevision : Restore(actor, target)
  \/ \E actor \in Actors : MoveToTrash(actor)
  \/ \E actor \in Actors : RestoreFromTrash(actor)

Spec == Init /\ [][Next]_vars

-----------------------------------------------------------------------------
(* What makes the log correct. *)

\* The variables keep their types; in particular every row is well formed.
TypeOK ==
  /\ revision \in 0 .. MaxRevision
  /\ snapshotRevision \in 0 .. revision
  /\ lifecycle \in {"ACTIVE", "TRASHED"}
  /\ operations \subseteq OperationRow
  /\ checkpoints \subseteq 0 .. revision
  /\ outbox \subseteq (OperationIds \cup Nat) \X Nat
  /\ replies \subseteq [actor : Actors, operationId : OperationIds \cup Nat,
                        revision : Nat]

\* Every revision up to the current one was made by exactly one operation,
\* and there is no other operation: contiguousOperationRowsBetween can never
\* report a corrupt history, whatever mixture of commits and restores led here.
ContiguousHistory ==
  /\ {row.revision : row \in operations} = 1 .. revision
  /\ \A left, right \in operations :
       left.revision = right.revision => left = right

\* However often a client repeats a request, renumbers it or reuses an
\* identity, an operation identity and a client sequence are committed once:
\* the unique keys of the operation table are never what stops a commit.
CommittedOnce ==
  \A left, right \in operations :
    \/ left = right
    \/ /\ left.operationId # right.operationId
       /\ <<left.actor, left.session, left.sequence>>
            # <<right.actor, right.session, right.sequence>>

\* An operation that was committed on a stale base had seen every earlier
\* operation that moves cells or touches a cell it writes: nothing it could not
\* have seen is overwritten (the intervening-operations check of commit).
NoUnseenOverwrite ==
  \A row \in operations : \A unseen \in RowsBetween(row.base, row.revision - 1) :
    /\ ~RequiresExactBase(row.mutations)
    /\ ~RequiresExactBase(unseen.mutations)
    /\ ~Overlap(row.mutations, unseen.mutations)

\* readRevision answers for every revision there has been, by replaying from
\* the latest checkpoint at or before it: no restore without its own checkpoint
\* is ever in the way, and the target of every undo to replay is there.
RevisionsReadable == \A r \in 0 .. revision : Readable(r)

\* The number of operations a reader of the current revision must replay stays
\* under CHECKPOINT_OPERATION_LIMIT.
BoundedReplay == revision - snapshotRevision < CheckpointLimit

\* What a client has been told of an operation is what the log says of it, and
\* only the subject that submitted an operation is told (a restore, which the
\* system submits, answers the owner that asked for it).
RepliesDurable ==
  \A reply \in replies : \E row \in operations :
    /\ row.operationId = reply.operationId
    /\ row.revision = reply.revision
    /\ IF IsRestore(row) THEN reply.actor \in Owners ELSE row.actor = reply.actor

\* Where instances are coordinated through Redis, every committed operation
\* has its event, under its own revision, and there is no event of anything else.
OutboxComplete ==
  RedisEnabled =>
    outbox = {<<row.operationId, row.revision>> : row \in operations}

\* Committed history is never rewritten: no step drops or changes a row or a
\* checkpoint, and the revisions of the workbook row never go back, not even
\* when an earlier revision is restored.
HistoryGrows ==
  /\ operations \subseteq operations'
  /\ checkpoints \subseteq checkpoints'
  /\ revision <= revision'
  /\ snapshotRevision <= snapshotRevision'
HistoryImmutable == [][HistoryGrows]_vars

\* To the clients the log is the commit service: an identity is given one
\* revision, and every answer about it, first or repeated, names that revision.
Service == INSTANCE CommitService WITH
  Identities <- OperationIds \cup 1 .. MaxRevision,
  length     <- revision,
  assigned   <- {<<row.operationId, row.revision>> : row \in operations},
  answers    <- {<<reply.operationId, reply.revision>> : reply \in replies}
ImplementsCommitService == Service!Spec
=============================================================================
