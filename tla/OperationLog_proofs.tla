------------------------- MODULE OperationLog_proofs -------------------------
(***************************************************************************)
(* Proofs about OperationLog, for every set of actors, requests and every  *)
(* bound.  No property of the log but TypeOK is inductive by itself: that  *)
(* stored revisions can be read depends on where restores and checkpoints  *)
(* are, and that in turn on who may submit what.  LogInv says all of it.   *)
(***************************************************************************)
EXTENDS OperationLog, FiniteSetTheorems, TLAPS

\* A row was submitted by a client, or is a restore made by the system, which
\* has the identity, the sequence and the checkpoint of its revision.
ByClient(row) ==
  row.actor \in Actors /\ row.operationId \in OperationIds /\ ~IsRestore(row)

BySystem(row) ==
  /\ row.actor = SystemActor
  /\ row.operationId = row.revision
  /\ row.sequence = row.revision
  /\ IsRestore(row)

RowSources == \A row \in operations : ByClient(row) \/ BySystem(row)

RestoresCheckpointed ==
  \A row \in operations : BySystem(row) => row.revision \in checkpoints

HasTarget(row) ==
  row.target # NoOperation =>
    \E earlier \in operations :
      /\ earlier.operationId = row.target
      /\ earlier.actor = row.actor
      /\ earlier.revision < row.revision

UndoTargetsKept == \A row \in operations : HasTarget(row)

\* The snapshot is the last checkpoint, and there is a last one before each
\* revision.
CheckpointsCover ==
  /\ snapshotRevision \in checkpoints
  /\ \A c \in checkpoints : c <= snapshotRevision
  /\ \A r \in 0 .. revision : \E c \in checkpoints : IsLatestCheckpoint(c, r)

LogInv ==
  /\ TypeOK
  /\ ContiguousHistory
  /\ CommittedOnce
  /\ RowSources
  /\ RestoresCheckpointed
  /\ UndoTargetsKept
  /\ CheckpointsCover
  /\ NoUnseenOverwrite
  /\ BoundedReplay
  /\ RepliesDurable
  /\ OutboxComplete

-----------------------------------------------------------------------------
(* The rows that commits and restores add. *)

\* Sequences over a smaller set of mutations are sequences over a larger one.
LEMMA SeqMonotone ==
  ASSUME NEW S, NEW T, S \subseteq T
  PROVE  Seq(S) \subseteq Seq(T)
  OBVIOUS

\* A committed row is well formed and is not a restore.
LEMMA CommittedRow ==
  ASSUME NEW request \in Requests, NEW r \in Nat \ {0}
  PROVE  /\ RowOf(request, r) \in OperationRow
         /\ ByClient(RowOf(request, r))
<1>1. request \in Envelope
  BY RequestsAssumption
<1>2. request.mutations \in Seq(Mutation)
  BY <1>1 DEF Envelope
<1>3. request.mutations \in Seq(Mutation \cup RestoreMutation)
  BY <1>2, SeqMonotone, Mutation \subseteq Mutation \cup RestoreMutation
<1>4. ~IsRestore(RowOf(request, r))
  <2>1. \A i \in DOMAIN request.mutations : request.mutations[i] \in Mutation
    BY <1>2
  <2>2. \A m \in Mutation : m.id # "workbook.restore"
    BY DEF Mutation, MutationIds
  <2>3. RowOf(request, r).mutations = request.mutations
    BY DEF RowOf
  <2> QED
    BY <2>1, <2>2, <2>3 DEF IsRestore
<1>5. RowOf(request, r) \in OperationRow
  BY <1>1, <1>3 DEF RowOf, OperationRow, Envelope
<1> QED
  BY <1>1, <1>4, <1>5 DEF ByClient, RowOf, Envelope

\* So is the row of a restore, which says so.
LEMMA RestoredRow ==
  ASSUME NEW target \in Nat, NEW r \in Nat \ {0}
  PROVE  /\ RestoreRow(target, r) \in OperationRow
         /\ BySystem(RestoreRow(target, r))
<1>1. [id |-> "workbook.restore", at |-> target] \in RestoreMutation
  BY DEF RestoreMutation
<1>2. RestoreRow(target, r).mutations \in Seq(Mutation \cup RestoreMutation)
  BY <1>1 DEF RestoreRow
<1>3. IsRestore(RestoreRow(target, r))
  BY DEF IsRestore, RestoreRow
<1> QED
  BY <1>2, <1>3 DEF RestoreRow, OperationRow, BySystem

-----------------------------------------------------------------------------
(* What adding a row at the next revision does to the history. *)

\* The rows up to the old revision are the same before and after.
LEMMA OldRowsKept ==
  ASSUME TypeOK, NEW row, row.revision = revision + 1,
         operations' = operations \cup {row},
         NEW after \in Int, NEW through \in Int, through <= revision
  PROVE  RowsBetween(after, through)' = RowsBetween(after, through)
  BY DEF RowsBetween, TypeOK

\* A row at the next revision continues the history that
\* contiguousOperationRowsBetween reads.
LEMMA AppendContiguous ==
  ASSUME TypeOK, ContiguousHistory, NEW row, row.revision = revision + 1,
         operations' = operations \cup {row}, revision' = revision + 1
  PROVE  ContiguousHistory'
<1>1. revision \in Nat
  BY BoundsAssumption DEF TypeOK
<1>2. \A o \in operations : o.revision \in 1 .. revision
  BY DEF ContiguousHistory
<1>3. {o.revision : o \in operations'} = 1 .. revision + 1
  BY <1>1, <1>2 DEF ContiguousHistory
<1>4. \A left, right \in operations' : left.revision = right.revision => left = right
  BY <1>1, <1>2 DEF ContiguousHistory
<1> QED
  BY <1>3, <1>4 DEF ContiguousHistory

\* The targets of stored undos are still there after a row is added.
LEMMA AppendKeepsTargets ==
  ASSUME UndoTargetsKept, NEW row, HasTarget(row),
         operations' = operations \cup {row}
  PROVE  UndoTargetsKept'
  BY DEF UndoTargetsKept, HasTarget

\* A row that passed the check of the intervening operations can be added
\* without an unseen overwrite.
LEMMA AppendKeepsUnseen ==
  ASSUME TypeOK, ContiguousHistory, NoUnseenOverwrite,
         NEW row, row.revision = revision + 1, row.base \in Nat,
         operations' = operations \cup {row},
         \A unseen \in RowsBetween(row.base, revision) :
           /\ ~RequiresExactBase(row.mutations)
           /\ ~RequiresExactBase(unseen.mutations)
           /\ ~Overlap(row.mutations, unseen.mutations)
  PROVE  NoUnseenOverwrite'
<1> SUFFICES ASSUME NEW written \in operations',
                    NEW unseen \in RowsBetween(written.base, written.revision - 1)'
             PROVE  /\ ~RequiresExactBase(written.mutations)
                    /\ ~RequiresExactBase(unseen.mutations)
                    /\ ~Overlap(written.mutations, unseen.mutations)
  BY DEF NoUnseenOverwrite
<1>1. revision \in Nat
  BY BoundsAssumption DEF TypeOK
<1>2. unseen \in operations'
  BY DEF RowsBetween
<1>3. CASE written \in operations
  <2>1. written.base \in Int /\ written.revision \in 1 .. revision
    BY <1>3 DEF TypeOK, OperationRow, ContiguousHistory
  <2>2. unseen \in RowsBetween(written.base, written.revision - 1)
    BY <1>1, <2>1, OldRowsKept
  <2> QED
    BY <1>3, <2>2 DEF NoUnseenOverwrite
<1>4. CASE written = row
  <2>1. unseen \in RowsBetween(row.base, revision)
    BY <1>1, <1>4, OldRowsKept
  <2> QED
    BY <1>4, <2>1
<1> QED
  BY <1>3, <1>4

\* What clients were told stays true after a row is added, and the answer to
\* the new operation is true as well.
LEMMA AppendKeepsReplies ==
  ASSUME RepliesDurable, NEW row, NEW reply,
         operations' = operations \cup {row},
         replies' \in {replies, replies \cup {reply}},
         reply.operationId = row.operationId,
         reply.revision = row.revision,
         IF IsRestore(row) THEN reply.actor \in Owners ELSE row.actor = reply.actor
  PROVE  RepliesDurable'
<1>1. \A o : IsRestore(o)' = IsRestore(o)
  BY DEF IsRestore
<1> QED
  BY <1>1 DEF RepliesDurable

\* A row and its event, added together, keep the outbox equal to the log.
LEMMA AppendKeepsOutbox ==
  ASSUME OutboxComplete, NEW row, operations' = operations \cup {row},
         Enqueue(row.operationId, row.revision)
  PROVE  OutboxComplete'
  BY DEF OutboxComplete, Enqueue

-----------------------------------------------------------------------------
(* Checkpoints. *)

\* A checkpoint at the current revision is the latest from there on, and
\* leaves the earlier ones what they were.
LEMMA SavedCheckpointCovers ==
  ASSUME TypeOK, CheckpointsCover, revision' \in {revision, revision + 1},
         SaveCheckpoint(revision')
  PROVE  CheckpointsCover'
<1>1. revision \in Nat /\ checkpoints \subseteq 0 .. revision
  BY BoundsAssumption DEF TypeOK
<1>2. snapshotRevision' = revision' /\ checkpoints' = checkpoints \cup {revision'}
  BY DEF SaveCheckpoint
<1>3. ASSUME NEW r \in 0 .. revision'
      PROVE  \E c \in checkpoints' : IsLatestCheckpoint(c, r)'
  <2>1. CASE r = revision'
    BY <1>1, <1>2, <2>1 DEF IsLatestCheckpoint
  <2>2. CASE r < revision'
    <3>1. r \in 0 .. revision
      BY <1>1, <2>2
    <3>2. PICK c \in checkpoints : IsLatestCheckpoint(c, r)
      BY <3>1 DEF CheckpointsCover
    <3> QED
      BY <1>1, <1>2, <2>2, <3>2 DEF IsLatestCheckpoint
  <2> QED
    BY <1>1, <2>1, <2>2
<1>4. \A c \in checkpoints' : c <= snapshotRevision'
  BY <1>1, <1>2
<1> QED
  BY <1>2, <1>3, <1>4 DEF CheckpointsCover

\* A revision without a checkpoint is covered by the one before it.
LEMMA NextRevisionCovered ==
  ASSUME TypeOK, CheckpointsCover, revision' = revision + 1,
         UNCHANGED <<snapshotRevision, checkpoints>>
  PROVE  CheckpointsCover'
<1>1. revision \in Nat /\ checkpoints \subseteq 0 .. revision
  BY BoundsAssumption DEF TypeOK
<1>2. ASSUME NEW r \in 0 .. revision'
      PROVE  \E c \in checkpoints' : IsLatestCheckpoint(c, r)'
  <2>1. CASE r = revision'
    BY <1>1, <2>1 DEF IsLatestCheckpoint, CheckpointsCover
  <2>2. CASE r < revision'
    <3>1. r \in 0 .. revision
      BY <1>1, <2>2
    <3> QED
      BY <3>1 DEF IsLatestCheckpoint, CheckpointsCover
  <2> QED
    BY <1>1, <2>1, <2>2
<1> QED
  BY <1>2 DEF CheckpointsCover

\* There are as many rows in a part of the history as there are revisions.
LEMMA RowsCounted ==
  ASSUME ContiguousHistory, revision \in Nat,
         NEW after \in 0 .. revision
  PROVE  Cardinality(RowsBetween(after, revision)) = revision - after
<1> DEFINE rowAt == [r \in after + 1 .. revision |->
                       CHOOSE row \in operations : row.revision = r]
<1>1. ASSUME NEW r \in after + 1 .. revision
      PROVE  rowAt[r] \in operations /\ rowAt[r].revision = r
  BY DEF ContiguousHistory
<1>2. rowAt \in [after + 1 .. revision -> RowsBetween(after, revision)]
  BY <1>1 DEF RowsBetween
<1>3. \A r, q \in after + 1 .. revision : rowAt[r] = rowAt[q] => r = q
  BY <1>1
<1>4. ASSUME NEW row \in RowsBetween(after, revision)
      PROVE  \E r \in after + 1 .. revision : rowAt[r] = row
  <2>1. row \in operations /\ row.revision \in after + 1 .. revision
    BY <1>1 DEF RowsBetween, ContiguousHistory
  <2>2. rowAt[row.revision] = row
    BY <1>1, <2>1 DEF ContiguousHistory
  <2> QED
    BY <2>1, <2>2
<1> HIDE DEF rowAt
<1>5. rowAt \in Bijection(after + 1 .. revision, RowsBetween(after, revision))
  BY <1>2, <1>3, <1>4 DEF Bijection, Injection, Surjection, IsInjective
<1>6. ExistsBijection(after + 1 .. revision, RowsBetween(after, revision))
  BY <1>5 DEF ExistsBijection
<1>7. /\ IsFiniteSet(after + 1 .. revision)
      /\ Cardinality(after + 1 .. revision) = revision - after
  <2>1. after + 1 \in Int /\ revision \in Int /\ after <= revision
    OBVIOUS
  <2>2. /\ IsFiniteSet(after + 1 .. revision)
        /\ Cardinality(after + 1 .. revision) =
             IF after + 1 > revision THEN 0 ELSE revision - (after + 1) + 1
    BY <2>1, FS_Interval, Zenon
  <2> QED
    BY <2>1, <2>2
<1> QED
  BY <1>6, <1>7, FS_Bijection

\* Every revision of a history that satisfies the invariant can be read.
LEMMA HistoryReadable ==
  ASSUME LogInv
  PROVE  RevisionsReadable
<1> USE DEF LogInv
<1>1. revision \in Nat
  BY BoundsAssumption DEF TypeOK
<1>2. ASSUME NEW c \in checkpoints, NEW r \in 0 .. revision,
             IsLatestCheckpoint(c, r)
      PROVE  CanReplay(c, r)
  <2>1. c \in 0 .. revision
    BY DEF TypeOK
  <2>2. Contiguous(c, r)
    BY <1>1, <2>1 DEF Contiguous, RowsBetween, ContiguousHistory
  <2>3. ASSUME NEW row \in RowsBetween(c, r)
        PROVE  Replayable(row)
    <3>1. row \in operations /\ c < row.revision /\ row.revision <= r
      BY DEF RowsBetween
    <3>2. row.revision \notin checkpoints
      BY <1>2, <2>1, <3>1 DEF IsLatestCheckpoint, ContiguousHistory
    <3>3. ~IsRestore(row)
      BY <3>1, <3>2 DEF RowSources, RestoresCheckpointed, ByClient
    <3> QED
      BY <3>1, <3>3 DEF Replayable, UndoTargetsKept, HasTarget
  <2> QED
    BY <2>2, <2>3 DEF CanReplay
<1>3. IsLatestCheckpoint(snapshotRevision, revision)
  BY DEF CheckpointsCover, IsLatestCheckpoint, TypeOK
<1>4. ASSUME NEW r \in 0 .. revision
      PROVE  Readable(r)
  <2>1. CASE r = revision
    BY <1>1, <1>2, <1>3, <2>1 DEF Readable, IsLatestCheckpoint
  <2>2. CASE r # revision
    BY <1>2, <2>2 DEF Readable, CheckpointsCover
  <2> QED
    BY <2>1, <2>2
<1> QED
  BY <1>4 DEF RevisionsReadable

-----------------------------------------------------------------------------
(* The actions. *)

\* Operators over rows do not depend on the state.
LEMMA RowOperatorsRigid ==
  /\ \A row : IsRestore(row)' = IsRestore(row)
  /\ \A row : ByClient(row)' = ByClient(row)
  /\ \A row : BySystem(row)' = BySystem(row)
  BY DEF IsRestore, ByClient, BySystem

\* A row with a new identity and a new client sequence keeps them unique.
LEMMA AppendKeepsIdentities ==
  ASSUME CommittedOnce, NEW row, operations' = operations \cup {row},
         \A old \in operations :
           /\ old.operationId # row.operationId
           /\ <<old.actor, old.session, old.sequence>>
                # <<row.actor, row.session, row.sequence>>
  PROVE  CommittedOnce'
  BY DEF CommittedOnce

\* A commit preserves the invariant.
LEMMA CommitPreserves ==
  ASSUME LogInv, NEW request \in Requests, NEW bytesReached \in BOOLEAN,
         Commit(request, bytesReached)
  PROVE  LogInv'
<1> DEFINE row == RowOf(request, revision + 1)
           reply == [actor |-> request.actor, operationId |-> request.operationId,
                     revision |-> revision + 1]
<1>1. /\ TypeOK /\ ContiguousHistory /\ CommittedOnce /\ RowSources
      /\ RestoresCheckpointed /\ UndoTargetsKept /\ CheckpointsCover
      /\ NoUnseenOverwrite /\ BoundedReplay /\ RepliesDurable /\ OutboxComplete
  BY DEF LogInv
<1>2. /\ CommitGuard(request)
      /\ revision' = revision + 1
      /\ operations' = operations \cup {row}
      /\ Enqueue(request.operationId, revision + 1)
      /\ replies' \in {replies, replies \cup {reply}}
      /\ lifecycle' = lifecycle
  BY DEF Commit, InsertOperation, MaybeReply
<1>3. \/ SaveCheckpoint(revision')
      \/ ~ShouldCheckpoint(bytesReached) /\ UNCHANGED <<snapshotRevision, checkpoints>>
  BY DEF Commit
<1>4. revision \in Nat /\ revision + 1 \in Nat \ {0} /\ revision + 1 <= MaxRevision
  BY <1>1, <1>2, BoundsAssumption DEF TypeOK, CommitGuard
<1>5. row \in OperationRow /\ ByClient(row)
  BY <1>4, CommittedRow
<1>6. /\ row.operationId = request.operationId /\ row.actor = request.actor
      /\ row.session = request.session /\ row.sequence = request.sequence
      /\ row.base = request.base /\ row.mutations = request.mutations
      /\ row.target = request.target /\ row.revision = revision + 1
  BY DEF RowOf
<1>7. request \in Envelope
  BY RequestsAssumption
<1> HIDE DEF row
<1>8. TypeOK'
  <2>1. reply \in [actor : Actors, operationId : OperationIds \cup Nat, revision : Nat]
    BY <1>4, <1>7 DEF Envelope
  <2>2. outbox' \subseteq (OperationIds \cup Nat) \X Nat
    BY <1>1, <1>2, <1>4, <1>7 DEF TypeOK, Enqueue, Envelope
  <2>3. operations' \subseteq OperationRow
    BY <1>1, <1>2, <1>5 DEF TypeOK
  <2>4. snapshotRevision' \in 0 .. revision' /\ checkpoints' \subseteq 0 .. revision'
    <3>1. CASE SaveCheckpoint(revision')
      BY <1>1, <1>2, <1>4, <3>1 DEF TypeOK, SaveCheckpoint
    <3>2. CASE UNCHANGED <<snapshotRevision, checkpoints>>
      BY <1>1, <1>2, <1>4, <3>2 DEF TypeOK
    <3> QED
      BY <1>3, <3>1, <3>2
  <2> QED
    BY <1>1, <1>2, <1>4, <2>1, <2>2, <2>3, <2>4 DEF TypeOK
<1>9. ContiguousHistory'
  BY <1>1, <1>2, <1>6, AppendContiguous
<1>10. CommittedOnce'
  BY <1>1, <1>2, <1>6, AppendKeepsIdentities DEF CommitGuard, NotYetCommitted
<1>11. RowSources'
  BY <1>1, <1>2, <1>5, RowOperatorsRigid DEF RowSources
<1>12. RestoresCheckpointed'
  <2>1. ~BySystem(row)
    BY <1>5, IdentityAssumption DEF BySystem, ByClient
  <2>2. checkpoints \subseteq checkpoints'
    BY <1>3 DEF SaveCheckpoint
  <2> QED
    BY <1>1, <1>2, <2>1, <2>2, RowOperatorsRigid DEF RestoresCheckpointed
<1>13. UndoTargetsKept'
  <2>1. HasTarget(row)
    BY <1>2, <1>4, <1>6 DEF CommitGuard, UndoAllowed, HasTarget
  <2> QED
    BY <1>1, <1>2, <2>1, AppendKeepsTargets
<1>14. CheckpointsCover'
  BY <1>1, <1>2, <1>3, SavedCheckpointCovers, NextRevisionCovered
<1>15. NoUnseenOverwrite'
  <2>1. ASSUME NEW unseen \in RowsBetween(request.base, revision)
        PROVE  /\ ~RequiresExactBase(request.mutations)
               /\ ~RequiresExactBase(unseen.mutations)
               /\ ~Overlap(request.mutations, unseen.mutations)
    <3>1. BaseAccepted(request)
      BY <1>2 DEF CommitGuard
    <3>2. ~RequiresExactBase(unseen.mutations) /\ ~Overlap(unseen.mutations, request.mutations)
      BY <3>1 DEF BaseAccepted
    <3>3. request.base # revision
      BY <1>1, <1>4 DEF RowsBetween, ContiguousHistory
    <3> QED
      BY <3>1, <3>2, <3>3 DEF BaseAccepted, Overlap
  <2>2. row.base \in Nat
    BY <1>6, <1>7 DEF Envelope
  <2> QED
    BY <1>1, <1>2, <1>6, <2>1, <2>2, AppendKeepsUnseen
<1>16. BoundedReplay'
  <2>1. CASE SaveCheckpoint(revision')
    BY <1>2, <1>4, <2>1, BoundsAssumption DEF BoundedReplay, SaveCheckpoint
  <2>2. CASE ~ShouldCheckpoint(bytesReached) /\ UNCHANGED <<snapshotRevision, checkpoints>>
    <3>1. snapshotRevision \in 0 .. revision
      BY <1>1 DEF TypeOK
    <3>2. Cardinality(RowsBetween(snapshotRevision, revision)) = revision - snapshotRevision
      BY <1>1, <1>4, <3>1, RowsCounted
    <3> QED
      BY <1>2, <1>4, <2>2, <3>1, <3>2, BoundsAssumption DEF BoundedReplay, ShouldCheckpoint
  <2> QED
    BY <1>3, <2>1, <2>2
<1>17. RepliesDurable'
  <2>1. row.actor = reply.actor /\ ~IsRestore(row)
    BY <1>5, <1>6 DEF ByClient
  <2> QED
    BY <1>1, <1>2, <1>6, <2>1, AppendKeepsReplies
<1>18. OutboxComplete'
  BY <1>1, <1>2, <1>6, AppendKeepsOutbox
<1> QED
  BY <1>8, <1>9, <1>10, <1>11, <1>12, <1>13, <1>14, <1>15, <1>16, <1>17, <1>18 DEF LogInv

\* So does restoring an earlier revision.
LEMMA RestorePreserves ==
  ASSUME LogInv, NEW actor \in Actors, NEW target \in 0 .. MaxRevision,
         Restore(actor, target)
  PROVE  LogInv'
<1> DEFINE row == RestoreRow(target, revision + 1)
           reply == [actor |-> actor, operationId |-> revision + 1,
                     revision |-> revision + 1]
<1>1. /\ TypeOK /\ ContiguousHistory /\ CommittedOnce /\ RowSources
      /\ RestoresCheckpointed /\ UndoTargetsKept /\ CheckpointsCover
      /\ NoUnseenOverwrite /\ BoundedReplay /\ RepliesDurable /\ OutboxComplete
  BY DEF LogInv
<1>2. /\ actor \in Owners
      /\ revision' = revision + 1
      /\ operations' = operations \cup {row}
      /\ Enqueue(revision + 1, revision + 1)
      /\ replies' \in {replies, replies \cup {reply}}
      /\ SaveCheckpoint(revision')
      /\ lifecycle' = lifecycle
  BY DEF Restore, InsertOperation, MaybeReply
<1>3. /\ revision \in Nat /\ revision + 1 \in Nat \ {0} /\ revision + 1 <= MaxRevision
      /\ target \in Nat
  BY <1>1, BoundsAssumption DEF TypeOK, Restore
<1>4. row \in OperationRow /\ BySystem(row)
  BY <1>3, RestoredRow
<1>5. /\ row.operationId = revision + 1 /\ row.actor = SystemActor
      /\ row.sequence = revision + 1 /\ row.base = revision
      /\ row.target = NoOperation /\ row.revision = revision + 1
  BY <1>3 DEF RestoreRow
<1> HIDE DEF row
<1>6. TypeOK'
  <2>1. reply \in [actor : Actors, operationId : OperationIds \cup Nat, revision : Nat]
    BY <1>3
  <2>2. outbox' \subseteq (OperationIds \cup Nat) \X Nat
    BY <1>1, <1>2, <1>3 DEF TypeOK, Enqueue
  <2>3. operations' \subseteq OperationRow
    BY <1>1, <1>2, <1>4 DEF TypeOK
  <2>4. snapshotRevision' \in 0 .. revision' /\ checkpoints' \subseteq 0 .. revision'
    BY <1>1, <1>2, <1>3 DEF TypeOK, SaveCheckpoint
  <2> QED
    BY <1>1, <1>2, <1>3, <2>1, <2>2, <2>3, <2>4 DEF TypeOK
<1>7. ContiguousHistory'
  BY <1>1, <1>2, <1>5, AppendContiguous
<1>8. CommittedOnce'
  <2>1. ASSUME NEW old \in operations
        PROVE  /\ old.operationId # row.operationId
               /\ <<old.actor, old.session, old.sequence>>
                    # <<row.actor, row.session, row.sequence>>
    <3>1. old.revision # revision + 1
      BY <1>1, <1>3 DEF ContiguousHistory
    <3> QED
      BY <1>1, <1>3, <1>5, <3>1, IdentityAssumption DEF RowSources, ByClient, BySystem
  <2> QED
    BY <1>1, <1>2, <2>1, AppendKeepsIdentities
<1>9. RowSources'
  BY <1>1, <1>2, <1>4, RowOperatorsRigid DEF RowSources
<1>10. RestoresCheckpointed'
  BY <1>1, <1>2, <1>5, RowOperatorsRigid DEF RestoresCheckpointed, SaveCheckpoint
<1>11. UndoTargetsKept'
  BY <1>1, <1>2, <1>5, AppendKeepsTargets DEF HasTarget
<1>12. CheckpointsCover'
  BY <1>1, <1>2, SavedCheckpointCovers
<1>13. NoUnseenOverwrite'
  <2>1. RowsBetween(row.base, revision) = {}
    BY <1>1, <1>3, <1>5 DEF RowsBetween, ContiguousHistory
  <2> QED
    BY <1>1, <1>2, <1>3, <1>5, <2>1, AppendKeepsUnseen
<1>14. BoundedReplay'
  BY <1>2, <1>3, BoundsAssumption DEF BoundedReplay, SaveCheckpoint
<1>15. RepliesDurable'
  <2>1. IsRestore(row)
    BY <1>4 DEF BySystem
  <2> QED
    BY <1>1, <1>2, <1>5, <2>1, AppendKeepsReplies
<1>16. OutboxComplete'
  BY <1>1, <1>2, <1>5, AppendKeepsOutbox
<1> QED
  BY <1>6, <1>7, <1>8, <1>9, <1>10, <1>11, <1>12, <1>13, <1>14, <1>15, <1>16 DEF LogInv

\* So does a checkpoint, which adds no revision.
LEMMA CheckpointPreserves ==
  ASSUME LogInv, NEW actor \in Actors, Checkpoint(actor)
  PROVE  LogInv'
<1>1. /\ TypeOK /\ CheckpointsCover /\ RestoresCheckpointed
  BY DEF LogInv
<1>2. /\ SaveCheckpoint(revision)
      /\ UNCHANGED <<revision, lifecycle, operations, outbox, replies>>
  BY DEF Checkpoint
<1>3. revision \in Nat
  BY <1>1, BoundsAssumption DEF TypeOK
<1>4. TypeOK'
  BY <1>1, <1>2, <1>3 DEF TypeOK, SaveCheckpoint
<1>5. CheckpointsCover'
  BY <1>1, <1>2, SavedCheckpointCovers
<1>6. RestoresCheckpointed'
  BY <1>1, <1>2, RowOperatorsRigid DEF RestoresCheckpointed, SaveCheckpoint
<1>7. BoundedReplay'
  BY <1>2, <1>3, BoundsAssumption DEF BoundedReplay, SaveCheckpoint
<1>8. /\ ContiguousHistory' /\ CommittedOnce' /\ RowSources' /\ UndoTargetsKept'
      /\ NoUnseenOverwrite' /\ OutboxComplete'
  BY <1>2, RowOperatorsRigid
     DEF LogInv, ContiguousHistory, CommittedOnce, RowSources, UndoTargetsKept,
         HasTarget, NoUnseenOverwrite, RowsBetween, OutboxComplete
<1>9. RepliesDurable'
  BY <1>2, RowOperatorsRigid DEF LogInv, RepliesDurable
<1> QED
  BY <1>4, <1>5, <1>6, <1>7, <1>8, <1>9 DEF LogInv

\* A step that leaves the log alone, and at most answers a client about an
\* operation of its own, preserves the invariant.
LEMMA LogUnchangedPreserves ==
  ASSUME LogInv,
         UNCHANGED <<revision, snapshotRevision, operations, checkpoints, outbox>>,
         TypeOK', RepliesDurable'
  PROVE  LogInv'
<1>1. /\ ContiguousHistory' /\ CommittedOnce' /\ RowSources' /\ UndoTargetsKept'
      /\ NoUnseenOverwrite' /\ OutboxComplete'
  BY RowOperatorsRigid
     DEF LogInv, ContiguousHistory, CommittedOnce, RowSources, UndoTargetsKept,
         HasTarget, NoUnseenOverwrite, RowsBetween, OutboxComplete
<1>2. RestoresCheckpointed' /\ CheckpointsCover' /\ BoundedReplay'
  BY RowOperatorsRigid
     DEF LogInv, RestoresCheckpointed, CheckpointsCover, IsLatestCheckpoint,
         BoundedReplay
<1> QED
  BY <1>1, <1>2 DEF LogInv

\* A repeated answer about a stored row preserves the invariant.
LEMMA AnswerPreserves ==
  ASSUME LogInv, NEW actor \in Actors, NEW row \in operations,
         row.actor = actor, Answer(actor, row)
  PROVE  LogInv'
<1> DEFINE reply == [actor |-> actor, operationId |-> row.operationId,
                     revision |-> row.revision]
<1>1. /\ UNCHANGED <<revision, snapshotRevision, lifecycle, operations,
                     checkpoints, outbox>>
      /\ replies' = replies \cup {reply}
  BY DEF Answer
<1>2. TypeOK /\ RepliesDurable /\ row \in OperationRow
  BY DEF LogInv, TypeOK
<1>3. reply \in [actor : Actors, operationId : OperationIds \cup Nat, revision : Nat]
  BY <1>2 DEF OperationRow
<1>4. TypeOK'
  BY <1>1, <1>2, <1>3 DEF TypeOK
<1>5. ~IsRestore(row)
  BY IdentityAssumption DEF LogInv, RowSources, ByClient, BySystem
<1>6. RepliesDurable'
  BY <1>1, <1>2, <1>5, RowOperatorsRigid DEF RepliesDurable
<1> QED
  BY <1>1, <1>4, <1>6, LogUnchangedPreserves

\* Moving the workbook to the trash, or back, preserves the invariant.
LEMMA TrashPreserves ==
  ASSUME LogInv, NEW actor \in Actors,
         MoveToTrash(actor) \/ RestoreFromTrash(actor)
  PROVE  LogInv'
<1>1. /\ lifecycle' \in {"ACTIVE", "TRASHED"}
      /\ UNCHANGED <<revision, snapshotRevision, operations, checkpoints, outbox,
                     replies>>
  BY DEF MoveToTrash, RestoreFromTrash
<1>2. TypeOK' /\ RepliesDurable'
  BY <1>1, RowOperatorsRigid DEF LogInv, TypeOK, RepliesDurable
<1> QED
  BY <1>1, <1>2, LogUnchangedPreserves

\* A new workbook, with its checkpoint of revision 0, satisfies the invariant.
LEMMA InitEstablishes == Init => LogInv
<1> SUFFICES ASSUME Init PROVE LogInv
  OBVIOUS
<1>1. TypeOK
  BY BoundsAssumption DEF Init, TypeOK
<1>2. ContiguousHistory /\ CommittedOnce /\ RowSources /\ RestoresCheckpointed
  BY DEF Init, ContiguousHistory, CommittedOnce, RowSources, RestoresCheckpointed
<1>3. UndoTargetsKept /\ NoUnseenOverwrite /\ RepliesDurable /\ OutboxComplete
  BY DEF Init, UndoTargetsKept, NoUnseenOverwrite, RepliesDurable, OutboxComplete
<1>4. CheckpointsCover
  BY DEF Init, CheckpointsCover, IsLatestCheckpoint
<1>5. BoundedReplay
  BY BoundsAssumption DEF Init, BoundedReplay
<1> QED
  BY <1>1, <1>2, <1>3, <1>4, <1>5 DEF LogInv

\* Every handler preserves the invariant.
LEMMA StepPreserves == LogInv /\ [Next]_vars => LogInv'
<1> SUFFICES ASSUME LogInv, [Next]_vars PROVE LogInv'
  OBVIOUS
<1>1. CASE \E request \in Requests, bytesReached \in BOOLEAN :
             Commit(request, bytesReached)
  BY <1>1, CommitPreserves
<1>2. CASE \E request \in Requests : Resubmit(request)
  <2>1. PICK request \in Requests, row \in operations :
          SameRequest(row, request) /\ Answer(request.actor, row)
    BY <1>2 DEF Resubmit
  <2>2. row.actor = request.actor
    BY <2>1 DEF SameRequest, RowOf
  <2>3. request.actor \in Actors
    BY RequestsAssumption DEF Envelope
  <2> QED
    BY <2>1, <2>2, <2>3, AnswerPreserves
<1>3. CASE \E actor \in Actors, operationId \in OperationIds :
             OperationResult(actor, operationId)
  BY <1>3, AnswerPreserves DEF OperationResult
<1>4. CASE \E actor \in Actors : Checkpoint(actor)
  BY <1>4, CheckpointPreserves
<1>5. CASE \E actor \in Actors, target \in 0 .. MaxRevision : Restore(actor, target)
  BY <1>5, RestorePreserves
<1>6. CASE \E actor \in Actors : MoveToTrash(actor) \/ RestoreFromTrash(actor)
  BY <1>6, TrashPreserves
<1>7. CASE UNCHANGED vars
  <2>1. TypeOK' /\ RepliesDurable'
    BY <1>7, RowOperatorsRigid DEF vars, LogInv, TypeOK, RepliesDurable
  <2> QED
    BY <1>7, <2>1, LogUnchangedPreserves DEF vars
<1> QED
  BY <1>1, <1>2, <1>3, <1>4, <1>5, <1>6, <1>7 DEF Next

-----------------------------------------------------------------------------
(* The theorems. *)

\* Every reachable state of the log satisfies the whole invariant, whatever
\* commits, retries, checkpoints, restores and moves to the trash led to it.
THEOREM LogInvariant == Spec => []LogInv
<1>1. Init => LogInv
  BY InitEstablishes
<1>2. LogInv /\ [Next]_vars => LogInv'
  BY StepPreserves
<1> QED
  BY <1>1, <1>2, PTL DEF Spec

\* The variables keep their types: every row commit or restore stores is well
\* formed and no revision is beyond that of the workbook row.
THEOREM TypeCorrect == Spec => []TypeOK
<1>1. LogInv => TypeOK
  BY DEF LogInv
<1> QED
  BY <1>1, LogInvariant, PTL

\* contiguousOperationRowsBetween never finds a gap or a double revision.
THEOREM HistoryContiguous == Spec => []ContiguousHistory
<1>1. LogInv => ContiguousHistory
  BY DEF LogInv
<1> QED
  BY <1>1, LogInvariant, PTL

\* commit never stores an operation identity or a client sequence twice.
THEOREM OperationsCommittedOnce == Spec => []CommittedOnce
<1>1. LogInv => CommittedOnce
  BY DEF LogInv
<1> QED
  BY <1>1, LogInvariant, PTL

\* The stale-base check of commit lets no operation overwrite or move cells
\* its client had not seen.
THEOREM NothingUnseenOverwritten == Spec => []NoUnseenOverwrite
<1>1. LogInv => NoUnseenOverwrite
  BY DEF LogInv
<1> QED
  BY <1>1, LogInvariant, PTL

\* snapshotAtRevision answers for every revision, at any time.
THEOREM EveryRevisionReadable == Spec => []RevisionsReadable
<1>1. LogInv => RevisionsReadable
  BY HistoryReadable
<1> QED
  BY <1>1, LogInvariant, PTL

\* shouldCheckpoint keeps the history to replay below its limit.
THEOREM ReplayBounded == Spec => []BoundedReplay
<1>1. LogInv => BoundedReplay
  BY DEF LogInv
<1> QED
  BY <1>1, LogInvariant, PTL

\* Whatever a client was told of an operation stays true, and is told to the
\* subject of the operation.
THEOREM AnswersDurable == Spec => []RepliesDurable
<1>1. LogInv => RepliesDurable
  BY DEF LogInv
<1> QED
  BY <1>1, LogInvariant, PTL

\* The outbox has an event for each operation and for nothing else.
THEOREM EventsComplete == Spec => []OutboxComplete
<1>1. LogInv => OutboxComplete
  BY DEF LogInv
<1> QED
  BY <1>1, LogInvariant, PTL

\* Every handler keeps the rows and checkpoints there are.
LEMMA StepGrows == TypeOK /\ [Next]_vars => HistoryGrows
<1> SUFFICES ASSUME TypeOK, [Next]_vars PROVE HistoryGrows
  OBVIOUS
<1>1. revision \in Nat /\ snapshotRevision \in 0 .. revision
  BY BoundsAssumption DEF TypeOK
<1>2. CASE \E request \in Requests, bytesReached \in BOOLEAN :
             Commit(request, bytesReached)
  BY <1>1, <1>2 DEF Commit, InsertOperation, SaveCheckpoint, HistoryGrows
<1>3. CASE \E actor \in Actors, target \in 0 .. MaxRevision : Restore(actor, target)
  BY <1>1, <1>3 DEF Restore, InsertOperation, SaveCheckpoint, HistoryGrows
<1>4. CASE \E actor \in Actors : Checkpoint(actor)
  BY <1>1, <1>4 DEF Checkpoint, SaveCheckpoint, HistoryGrows
<1>5. CASE UNCHANGED <<revision, snapshotRevision, operations, checkpoints>>
  BY <1>1, <1>5 DEF HistoryGrows
<1> QED
  BY <1>2, <1>3, <1>4, <1>5
     DEF Next, vars, Resubmit, OperationResult, Answer, MoveToTrash, RestoreFromTrash

\* No step rewrites committed history, and no revision goes back.
THEOREM HistoryNeverRewritten == Spec => HistoryImmutable
<1>1. TypeOK /\ [Next]_vars => [HistoryGrows]_vars
  BY StepGrows
<1> QED
  BY <1>1, TypeCorrect, PTL DEF Spec, HistoryImmutable

-----------------------------------------------------------------------------
(* The log implements the commit service. *)

Assigned == {<<row.operationId, row.revision>> : row \in operations}
Answers  == {<<reply.operationId, reply.revision>> : reply \in replies}

\* Adding a revision for a new identity is Accept, whoever is answered.
LEMMA AppendAccepts ==
  ASSUME NEW id \in OperationIds \cup 1 .. MaxRevision, NEW row, NEW reply,
         \A old \in operations : old.operationId # id,
         row.operationId = id, row.revision = revision + 1,
         reply.operationId = id, reply.revision = revision + 1,
         revision' = revision + 1,
         operations' = operations \cup {row},
         replies' \in {replies, replies \cup {reply}}
  PROVE  Service!Next
<1>1. ~Service!Committed(id)
  BY DEF Service!Committed
<1>2. Assigned' = Assigned \cup {<<id, revision + 1>>}
  BY DEF Assigned
<1>3. \/ Answers' = Answers \cup {<<id, revision + 1>>}
      \/ Answers' = Answers
  <2>1. CASE replies' = replies
    BY <2>1 DEF Answers
  <2>2. CASE replies' = replies \cup {reply}
    BY <2>2 DEF Answers
  <2> QED
    BY <2>1, <2>2
<1>4. Service!Accept(id)
  BY <1>1, <1>2, <1>3 DEF Service!Accept, Assigned, Answers
<1> QED
  BY <1>4 DEF Service!Next

\* Answering about a stored row is Repeat.
LEMMA AnswerRepeats ==
  ASSUME LogInv, NEW actor \in Actors, NEW row \in operations, Answer(actor, row)
  PROVE  Service!Next
<1>1. row.operationId \in OperationIds \cup 1 .. MaxRevision
  BY BoundsAssumption
     DEF LogInv, TypeOK, RowSources, ByClient, BySystem, ContiguousHistory
<1>2. Answers' = Answers \cup {<<row.operationId, row.revision>>}
  <2> DEFINE reply == [actor |-> actor, operationId |-> row.operationId,
                       revision |-> row.revision]
  <2>1. replies' = replies \cup {reply}
    BY DEF Answer
  <2>2. reply.operationId = row.operationId /\ reply.revision = row.revision
    OBVIOUS
  <2> HIDE DEF reply
  <2> QED
    BY <2>1, <2>2 DEF Answers
<1>3. <<row.operationId, row.revision>> \in Assigned
  BY DEF Assigned
<1>4. Service!Repeat(row.operationId)
  BY <1>2, <1>3 DEF Service!Repeat, Assigned, Answers, Answer
<1> QED
  BY <1>1, <1>4 DEF Service!Next

\* Every handler is a step of the commit service, or changes nothing in it.
LEMMA StepRefines == LogInv /\ [Next]_vars => [Service!Next]_(Service!vars)
<1> SUFFICES ASSUME LogInv, [Next]_vars PROVE [Service!Next]_(Service!vars)
  OBVIOUS
<1>1. revision \in Nat
  BY BoundsAssumption DEF LogInv, TypeOK
<1>2. CASE \E request \in Requests, bytesReached \in BOOLEAN :
             Commit(request, bytesReached)
  <2>1. PICK request \in Requests, bytesReached \in BOOLEAN :
          Commit(request, bytesReached)
    BY <1>2
  <2> DEFINE row == RowOf(request, revision + 1)
             reply == [actor |-> request.actor, operationId |-> request.operationId,
                       revision |-> revision + 1]
  <2>2. request.operationId \in OperationIds
    BY RequestsAssumption DEF Envelope
  <2>3. \A old \in operations : old.operationId # request.operationId
    BY <2>1 DEF Commit, CommitGuard, NotYetCommitted
  <2>4. /\ revision' = revision + 1
        /\ operations' = operations \cup {row}
        /\ replies' \in {replies, replies \cup {reply}}
    BY <2>1 DEF Commit, InsertOperation, MaybeReply
  <2>5. row.operationId = request.operationId /\ row.revision = revision + 1
    BY DEF RowOf
  <2> HIDE DEF row
  <2> QED
    BY <2>2, <2>3, <2>4, <2>5, AppendAccepts
<1>3. CASE \E actor \in Actors, target \in 0 .. MaxRevision : Restore(actor, target)
  <2>1. PICK actor \in Actors, target \in 0 .. MaxRevision : Restore(actor, target)
    BY <1>3
  <2> DEFINE row == RestoreRow(target, revision + 1)
             reply == [actor |-> actor, operationId |-> revision + 1,
                       revision |-> revision + 1]
  <2>2. revision + 1 \in 1 .. MaxRevision
    BY <1>1, <2>1, BoundsAssumption DEF LogInv, TypeOK, Restore
  <2>3. \A old \in operations : old.operationId # revision + 1
    BY <1>1, IdentityAssumption
       DEF LogInv, RowSources, ByClient, BySystem, ContiguousHistory
  <2>4. /\ revision' = revision + 1
        /\ operations' = operations \cup {row}
        /\ replies' \in {replies, replies \cup {reply}}
    BY <2>1 DEF Restore, InsertOperation, MaybeReply
  <2>5. row.operationId = revision + 1 /\ row.revision = revision + 1
    BY DEF RestoreRow
  <2> HIDE DEF row
  <2> QED
    BY <2>2, <2>3, <2>4, <2>5, AppendAccepts
<1>4. CASE \E request \in Requests : Resubmit(request)
  BY <1>4, AnswerRepeats, RequestsAssumption DEF Resubmit, Envelope
<1>5. CASE \E actor \in Actors, operationId \in OperationIds :
             OperationResult(actor, operationId)
  BY <1>5, AnswerRepeats DEF OperationResult
<1>6. CASE UNCHANGED <<revision, operations, replies>>
  BY <1>6 DEF Service!vars
<1> QED
  BY <1>2, <1>3, <1>4, <1>5, <1>6 DEF Next, vars, Checkpoint, MoveToTrash, RestoreFromTrash

\* Repeated, lost and refused requests, restores and checkpoints included, the
\* log behaves to its clients as the commit service of CommitService.
THEOREM LogImplementsCommitService == Spec => ImplementsCommitService
<1>1. Init => Service!Init
  BY DEF Init, Service!Init
<1>2. LogInv /\ [Next]_vars => [Service!Next]_(Service!vars)
  BY StepRefines
<1> QED
  BY <1>1, <1>2, LogInvariant, PTL DEF Spec, ImplementsCommitService, Service!Spec
=============================================================================
