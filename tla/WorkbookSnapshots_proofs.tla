----------------------- MODULE WorkbookSnapshots_proofs -----------------------
(***************************************************************************)
(* Proofs about WorkbookSnapshots, for any requests, documents and bounds, *)
(* on top of LogInv, the invariant of the log.  DocumentsInv says that     *)
(* every revision which is not a restore is still made by its operation:   *)
(* from the document before it, with the patches that are stored now.  A   *)
(* replay then follows the history step by step.                           *)
(*                                                                         *)
(* SheetsInv, on top of both, says what an undo needs: each operation went *)
(* through documents between which the stored patches are exact, so that a *)
(* mutation can be taken back from what it made.  The second half of the   *)
(* module follows the inverse of the latest operation back along them.     *)
(***************************************************************************)
EXTENDS WorkbookSnapshots, OperationLog_proofs, Queues_proofs

\* Applied again, the operation of a row gives what it gave.
Reproducible(row) ==
  LET applied == ApplyOperation(history[row.revision - 1], row.mutations, TargetsOf(row))
  IN  /\ applied.ok
      /\ applied.doc = history[row.revision]
      /\ applied.patches = patches[row.revision]

DocumentsInv ==
  /\ DOMAIN history = 0 .. revision
  /\ DOMAIN patches = 1 .. revision
  /\ DOMAIN documents = checkpoints
  /\ \A c \in checkpoints : documents[c] = history[c]
  /\ snapshot = history[snapshotRevision]
  /\ \A row \in operations : row.base < row.revision
  /\ \A row \in operations : IsRestore(row) \/ Reproducible(row)

-----------------------------------------------------------------------------
(* Replay. *)

LEMMA LogFacts ==
  ASSUME LogInv
  PROVE  /\ revision \in Nat /\ snapshotRevision \in 0 .. revision
         /\ checkpoints \subseteq 0 .. revision
         /\ \A row \in operations :
              /\ row \in OperationRow /\ row.revision \in 1 .. revision
              /\ RowAt(row.revision) = row
         /\ \A r \in 1 .. revision : RowAt(r) \in operations /\ RowAt(r).revision = r
<1>1. revision \in Nat /\ snapshotRevision \in 0 .. revision /\ checkpoints \subseteq 0 .. revision
  BY BoundsAssumption DEF LogInv, TypeOK
<1>2. \A row \in operations : row \in OperationRow /\ row.revision \in 1 .. revision
  BY DEF LogInv, TypeOK, ContiguousHistory
<1>3. \A r \in 1 .. revision : \E row \in operations : row.revision = r
  BY DEF LogInv, ContiguousHistory
<1>4. \A r \in 1 .. revision : RowAt(r) \in operations /\ RowAt(r).revision = r
  BY <1>3 DEF RowAt
<1>5. \A row \in operations : RowAt(row.revision) = row
  BY <1>2, <1>4 DEF LogInv, ContiguousHistory
<1> QED
  BY <1>1, <1>2, <1>4, <1>5

\* A replay that CanReplay allows follows the history.
LEMMA ReplayFollowsHistory ==
  ASSUME LogInv, DocumentsInv, NEW c \in 0 .. revision, NEW t \in c .. revision,
         CanReplay(c, t)
  PROVE  ReplayFrom(history[c], c, t) = [doc |-> history[t], ok |-> TRUE]
<1> DEFINE Then(d, r) ==
             LET row == RowAt(r)
                 applied == ApplyOperation(d.doc, row.mutations, TargetsOf(row))
             IN  [doc |-> applied.doc,
                  ok  |-> /\ d.ok
                          /\ applied.ok
                          /\ applied.patches = patches[r]]
           At(r) == [doc |-> history[r], ok |-> TRUE]
           F(f) == [r \in c .. t |-> IF r = c THEN At(c) ELSE Then(f[r - 1], r)]
           h == [r \in c .. t |-> At(r)]
           f == CHOOSE f : f = F(f)
<1>1. c \in Nat /\ t \in Nat /\ c <= t /\ t <= revision /\ revision \in Nat
  BY LogFacts
<1>2. ASSUME NEW r \in c .. t, r # c
      PROVE  Then(At(r - 1), r) = At(r)
  <2>1. r \in 1 .. revision /\ c < r /\ r <= t
    BY <1>1, <1>2
  <2>2. RowAt(r) \in RowsBetween(c, t) /\ RowAt(r) \in operations /\ RowAt(r).revision = r
    BY <2>1, LogFacts DEF RowsBetween
  <2>3. ~IsRestore(RowAt(r))
    BY <2>2 DEF CanReplay, Replayable
  <2>4. Reproducible(RowAt(r))
    BY <2>2, <2>3 DEF DocumentsInv
  <2> DEFINE applied == ApplyOperation(history[r - 1], RowAt(r).mutations, TargetsOf(RowAt(r)))
  <2>5. applied.ok /\ applied.doc = history[r] /\ applied.patches = patches[r]
    BY <2>2, <2>4 DEF Reproducible
  <2>6. Then(At(r - 1), r) =
          [doc |-> applied.doc, ok |-> TRUE /\ applied.ok /\ applied.patches = patches[r]]
    OBVIOUS
  <2> HIDE DEF applied, Then
  <2> QED
    BY <2>5, <2>6
<1> HIDE DEF Then
<1>3. ASSUME NEW r \in c .. t, r # c PROVE r - 1 \in c .. t
  BY <1>1, <1>3
<1>4. h = F(h)
  <2>1. ASSUME NEW r \in c .. t
        PROVE  h[r] = IF r = c THEN At(c) ELSE Then(h[r - 1], r)
    <3>1. CASE r = c
      BY <3>1
    <3>2. CASE r # c
      <4>1. h[r - 1] = At(r - 1)
        BY <1>3, <3>2
      <4> QED
        BY <1>2, <3>2, <4>1
    <3> QED
      BY <3>1, <3>2
  <2> QED
    BY <2>1
<1>5. f = F(f)
  <2> HIDE DEF h, F
  <2> QED
    BY <1>4
<1>6. ReplayFrom(history[c], c, t) = f[t]
  BY DEF ReplayFrom, Then
<1> HIDE DEF f
<1> DEFINE T == {r \in c .. t : f[r] # At(r)}
<1>7. ASSUME T # {} PROVE FALSE
  <2>1. T \in SUBSET Nat
    BY <1>1
  <2>2. PICK r \in T : \A k \in T : r <= k
    <3> HIDE DEF T
    <3> QED
      BY <1>7, <2>1, LeastExists
  <2>3. r # c
    BY <1>5, <2>2
  <2>4. r - 1 \in c .. t /\ f[r - 1] = At(r - 1)
    BY <1>1, <1>3, <2>2, <2>3
  <2>5. f[r] = Then(f[r - 1], r)
    BY <1>5, <2>2, <2>3
  <2> QED
    BY <1>2, <2>2, <2>3, <2>4, <2>5
<1>8. f[t] = At(t)
  <2>1. t \in c .. t
    BY <1>1
  <2> HIDE DEF At
  <2> QED
    BY <1>7, <2>1
<1> QED
  BY <1>6, <1>8

\* Reading a revision gives the document it was accepted as.
LEMMA ReadingIsFaithful ==
  ASSUME LogInv, DocumentsInv
  PROVE  ReplayFaithful
<1> SUFFICES ASSUME NEW r \in 0 .. revision
             PROVE  DocumentAt(r) = [doc |-> history[r], ok |-> TRUE]
  BY DEF ReplayFaithful
<1>1. Readable(r)
  BY HistoryReadable DEF RevisionsReadable
<1>2. CASE r = revision
  <2>1. snapshotRevision \in 0 .. revision /\ revision \in snapshotRevision .. revision
    BY LogFacts
  <2>2. CanReplay(snapshotRevision, revision) /\ snapshot = history[snapshotRevision]
    BY <1>1, <1>2 DEF Readable, DocumentsInv
  <2> QED
    BY <1>2, <2>1, <2>2, ReplayFollowsHistory DEF DocumentAt
<1>3. CASE r # revision
  <2> DEFINE c == CHOOSE c \in checkpoints : IsLatestCheckpoint(c, r)
  <2>1. PICK d \in checkpoints : IsLatestCheckpoint(d, r) /\ CanReplay(d, r)
    BY <1>1, <1>3 DEF Readable
  <2>2. c \in checkpoints /\ IsLatestCheckpoint(c, r)
    BY <2>1
  <2>3. DocumentAt(r) = ReplayFrom(documents[c], c, r)
    BY <1>3 DEF DocumentAt
  <2> HIDE DEF c
  <2>4. c = d /\ c \in 0 .. revision /\ c <= r
    BY <2>1, <2>2, LogFacts DEF IsLatestCheckpoint
  <2>5. r \in c .. revision /\ documents[c] = history[c]
    BY <2>2, <2>4 DEF DocumentsInv
  <2> QED
    BY <2>1, <2>3, <2>4, <2>5, ReplayFollowsHistory
<1> QED
  BY <1>2, <1>3

-----------------------------------------------------------------------------
(* The actions. *)

LEMMA DocumentsStart == SnapshotsInit => DocumentsInv
<1> SUFFICES ASSUME SnapshotsInit PROVE DocumentsInv
  OBVIOUS
<1>1. PICK doc \in InitialDocuments :
        /\ documents = [c \in {0} |-> doc] /\ snapshot = doc
        /\ patches = [r \in {} |-> << >>] /\ history = [r \in {0} |-> doc]
  BY DEF SnapshotsInit, DocumentsInit
<1>2. /\ revision = 0 /\ snapshotRevision = 0 /\ operations = {} /\ checkpoints = {0}
  BY DEF SnapshotsInit, Init
<1>3. 0 .. revision = {0} /\ 1 .. revision = {}
  BY <1>2
<1> QED
  BY <1>1, <1>2, <1>3 DEF DocumentsInv

\* An operation is added: those before it have the targets and patches they had.
LEMMA OldRowsReproducible ==
  ASSUME LogInv, LogInv', DocumentsInv, NEW row,
         operations' = operations \cup {row}, row \notin operations,
         row.revision = revision + 1,
         \A q \in 0 .. revision : history'[q] = history[q],
         \A q \in 1 .. revision : patches'[q] = patches[q],
         NEW old \in operations, Reproducible(old)
  PROVE  Reproducible(old)'
<1>1. /\ revision \in Nat /\ old.revision \in 1 .. revision
      /\ old.revision \in 0 .. revision /\ old.revision - 1 \in 0 .. revision
  BY LogFacts
<1>2. row.operationId # old.target
  <2>1. CASE old.target = NoOperation
    <3>1. row \in OperationRow
      BY DEF LogInv, TypeOK
    <3> QED
      BY <2>1, <3>1, IdentityAssumption DEF OperationRow
  <2>2. CASE old.target # NoOperation
    <3>1. PICK earlier \in operations : earlier.operationId = old.target
      BY <2>2 DEF LogInv, UndoTargetsKept, HasTarget
    <3>2. earlier \in operations' /\ row \in operations' /\ earlier # row
      BY <3>1
    <3> QED
      BY <3>1, <3>2 DEF LogInv, CommittedOnce
  <2> QED
    BY <2>1, <2>2
<1>3. TargetsOf(old)' = TargetsOf(old)
  BY <1>2 DEF TargetsOf
<1> DEFINE inverses == [i \in DOMAIN old.mutations |-> InversePatch(old.mutations[i], TargetsOf(old))]
<1>4. inverses' = inverses
  <2>1. ASSUME NEW target \in TargetsOf(old) PROVE patches'[target.revision] = patches[target.revision]
    BY <2>1, LogFacts DEF TargetsOf
  <2>2. \A m : InversePatch(m, TargetsOf(old))' = InversePatch(m, TargetsOf(old))
    BY <1>3, <2>1 DEF InversePatch
  <2> QED
    BY <2>2
<1>5. ApplyOperation(history[old.revision - 1], old.mutations, TargetsOf(old))'
        = ApplyOperation(history[old.revision - 1], old.mutations, TargetsOf(old))
  BY <1>1, <1>3, <1>4 DEF ApplyOperation
<1> QED
  BY <1>1, <1>5 DEF Reproducible

\* A revision is added, with the document and the patches of its row.
LEMMA RecordKeepsDocuments ==
  ASSUME LogInv, LogInv', DocumentsInv, NEW row, NEW doc, NEW newPatches,
         operations' = operations \cup {row}, row.revision = revision + 1,
         revision' = revision + 1, row.base < row.revision,
         RecordRevision(revision + 1, doc, newPatches),
         \/ /\ UNCHANGED <<snapshotRevision, checkpoints, documents, snapshot>>
         \/ SaveCheckpoint(revision + 1) /\ SaveDocument(revision + 1, doc),
         IsRestore(row) \/ Reproducible(row)'
  PROVE  DocumentsInv'
<1>1. revision \in Nat /\ snapshotRevision \in 0 .. revision /\ checkpoints \subseteq 0 .. revision
  BY LogFacts
<1>2. row \notin operations
  BY <1>1, LogFacts
<1>3. /\ DOMAIN history' = 0 .. revision' /\ history'[revision + 1] = doc
      /\ \A q \in 0 .. revision : history'[q] = history[q]
  BY <1>1 DEF RecordRevision, DocumentsInv
<1>4. DOMAIN patches' = 1 .. revision' /\ \A q \in 1 .. revision : patches'[q] = patches[q]
  BY <1>1 DEF RecordRevision, DocumentsInv
<1>5. ASSUME NEW old \in operations'
      PROVE  old.base < old.revision /\ (IsRestore(old)' \/ Reproducible(old)')
  <2>1. CASE old = row
    BY <2>1, RowOperatorsRigid
  <2>2. CASE old \in operations
    BY <1>2, <1>3, <1>4, <2>2, OldRowsReproducible, RowOperatorsRigid DEF DocumentsInv
  <2> QED
    BY <2>1, <2>2
<1>6. /\ DOMAIN documents' = checkpoints'
      /\ \A c \in checkpoints' : documents'[c] = history'[c]
      /\ snapshot' = history'[snapshotRevision']
  <2>1. CASE UNCHANGED <<snapshotRevision, checkpoints, documents, snapshot>>
    BY <1>1, <1>3, <2>1 DEF DocumentsInv
  <2>2. CASE SaveCheckpoint(revision + 1) /\ SaveDocument(revision + 1, doc)
    BY <1>1, <1>3, <2>2 DEF DocumentsInv, SaveCheckpoint, SaveDocument
  <2> QED
    BY <2>1, <2>2
<1> QED
  BY <1>3, <1>4, <1>5, <1>6 DEF DocumentsInv

LEMMA CommitKeepsDocuments ==
  ASSUME LogInv, LogInv', DocumentsInv, NEW request \in Requests, NEW bytesReached \in BOOLEAN,
         Commit(request, bytesReached), CommitDocument(request, bytesReached)
  PROVE  DocumentsInv'
<1>1. PICK row, applied :
        /\ row = RowOf(request, revision + 1)
        /\ applied = ApplyOperation(DocumentAt(revision).doc, request.mutations,
                                    TargetsOf(request))
  OBVIOUS
<1>2. /\ row.revision = revision + 1 /\ row.mutations = request.mutations
      /\ row.target = request.target /\ row.base = request.base
      /\ row.operationId = request.operationId
  BY <1>1 DEF RowOf
<1>3. revision \in Nat
  BY LogFacts
<1>4. /\ applied.ok /\ RecordRevision(revision + 1, applied.doc, applied.patches)
      /\ operations' = operations \cup {row} /\ revision' = revision + 1
      /\ CommitGuard(request)
  BY <1>1 DEF CommitDocument, Commit, InsertOperation
<1>5. \/ UNCHANGED <<snapshotRevision, checkpoints, documents, snapshot>>
      \/ SaveCheckpoint(revision + 1) /\ SaveDocument(revision + 1, applied.doc)
  BY <1>1 DEF CommitDocument, Commit
<1>6. row.base < row.revision
  <2>1. request.base \in Nat
    BY RequestsAssumption DEF Envelope
  <2> QED
    BY <1>2, <1>3, <1>4, <2>1 DEF CommitGuard, BaseAccepted
<1>7. DocumentAt(revision).doc = history[revision]
  BY <1>3, ReadingIsFaithful DEF ReplayFaithful
<1>8. TargetsOf(row)' = TargetsOf(request)
  <2>1. row.operationId # row.target
    <3>1. request \in Envelope
      BY RequestsAssumption
    <3>2. request.target # NoOperation => request.target # request.operationId
      BY <1>4 DEF CommitGuard, UndoAllowed
    <3> QED
      BY <1>2, <3>1, <3>2, IdentityAssumption DEF Envelope
  <2> QED
    BY <1>2, <1>4, <2>1 DEF TargetsOf
<1>9. /\ history'[revision + 1] = applied.doc /\ patches'[revision + 1] = applied.patches
      /\ history'[revision] = history[revision]
      /\ \A q \in 1 .. revision : patches'[q] = patches[q]
  BY <1>3, <1>4 DEF RecordRevision, DocumentsInv
<1>10. [i \in DOMAIN row.mutations |-> InversePatch(row.mutations[i], TargetsOf(row))]'
         = [i \in DOMAIN request.mutations |->
              InversePatch(request.mutations[i], TargetsOf(request))]
  <2>1. ASSUME NEW target \in TargetsOf(request)
        PROVE  patches'[target.revision] = patches[target.revision]
    BY <1>9, <2>1, LogFacts DEF TargetsOf
  <2>2. \A m : InversePatch(m, TargetsOf(row))' = InversePatch(m, TargetsOf(request))
    BY <1>8, <2>1 DEF InversePatch
  <2> QED
    BY <1>2, <2>2
<1>11. ApplyOperation(history[row.revision - 1], row.mutations, TargetsOf(row))' = applied
  <2>1. history'[row.revision - 1] = DocumentAt(revision).doc
    BY <1>2, <1>3, <1>7, <1>9
  <2> QED
    BY <1>1, <1>2, <1>8, <1>10, <2>1 DEF ApplyOperation
<1>12. Reproducible(row)'
  BY <1>2, <1>4, <1>9, <1>11 DEF Reproducible
<1> QED
  BY <1>2, <1>4, <1>5, <1>6, <1>12, RecordKeepsDocuments

LEMMA RestoreKeepsDocuments ==
  ASSUME LogInv, LogInv', DocumentsInv, NEW actor \in Actors, NEW target \in 0 .. MaxRevision,
         Restore(actor, target), RestoreDocument(target)
  PROVE  DocumentsInv'
<1>1. PICK r, row, doc :
        /\ r = revision + 1 /\ row = RestoreRow(target, r)
        /\ doc = DocumentAt(target).doc
  OBVIOUS
<1>2. /\ operations' = operations \cup {row} /\ revision' = revision + 1
      /\ SaveCheckpoint(revision + 1)
  BY <1>1 DEF Restore, InsertOperation
<1>3. RecordRevision(revision + 1, doc, <<{}>>) /\ SaveDocument(revision + 1, doc)
  BY <1>1 DEF RestoreDocument
<1>4. /\ row.revision = r /\ row.base = r - 1
      /\ row.mutations = <<[id |-> "workbook.restore", at |-> target]>>
  <2>1. row = RestoreRow(target, r)
    BY <1>1
  <2>2. RestoreRow(target, r).revision = r
    BY Zenon DEF RestoreRow
  <2>3. RestoreRow(target, r).base = r - 1
    BY Zenon DEF RestoreRow
  <2>4. RestoreRow(target, r).mutations = <<[id |-> "workbook.restore", at |-> target]>>
    BY Zenon DEF RestoreRow
  <2> QED
    BY <2>1, <2>2, <2>3, <2>4, Zenon
<1>5. row.revision = revision + 1 /\ row.base < row.revision
  <2>1. row.revision = r /\ row.base = r - 1
    BY <1>4, Zenon
  <2> QED
    BY <1>1, <2>1, LogFacts
<1>6. IsRestore(row)
  BY <1>4 DEF IsRestore
<1> QED
  BY <1>2, <1>3, <1>5, <1>6, RecordKeepsDocuments

LEMMA CheckpointKeepsDocuments ==
  ASSUME LogInv, LogInv', DocumentsInv, NEW actor \in Actors,
         Checkpoint(actor), CheckpointDocument
  PROVE  DocumentsInv'
<1>1. /\ revision' = revision /\ operations' = operations /\ snapshotRevision' = revision
      /\ checkpoints' = checkpoints \cup {revision}
  BY DEF Checkpoint, SaveCheckpoint
<1>2. /\ snapshot' = DocumentAt(revision).doc
      /\ documents' = [c \in DOMAIN documents \cup {revision} |->
                         IF c = revision THEN DocumentAt(revision).doc ELSE documents[c]]
      /\ UNCHANGED <<patches, history>>
  BY DEF CheckpointDocument, SaveDocument
<1>3. DocumentAt(revision).doc = history[revision]
  BY LogFacts, ReadingIsFaithful DEF ReplayFaithful
<1>4. \A row \in operations : Reproducible(row)' = Reproducible(row)
  BY <1>1, <1>2 DEF Reproducible, TargetsOf, ApplyOperation, InversePatch
<1> QED
  BY <1>1, <1>2, <1>3, <1>4, RowOperatorsRigid DEF DocumentsInv

LEMMA SameDocuments ==
  ASSUME DocumentsInv,
         UNCHANGED <<revision, snapshotRevision, operations, checkpoints, documentVars>>
  PROVE  DocumentsInv'
<1>1. \A row \in operations : Reproducible(row)' = Reproducible(row)
  BY DEF Reproducible, TargetsOf, ApplyOperation, InversePatch, documentVars
<1> QED
  BY <1>1, RowOperatorsRigid DEF DocumentsInv, documentVars

LEMMA StepKeepsDocuments ==
  ASSUME LogInv, LogInv', DocumentsInv, [SnapshotsNext]_allVars
  PROVE  DocumentsInv'
<1>1. CASE \E request \in Requests, bytesReached \in BOOLEAN :
             Commit(request, bytesReached) /\ CommitDocument(request, bytesReached)
  BY <1>1, CommitKeepsDocuments
<1>2. CASE \E actor \in Actors : Checkpoint(actor) /\ CheckpointDocument
  BY <1>2, CheckpointKeepsDocuments
<1>3. CASE \E actor \in Actors, target \in 0 .. MaxRevision :
             Restore(actor, target) /\ RestoreDocument(target)
  BY <1>3, RestoreKeepsDocuments
<1>4. CASE /\ \/ \E request \in Requests : Resubmit(request)
              \/ \E actor \in Actors, operationId \in OperationIds :
                   OperationResult(actor, operationId)
              \/ \E actor \in Actors : MoveToTrash(actor) \/ RestoreFromTrash(actor)
           /\ UNCHANGED documentVars
  <2>1. UNCHANGED <<revision, snapshotRevision, operations, checkpoints>>
    BY <1>4 DEF Resubmit, OperationResult, Answer, MoveToTrash, RestoreFromTrash
  <2> QED
    BY <1>4, <2>1, SameDocuments
<1>5. CASE UNCHANGED allVars
  BY <1>5, SameDocuments DEF allVars, vars
<1> QED
  BY <1>1, <1>2, <1>3, <1>4, <1>5 DEF SnapshotsNext

\* A step of the documents is a step of the log.
LEMMA StepOfTheLog == [SnapshotsNext]_allVars => [Next]_vars
  BY DEF SnapshotsNext, Next, allVars, vars

-----------------------------------------------------------------------------
(* What a write leaves alone. *)

Started(doc) == [doc |-> doc, patches |-> << >>, ok |-> TRUE]

\* What ApplyMutations is defined by, for the first n mutations.
Steps(f, doc, mutations, targets, inverses, n) ==
  f = [i \in 0 .. n |->
         IF i = 0 THEN Started(doc)
         ELSE ApplyMutation(f[i - 1], mutations[i], targets, inverses[i])]

LEMMA StepsExist ==
  ASSUME NEW doc, NEW mutations, NEW targets, NEW inverses, NEW n \in Nat
  PROVE  \E f : Steps(f, doc, mutations, targets, inverses, n)
<1> DEFINE Then(state, i) == ApplyMutation(state, mutations[i], targets, inverses[i])
           T == {m \in Nat : ~ \E f : Steps(f, doc, mutations, targets, inverses, m)}
<1> SUFFICES ASSUME T # {} PROVE FALSE
  OBVIOUS
<1>1. PICK m \in T : \A k \in T : m <= k
  BY LeastExists
<1>2. m # 0
  <2> DEFINE f == [i \in 0 .. 0 |-> Started(doc)]
  <2>1. f = [i \in 0 .. 0 |-> IF i = 0 THEN Started(doc) ELSE Then(f[i - 1], i)]
    OBVIOUS
  <2>2. Steps(f, doc, mutations, targets, inverses, 0)
    BY <2>1 DEF Steps
  <2> QED
    BY <2>2
<1>3. PICK g : Steps(g, doc, mutations, targets, inverses, m - 1)
  BY <1>1, <1>2
<1>4. g = [i \in 0 .. m - 1 |-> IF i = 0 THEN Started(doc) ELSE Then(g[i - 1], i)]
  BY <1>3 DEF Steps
<1> DEFINE f == [i \in 0 .. m |-> IF i = m THEN Then(g[m - 1], m) ELSE g[i]]
<1>5. ~ Steps(f, doc, mutations, targets, inverses, m)
  BY <1>1
<1> HIDE DEF T, Then
<1>6. ASSUME NEW i \in 0 .. m
      PROVE  f[i] = IF i = 0 THEN Started(doc) ELSE Then(f[i - 1], i)
  <2>1. CASE i = 0
    BY <1>1, <1>2, <1>4, <2>1 DEF T
  <2>2. CASE i = m
    <3>1. f[m - 1] = g[m - 1]
      BY <1>1, <1>2 DEF T
    <3> QED
      BY <1>1, <1>2, <2>2, <3>1
  <2>3. CASE i # 0 /\ i # m
    <3>1. f[i] = g[i] /\ f[i - 1] = g[i - 1]
      BY <1>1, <2>3 DEF T
    <3>2. g[i] = Then(g[i - 1], i)
      BY <1>1, <1>4, <2>3 DEF T
    <3> QED
      BY <2>3, <3>1, <3>2
  <2> QED
    BY <2>1, <2>2, <2>3
<1>7. f = [i \in 0 .. m |-> IF i = 0 THEN Started(doc) ELSE Then(f[i - 1], i)]
  BY <1>6
<1> HIDE DEF f
<1> QED
  BY <1>5, <1>7 DEF Steps, Then

LEMMA AppliedInSteps ==
  ASSUME NEW doc, NEW mutations, NEW targets, NEW inverses, Len(mutations) \in Nat
  PROVE  \E f : /\ Steps(f, doc, mutations, targets, inverses, Len(mutations))
                /\ ApplyMutations(doc, mutations, targets, inverses) = f[Len(mutations)]
<1> DEFINE F(f) == [i \in 0 .. Len(mutations) |->
                      IF i = 0 THEN Started(doc)
                      ELSE ApplyMutation(f[i - 1], mutations[i], targets, inverses[i])]
           f == CHOOSE f : f = F(f)
<1>1. \E g : g = F(g)
  <2>1. PICK g : Steps(g, doc, mutations, targets, inverses, Len(mutations))
    BY StepsExist
  <2>2. g = F(g)
    BY <2>1 DEF Steps
  <2> QED
    BY <2>2
<1>2. f = F(f)
  <2> HIDE DEF F
  <2> QED
    BY <1>1
<1>3. ApplyMutations(doc, mutations, targets, inverses) = f[Len(mutations)]
  BY DEF ApplyMutations, Started
<1> HIDE DEF f
<1> QED
  BY <1>2, <1>3 DEF Steps

\* Writing a cell leaves the others as they are, also when it extends the sheet.
LEMMA WriteKeepsOtherCells ==
  ASSUME NEW state, DOMAIN state = {"doc", "patches", "ok"},
         NEW m, m.id = "cell.set", NEW targets, NEW at, at # m.at
  PROVE  /\ DOMAIN ApplyMutation(state, m, targets, {}) = {"doc", "patches", "ok"}
         /\ CellAt(ApplyMutation(state, m, targets, {}).doc, at) = CellAt(state.doc, at)
<1> DEFINE d == Reduced(state.doc, m)
           after == ApplyMutation(state, m, targets, {})
<1>1. d = Written(state.doc, m)
  BY DEF Reduced, IsAxis
<1>2. CellAt(d, at) = CellAt(state.doc, at)
  BY <1>1 DEF Written, CellAt
<1> HIDE DEF d
<1>3. CellAt(Repaired(d, {}), at) = CellAt(d, at)
  BY DEF Repaired, CellAt
<1>4. \/ \E kept : after = [doc |-> Repaired(d, {}), patches |-> kept, ok |-> TRUE]
      \/ after = [state EXCEPT !.ok = FALSE]
  BY DEF ApplyMutation, d
<1> HIDE DEF after
<1>5. CASE \E kept : after = [doc |-> Repaired(d, {}), patches |-> kept, ok |-> TRUE]
  BY <1>2, <1>3, <1>5 DEF after
<1>6. CASE after = [state EXCEPT !.ok = FALSE]
  BY <1>6 DEF after
<1> QED
  BY <1>4, <1>5, <1>6

\* Nothing is repaired by a write: it is the inverse of no structural mutation.
LEMMA WriteHasNoPatch ==
  ASSUME NEW m, m.id = "cell.set", NEW targets
  PROVE  InversePatch(m, targets) = {}
<1>1. \A original : ~IsInverseAxis(original, m)
  BY DEF IsInverseAxis
<1>2. \A target : Originals(m, target) = {}
  BY <1>1 DEF Originals
<1> QED
  BY <1>2 DEF InversePatch

LEMMA OperationKeepsOtherCells ==
  ASSUME NEW doc, NEW S, NEW mutations \in Seq(S), NEW targets, NEW at,
         ~RequiresExactBase(mutations),
         \A i \in DOMAIN mutations : mutations[i].at # at
  PROVE  CellAt(ApplyOperation(doc, mutations, targets).doc, at) = CellAt(doc, at)
<1> DEFINE n == Len(mutations)
           inverses == [i \in DOMAIN mutations |-> InversePatch(mutations[i], targets)]
<1>1. n \in Nat /\ DOMAIN mutations = 1 .. n
  BY LenProperties
<1>2. \A i \in 1 .. n : mutations[i].id = "cell.set" /\ mutations[i].at # at /\ inverses[i] = {}
  BY <1>1, WriteHasNoPatch DEF RequiresExactBase
<1>3. PICK f : /\ Steps(f, doc, mutations, targets, inverses, n)
               /\ ApplyMutations(doc, mutations, targets, inverses) = f[n]
  <2> HIDE DEF inverses
  <2> QED
    BY <1>1, AppliedInSteps
<1>4. ApplyOperation(doc, mutations, targets) = f[n]
  BY <1>3 DEF ApplyOperation
<1> HIDE DEF inverses
<1> DEFINE Same(state) == /\ DOMAIN state = {"doc", "patches", "ok"}
                          /\ CellAt(state.doc, at) = CellAt(doc, at)
           T == {i \in 0 .. n : ~Same(f[i])}
<1>5. /\ f[0] = Started(doc)
      /\ \A i \in 1 .. n : f[i] = ApplyMutation(f[i - 1], mutations[i], targets, inverses[i])
  BY <1>1, <1>3 DEF Steps
<1>6. Same(f[0])
  BY <1>5 DEF Started
<1>7. ASSUME T # {} PROVE FALSE
  <2>1. T \in SUBSET Nat
    BY <1>1
  <2>2. PICK i \in T : \A k \in T : i <= k
    <3> HIDE DEF T
    <3> QED
      BY <1>7, <2>1, LeastExists
  <2> HIDE DEF Same
  <2>3. i \in 1 .. n /\ i - 1 \in 0 .. n /\ i - 1 \notin T
    BY <1>1, <1>6, <2>2
  <2>4. Same(f[i - 1])
    BY <2>3
  <2>5. Same(ApplyMutation(f[i - 1], mutations[i], targets, {}))
    <3>1. PICK state, m : state = f[i - 1] /\ m = mutations[i]
      OBVIOUS
    <3>2. DOMAIN state = {"doc", "patches", "ok"} /\ m.id = "cell.set" /\ at # m.at
      BY <1>2, <2>3, <2>4, <3>1 DEF Same
    <3>3. /\ DOMAIN ApplyMutation(state, m, targets, {}) = {"doc", "patches", "ok"}
          /\ CellAt(ApplyMutation(state, m, targets, {}).doc, at) = CellAt(state.doc, at)
      <4>1. DOMAIN ApplyMutation(state, m, targets, {}) = {"doc", "patches", "ok"}
        BY ONLY <3>2, WriteKeepsOtherCells
      <4>2. CellAt(ApplyMutation(state, m, targets, {}).doc, at) = CellAt(state.doc, at)
        BY ONLY <3>2, WriteKeepsOtherCells, ZenonT(30)
      <4> QED
        BY ONLY <4>1, <4>2
    <3> QED
      BY <2>4, <3>1, <3>3 DEF Same
  <2> QED
    BY <1>2, <1>5, <2>2, <2>3, <2>5
<1>8. Same(f[n])
  <2> HIDE DEF Same
  <2> QED
    BY <1>1, <1>7
<1> QED
  BY <1>4, <1>8

\* Between the base of a write and the write, nobody touched the cell.
LEMMA NothingBlind ==
  ASSUME LogInv, DocumentsInv
  PROVE  NoBlindOverwrite
<1> SUFFICES ASSUME NEW row \in operations, NEW i \in DOMAIN row.mutations,
                    ~RequiresExactBase(row.mutations)
             PROVE  CellAt(history[row.base], row.mutations[i].at)
                      = CellAt(history[row.revision - 1], row.mutations[i].at)
  BY DEF NoBlindOverwrite
<1> DEFINE at == row.mutations[i].at
           b == row.base
           e == row.revision - 1
           T == {q \in b .. e : CellAt(history[q], at) # CellAt(history[b], at)}
<1>1. /\ row.revision \in 1 .. revision /\ revision \in Nat /\ b \in Nat /\ b < row.revision
      /\ e \in b .. e /\ b \in b .. e /\ e \in Nat /\ e < revision
  BY LogFacts DEF DocumentsInv, OperationRow
<1>2. ASSUME NEW q \in b .. e, q # b
      PROVE  CellAt(history[q], at) = CellAt(history[q - 1], at)
  <2>1. q \in 1 .. revision /\ b < q /\ q <= e
    BY <1>1, <1>2
  <2>2. PICK u \in operations : u.revision = q
    BY <2>1, LogFacts
  <2>3. u \in RowsBetween(row.base, row.revision - 1)
    BY <2>1, <2>2 DEF RowsBetween
  <2>4. ~RequiresExactBase(u.mutations) /\ ~Overlap(row.mutations, u.mutations)
    BY <2>3 DEF LogInv, NoUnseenOverwrite
  <2>5. \A j \in DOMAIN u.mutations : u.mutations[j].at # at
    BY <2>4 DEF Overlap
  <2>6. ~IsRestore(u)
    BY <2>4 DEF IsRestore, RequiresExactBase
  <2>7. ApplyOperation(history[q - 1], u.mutations, TargetsOf(u)).doc = history[q]
    BY <2>2, <2>6 DEF DocumentsInv, Reproducible
  <2>8. u.mutations \in Seq(Mutation \cup RestoreMutation)
    BY <2>2, LogFacts DEF OperationRow
  <2> HIDE DEF at
  <2> QED
    BY <2>4, <2>5, <2>7, <2>8, OperationKeepsOtherCells
<1> HIDE DEF at, b, e
<1>3. ASSUME T # {} PROVE FALSE
  <2>1. T \in SUBSET Nat
    BY <1>1
  <2>2. PICK q \in T : \A k \in T : q <= k
    <3> HIDE DEF T
    <3> QED
      BY <1>3, <2>1, LeastExists
  <2>3. q # b
    BY <2>2
  <2>4. q - 1 \in b .. e /\ q - 1 \notin T
    BY <1>1, <2>2, <2>3
  <2> QED
    BY <1>2, <2>2, <2>3, <2>4
<1>4. e \notin T
  BY <1>3
<1> QED
  BY <1>1, <1>4 DEF at, b, e

-----------------------------------------------------------------------------
(* The theorems. *)

\* Documents are stored beside the log and add no behaviour to it.
THEOREM DocumentsFollowTheLog == SnapshotsSpec => Spec
<1>1. SnapshotsInit => Init
  BY DEF SnapshotsInit
<1> QED
  BY <1>1, StepOfTheLog, PTL DEF SnapshotsSpec, Spec

\* Every revision but a restore is reproduced by its operation and what is stored
\* now, and the checkpoints hold the revisions they stand for.
THEOREM DocumentsInvariant == SnapshotsSpec => [](LogInv /\ DocumentsInv)
<1>1. SnapshotsInit => LogInv /\ DocumentsInv
  BY InitEstablishes, DocumentsStart DEF SnapshotsInit
<1>2. LogInv /\ DocumentsInv /\ [SnapshotsNext]_allVars => (LogInv /\ DocumentsInv)'
  BY StepOfTheLog, StepPreserves, StepKeepsDocuments
<1> QED
  BY <1>1, <1>2, PTL DEF SnapshotsSpec

\* currentSnapshot and snapshotAtRevision give for each revision the document that
\* commit accepted it as, from whichever checkpoint they replay.
THEOREM HistoryIsReplayed == SnapshotsSpec => []ReplayFaithful
<1>1. LogInv /\ DocumentsInv => ReplayFaithful
  BY ReadingIsFaithful
<1> QED
  BY <1>1, DocumentsInvariant, PTL

\* A client that writes a cell on a stale base overwrites what it saw there: no
\* operation that commit let pass in between changed the cell.
THEOREM NoWriteIsBlind == SnapshotsSpec => []NoBlindOverwrite
<1>1. LogInv /\ DocumentsInv => NoBlindOverwrite
  BY NothingBlind
<1> QED
  BY <1>1, DocumentsInvariant, PTL


-----------------------------------------------------------------------------
(* What moving rows does to a document, and its patch to the formulas.     *)

\* The two kinds of formula cells, with what a cell refers to.
FormulaTexts == {"reference", "lost"} \X Nat

\* A document with rows, and no formula of which has a cached value.
Docs == {doc \in Seq(Cell) :
           /\ Len(doc) > 0
           /\ \A r \in 1 .. Len(doc) : IsFormula(doc[r]) => ~ doc[r].cached}

\* remapAxis on a formula.
Moved(f, m) ==
  IF f[1] = "lost" \/ f[2] < m.at THEN f
  ELSE IF m.id = "rows.inserted" THEN <<"reference", f[2] + 1>>
  ELSE IF f[2] = m.at THEN <<"lost", 0>>
  ELSE <<"reference", f[2] - 1>>

Axis(m) == IsAxis(m) /\ m.at \in Nat \ {0}

LEMMA DocsAre ==
  ASSUME NEW doc \in Docs
  PROVE  /\ Len(doc) \in Nat \ {0} /\ DOMAIN doc = 1 .. Len(doc)
         /\ \A r \in 1 .. Len(doc) :
              doc[r] \in Cell /\ (IsFormula(doc[r]) => ~ doc[r].cached)
<1>1. doc \in Seq(Cell) /\ Len(doc) > 0
  BY DEF Docs
<1>2. Len(doc) \in Nat /\ DOMAIN doc = 1 .. Len(doc) /\ doc \in [1 .. Len(doc) -> Cell]
  BY <1>1, LenProperties
<1> QED
  BY <1>1, <1>2 DEF Docs

LEMMA RowsAreDocs ==
  ASSUME NEW n \in Nat \ {0}, NEW f, DOMAIN f = 1 .. n, f = [r \in 1 .. n |-> f[r]],
         \A r \in 1 .. n : f[r] \in Cell /\ (IsFormula(f[r]) => ~ f[r].cached)
  PROVE  f \in Docs /\ Len(f) = n
<1>1. f \in [1 .. n -> Cell]
  OBVIOUS
<1>2. f \in Seq(Cell)
  BY <1>1, SeqDef
<1>3. Len(f) \in Nat /\ DOMAIN f = 1 .. Len(f)
  BY <1>2, LenProperties
<1>4. Len(f) = n
  BY <1>3
<1> QED
  BY <1>2, <1>4 DEF Docs

LEMMA DocsEqual ==
  ASSUME NEW doc \in Docs, NEW other \in Docs, Len(doc) = Len(other),
         \A r \in 1 .. Len(doc) : doc[r] = other[r]
  PROVE  doc = other
BY SeqEqual DEF Docs

LEMMA BlankIsCell == Blank \in Cell /\ ~ IsFormula(Blank) /\ Formula(Blank) \notin FormulaTexts
  BY DEF Blank, Cell, IsFormula, Formula, FormulaTexts

LEMMA FormulaOf ==
  ASSUME NEW cell \in Cell
  PROVE  /\ IsFormula(cell) <=> Formula(cell) \in FormulaTexts
         /\ \A m : Axis(m) /\ IsFormula(cell) =>
              Remapped(cell, m) = Moved(Formula(cell), m) /\ Remapped(cell, m) \in FormulaTexts
         /\ \A f \in FormulaTexts :
              /\ WithFormula(cell, f) \in Cell /\ IsFormula(WithFormula(cell, f))
              /\ ~ WithFormula(cell, f).cached /\ Formula(WithFormula(cell, f)) = f
<1>1. /\ cell.kind \in {"blank", "text", "reference", "lost"} /\ cell.n \in Nat
      /\ cell = [kind |-> cell.kind, n |-> cell.n, cached |-> cell.cached]
      /\ cell.cached \in BOOLEAN
  BY DEF Cell
<1>2. IsFormula(cell) <=> Formula(cell) \in FormulaTexts
  BY <1>1 DEF IsFormula, Formula, FormulaTexts
<1>3. ASSUME NEW m, Axis(m), IsFormula(cell)
      PROVE  Remapped(cell, m) = Moved(Formula(cell), m) /\ Remapped(cell, m) \in FormulaTexts
  <2>1. m.at \in Nat \ {0} /\ m.id \in {"rows.inserted", "rows.deleted"}
    BY <1>3 DEF Axis, IsAxis
  <2>2. Formula(cell)[1] = cell.kind /\ Formula(cell)[2] = cell.n /\ Formula(cell) \in FormulaTexts
    BY <1>2, <1>3 DEF Formula
  <2>3. CASE cell.kind = "lost" \/ cell.n < m.at
    BY <2>2, <2>3 DEF Remapped, Moved
  <2>4. CASE ~ (cell.kind = "lost" \/ cell.n < m.at)
    <3>1. cell.n >= m.at /\ cell.n + 1 \in Nat /\ cell.n - 1 \in Nat
      BY <1>1, <2>1, <2>4
    <3> QED
      BY <2>1, <2>2, <2>4, <3>1 DEF Remapped, Moved, FormulaTexts
  <2> QED
    BY <2>3, <2>4
<1>4. ASSUME NEW f \in FormulaTexts
      PROVE  /\ WithFormula(cell, f) \in Cell /\ IsFormula(WithFormula(cell, f))
             /\ ~ WithFormula(cell, f).cached /\ Formula(WithFormula(cell, f)) = f
  <2>1. f[1] \in {"reference", "lost"} /\ f[2] \in Nat /\ f = <<f[1], f[2]>>
    BY DEF FormulaTexts
  <2>2. WithFormula(cell, f) = [kind |-> f[1], n |-> f[2], cached |-> FALSE]
    <3> DEFINE b == [cell EXCEPT !.kind = f[1]]
               c == [b EXCEPT !.n = f[2]]
    <3>1. b = [kind |-> f[1], n |-> cell.n, cached |-> cell.cached]
      BY <1>1
    <3> HIDE DEF b
    <3>2. c = [kind |-> f[1], n |-> f[2], cached |-> cell.cached]
      BY <3>1
    <3> HIDE DEF c
    <3>3. PICK x \in BOOLEAN : x = FALSE
      OBVIOUS
    <3>4. [c EXCEPT !.cached = x] = [kind |-> f[1], n |-> f[2], cached |-> x]
      BY <3>2
    <3> QED
      BY <3>3, <3>4, Zenon DEF WithFormula, b, c
  <2> QED
    BY <2>1, <2>2 DEF Cell, IsFormula, Formula
<1> QED
  BY <1>2, <1>3, <1>4

\* A formula without a cached value is what it refers to.
LEMMA SameFormula ==
  ASSUME NEW cell \in Cell, NEW other \in Cell, Formula(cell) = Formula(other),
         ~ cell.cached, ~ other.cached
  PROVE  cell = other
<1>1. /\ cell = [kind |-> cell.kind, n |-> cell.n, cached |-> cell.cached]
      /\ other = [kind |-> other.kind, n |-> other.n, cached |-> other.cached]
      /\ cell.cached \in BOOLEAN /\ other.cached \in BOOLEAN
  BY DEF Cell
<1>2. cell.kind = other.kind /\ cell.n = other.n
  BY DEF Formula
<1>3. cell.cached = other.cached
  BY <1>1
<1> QED
  BY <1>1, <1>2, <1>3

\* The row an insertion adds, or the one that is cleared instead of deleted.
FreshRow(doc, m, r) == r = m.at /\ (m.id = "rows.inserted" \/ Len(doc) = 1)

Rows(doc, m) ==
  IF m.id = "rows.inserted" THEN Len(doc) + 1
  ELSE IF Len(doc) = 1 THEN 1 ELSE Len(doc) - 1

LEMMA ShiftedRows ==
  ASSUME NEW doc \in Docs, NEW m, Axis(m), InBounds(doc, m)
  PROVE  /\ Shifted(doc, m) \in Docs /\ Len(Shifted(doc, m)) = Rows(doc, m)
         /\ Rows(doc, m) \in Nat \ {0}
         /\ \A r \in 1 .. Rows(doc, m) :
              IF FreshRow(doc, m, r)
              THEN Shifted(doc, m)[r] = Blank
              ELSE /\ RowBefore(r, m) \in 1 .. Len(doc)
                   /\ Shifted(doc, m)[r] = doc[RowBefore(r, m)]
<1> DEFINE s == Shifted(doc, m)
<1>1. /\ doc \in Seq(Cell) /\ Len(doc) \in Nat \ {0}
      /\ \A r \in 1 .. Len(doc) :
           doc[r] \in Cell /\ (IsFormula(doc[r]) => ~ doc[r].cached)
  BY DocsAre DEF Docs
<1>2. m.at \in Nat \ {0} /\ m.id \in {"rows.inserted", "rows.deleted"}
  BY DEF Axis, IsAxis
<1>3. ASSUME s \in Seq(Cell), Len(s) = Rows(doc, m), Rows(doc, m) \in Nat \ {0},
             \A r \in 1 .. Rows(doc, m) :
               IF FreshRow(doc, m, r)
               THEN s[r] = Blank
               ELSE RowBefore(r, m) \in 1 .. Len(doc) /\ s[r] = doc[RowBefore(r, m)]
      PROVE  s \in Docs
  <2>1. \A r \in 1 .. Len(s) : IsFormula(s[r]) => ~ s[r].cached
    BY <1>1, <1>3, BlankIsCell
  <2> QED
    BY <1>3, <2>1 DEF Docs
<1>4. \A i, j \in Int : (\A k \in i .. j : k \in 1 .. Len(doc)) =>
        /\ SubSeq(doc, i, j) \in Seq(Cell)
        /\ Len(SubSeq(doc, i, j)) = IF i <= j THEN j - i + 1 ELSE 0
        /\ \A k \in 1 .. j - i + 1 : SubSeq(doc, i, j)[k] = doc[i + k - 1]
  <2> SUFFICES ASSUME NEW i \in Int, NEW j \in Int, \A k \in i .. j : k \in 1 .. Len(doc)
               PROVE  /\ SubSeq(doc, i, j) \in Seq(Cell)
                      /\ Len(SubSeq(doc, i, j)) = IF i <= j THEN j - i + 1 ELSE 0
                      /\ \A k \in 1 .. j - i + 1 : SubSeq(doc, i, j)[k] = doc[i + k - 1]
    OBVIOUS
  <2>1. \A k \in i .. j : doc[k] \in Cell
    BY <1>1
  <2> QED
    BY <2>1, SubSeqProperties
<1>5. CASE m.id = "rows.inserted"
  <2>1. m.at \in 1 .. Len(doc) + 1 /\ Rows(doc, m) = Len(doc) + 1
    BY <1>5 DEF InBounds, Rows
  <2> DEFINE a == SubSeq(doc, 1, m.at - 1)
             c == SubSeq(doc, m.at, Len(doc))
             b == a \o <<Blank>>
  <2>2. s = b \o c
    BY <1>5 DEF Shifted, InsertAt
  <2>3. /\ a \in Seq(Cell) /\ Len(a) = m.at - 1
        /\ \A k \in 1 .. m.at - 1 : a[k] = doc[k]
    <3>1. \A k \in 1 .. m.at - 1 : k \in 1 .. Len(doc)
      BY <1>1, <1>2, <2>1
    <3>2. /\ a \in Seq(Cell) /\ Len(a) = IF 1 <= m.at - 1 THEN (m.at - 1) - 1 + 1 ELSE 0
          /\ \A k \in 1 .. (m.at - 1) - 1 + 1 : a[k] = doc[1 + k - 1]
      BY <1>2, <1>4, <3>1
    <3> QED
      BY <1>2, <3>2
  <2>4. /\ c \in Seq(Cell) /\ Len(c) = Len(doc) + 1 - m.at
        /\ \A k \in 1 .. Len(doc) + 1 - m.at : c[k] = doc[m.at + k - 1]
    <3>1. \A k \in m.at .. Len(doc) : k \in 1 .. Len(doc)
      BY <1>1, <1>2, <2>1
    <3>2. /\ c \in Seq(Cell) /\ Len(c) = IF m.at <= Len(doc) THEN Len(doc) - m.at + 1 ELSE 0
          /\ \A k \in 1 .. Len(doc) - m.at + 1 : c[k] = doc[m.at + k - 1]
      BY <1>1, <1>2, <1>4, <3>1
    <3> QED
      BY <1>1, <1>2, <2>1, <3>2
  <2>5. <<Blank>> \in Seq(Cell) /\ Len(<<Blank>>) = 1 /\ <<Blank>>[1] = Blank
    BY BlankIsCell
  <2> HIDE DEF a, c
  <2>6. /\ b \in Seq(Cell) /\ Len(b) = m.at
        /\ \A k \in 1 .. m.at : b[k] = IF k = m.at THEN Blank ELSE doc[k]
    <3>1. /\ b \in Seq(Cell) /\ Len(b) = Len(a) + 1
          /\ \A k \in 1 .. Len(a) + 1 : b[k] = IF k <= Len(a) THEN a[k] ELSE <<Blank>>[k - Len(a)]
      BY <2>3, <2>5, ConcatProperties
    <3> QED
      BY <1>2, <2>3, <2>5, <3>1
  <2> HIDE DEF b, s
  <2>7. /\ s \in Seq(Cell) /\ Len(s) = Len(doc) + 1
        /\ \A k \in 1 .. Len(doc) + 1 : s[k] = IF k <= m.at THEN b[k] ELSE c[k - m.at]
    <3>1. /\ s \in Seq(Cell) /\ Len(s) = Len(b) + Len(c)
          /\ \A k \in 1 .. Len(b) + Len(c) : s[k] = IF k <= Len(b) THEN b[k] ELSE c[k - Len(b)]
      BY <2>2, <2>4, <2>6, ConcatProperties
    <3> QED
      BY <1>1, <1>2, <2>4, <2>6, <3>1
  <2>8. ASSUME NEW r \in 1 .. Len(doc) + 1
        PROVE  IF FreshRow(doc, m, r)
               THEN s[r] = Blank
               ELSE RowBefore(r, m) \in 1 .. Len(doc) /\ s[r] = doc[RowBefore(r, m)]
    <3>1. FreshRow(doc, m, r) <=> r = m.at
      BY <1>5 DEF FreshRow
    <3>2. CASE r = m.at
      BY <1>2, <2>6, <2>7, <3>1, <3>2
    <3>3. CASE r < m.at
      <4>1. RowBefore(r, m) = r
        BY <3>3 DEF RowBefore
      <4>2. r \in 1 .. Len(doc) /\ s[r] = b[r] /\ b[r] = doc[r]
        BY <1>1, <1>2, <2>1, <2>6, <2>7, <3>3
      <4> QED
        BY <1>2, <3>1, <3>3, <4>1, <4>2
    <3>4. CASE r > m.at
      <4>1. RowBefore(r, m) = r - 1
        BY <1>2, <1>5, <3>4 DEF RowBefore
      <4>2. s[r] = c[r - m.at] /\ r - m.at \in 1 .. Len(doc) + 1 - m.at
        BY <1>1, <1>2, <2>7, <3>4
      <4>3. s[r] = doc[m.at + (r - m.at) - 1]
        BY ONLY <2>4, <4>2
      <4>5. m.at + (r - m.at) - 1 = r - 1
        BY ONLY <1>2, r \in 1 .. Len(doc) + 1
      <4> QED
        BY <1>1, <1>2, <3>1, <3>4, <4>1, <4>3, <4>5
    <3> QED
      BY <1>2, <3>2, <3>3, <3>4
  <2> QED
    BY <1>1, <1>3, <2>1, <2>7, <2>8 DEF s
<1>6. CASE m.id = "rows.deleted" /\ Len(doc) = 1
  <2>1. m.at = 1 /\ Rows(doc, m) = 1 /\ s = <<Blank>>
    BY <1>6 DEF InBounds, Rows, Shifted
  <2>2. s \in Seq(Cell) /\ Len(s) = 1 /\ s[1] = Blank
    BY <2>1, BlankIsCell
  <2>3. \A r \in 1 .. 1 : FreshRow(doc, m, r) /\ s[r] = Blank
    BY <1>6, <2>1, <2>2 DEF FreshRow
  <2> HIDE DEF s
  <2> QED
    BY <1>3, <2>1, <2>2, <2>3 DEF s
<1>7. CASE m.id = "rows.deleted" /\ Len(doc) # 1
  <2>1. m.at \in 1 .. Len(doc) /\ Rows(doc, m) = Len(doc) - 1 /\ Len(doc) - 1 \in Nat \ {0}
    BY <1>1, <1>7 DEF InBounds, Rows
  <2> DEFINE a == SubSeq(doc, 1, m.at - 1)
             c == SubSeq(doc, m.at + 1, Len(doc))
  <2>2. s = a \o c
    BY <1>7 DEF Shifted, RemoveAt
  <2>3. /\ a \in Seq(Cell) /\ Len(a) = m.at - 1
        /\ \A k \in 1 .. m.at - 1 : a[k] = doc[k]
    <3>1. \A k \in 1 .. m.at - 1 : k \in 1 .. Len(doc)
      BY <1>1, <1>2, <2>1
    <3>2. /\ a \in Seq(Cell) /\ Len(a) = IF 1 <= m.at - 1 THEN (m.at - 1) - 1 + 1 ELSE 0
          /\ \A k \in 1 .. (m.at - 1) - 1 + 1 : a[k] = doc[1 + k - 1]
      BY <1>2, <1>4, <3>1
    <3> QED
      BY <1>2, <3>2
  <2>4. /\ c \in Seq(Cell) /\ Len(c) = Len(doc) - m.at
        /\ \A k \in 1 .. Len(doc) - m.at : c[k] = doc[m.at + k]
    <3>1. \A k \in m.at + 1 .. Len(doc) : k \in 1 .. Len(doc)
      BY <1>1, <1>2, <2>1
    <3>2. /\ c \in Seq(Cell)
          /\ Len(c) = IF m.at + 1 <= Len(doc) THEN Len(doc) - (m.at + 1) + 1 ELSE 0
          /\ \A k \in 1 .. Len(doc) - (m.at + 1) + 1 : c[k] = doc[(m.at + 1) + k - 1]
      BY <1>1, <1>2, <1>4, <3>1
    <3> QED
      BY <1>1, <1>2, <2>1, <3>2
  <2> HIDE DEF a, c, s
  <2>5. /\ s \in Seq(Cell) /\ Len(s) = Len(doc) - 1
        /\ \A k \in 1 .. Len(doc) - 1 :
             s[k] = IF k <= m.at - 1 THEN a[k] ELSE c[k - (m.at - 1)]
    <3>1. /\ s \in Seq(Cell) /\ Len(s) = Len(a) + Len(c)
          /\ \A k \in 1 .. Len(a) + Len(c) : s[k] = IF k <= Len(a) THEN a[k] ELSE c[k - Len(a)]
      BY <2>2, <2>3, <2>4, ConcatProperties
    <3> QED
      BY <1>1, <1>2, <2>3, <2>4, <3>1
  <2>6. ASSUME NEW r \in 1 .. Len(doc) - 1
        PROVE  /\ ~ FreshRow(doc, m, r)
               /\ RowBefore(r, m) \in 1 .. Len(doc) /\ s[r] = doc[RowBefore(r, m)]
    <3>1. ~ FreshRow(doc, m, r)
      BY <1>7 DEF FreshRow
    <3>2. CASE r < m.at
      <4>1. RowBefore(r, m) = r
        BY <3>2 DEF RowBefore
      <4> QED
        BY <1>1, <1>2, <2>3, <2>5, <3>1, <3>2, <4>1
    <3>3. CASE r >= m.at
      <4>1. RowBefore(r, m) = r + 1
        BY <1>2, <1>7, <3>3 DEF RowBefore
      <4>2. s[r] = c[r - (m.at - 1)] /\ r - (m.at - 1) \in 1 .. Len(doc) - m.at
        BY <1>1, <1>2, <2>5, <3>3
      <4>3. s[r] = c[r - (m.at - 1)] /\ c[r - (m.at - 1)] = doc[m.at + (r - (m.at - 1))]
        BY ONLY <2>4, <4>2
      <4>5. m.at + (r - (m.at - 1)) = r + 1
        BY ONLY <1>2, r \in 1 .. Len(doc) - 1
      <4> QED
        BY <1>1, <1>2, <3>1, <3>3, <4>1, <4>3, <4>5
    <3> QED
      BY <1>2, <3>2, <3>3
  <2> QED
    BY <1>3, <2>1, <2>5, <2>6 DEF s
<1> QED
  BY <1>2, <1>5, <1>6, <1>7


LEMMA ReducedRows ==
  ASSUME NEW doc \in Docs, NEW m, Axis(m), InBounds(doc, m)
  PROVE  /\ Reduced(doc, m) \in Docs /\ Len(Reduced(doc, m)) = Rows(doc, m)
         /\ \A r \in 1 .. Rows(doc, m) :
              Reduced(doc, m)[r] =
                IF IsFormula(Shifted(doc, m)[r])
                THEN WithFormula(Shifted(doc, m)[r], Remapped(Shifted(doc, m)[r], m))
                ELSE Shifted(doc, m)[r]
<1> DEFINE s == Shifted(doc, m)
           f == [r \in DOMAIN s |->
                   IF IsFormula(s[r]) THEN WithFormula(s[r], Remapped(s[r], m)) ELSE s[r]]
<1>1. Reduced(doc, m) = f
  BY DEF Reduced, Axis
<1>2. s \in Docs /\ Len(s) = Rows(doc, m) /\ Rows(doc, m) \in Nat \ {0}
  BY ShiftedRows
<1> HIDE DEF s
<1>3. DOMAIN s = 1 .. Rows(doc, m) /\ \A r \in 1 .. Rows(doc, m) : s[r] \in Cell
  BY <1>2, DocsAre
<1>4. ASSUME NEW r \in 1 .. Rows(doc, m)
      PROVE  f[r] \in Cell /\ (IsFormula(f[r]) => ~ f[r].cached)
  <2>1. CASE IsFormula(s[r])
    <3>1. f[r] = WithFormula(s[r], Remapped(s[r], m)) /\ Remapped(s[r], m) \in FormulaTexts
      BY <1>3, <2>1, FormulaOf
    <3> HIDE DEF f
    <3> QED
      BY <1>3, <3>1, FormulaOf
  <2>2. CASE ~ IsFormula(s[r])
    BY <1>3, <2>2
  <2> QED
    BY <2>1, <2>2
<1>5. DOMAIN f = 1 .. Rows(doc, m) /\ f = [r \in 1 .. Rows(doc, m) |-> f[r]]
  BY <1>3
<1>6. \A r \in 1 .. Rows(doc, m) :
        f[r] = IF IsFormula(s[r]) THEN WithFormula(s[r], Remapped(s[r], m)) ELSE s[r]
  BY <1>3
<1> HIDE DEF f
<1>7. f \in Docs /\ Len(f) = Rows(doc, m)
  BY <1>2, <1>4, <1>5, RowsAreDocs
<1> QED
  BY <1>1, <1>6, <1>7 DEF s

\* A write keeps the other rows, and adds blank ones if there are too few.
LEMMA WrittenRows ==
  ASSUME NEW doc \in Docs, NEW m, m.at \in Nat \ {0},
         m.value \in Cell, IsFormula(m.value) => ~ m.value.cached
  PROVE  /\ Written(doc, m) \in Docs /\ Len(doc) <= Len(Written(doc, m))
         /\ Len(Written(doc, m)) <= Len(doc) \/ Len(Written(doc, m)) <= m.at
         /\ m.at <= Len(doc) => Len(Written(doc, m)) = Len(doc)
         /\ m.value # Blank => m.at <= Len(Written(doc, m))
         /\ \A r \in 1 .. Len(Written(doc, m)) :
              Written(doc, m)[r] = IF r = m.at THEN m.value
                                   ELSE IF r \in 1 .. Len(doc) THEN doc[r] ELSE Blank
<1>1. /\ Len(doc) \in Nat \ {0} /\ DOMAIN doc = 1 .. Len(doc)
      /\ \A r \in 1 .. Len(doc) : doc[r] \in Cell /\ (IsFormula(doc[r]) => ~ doc[r].cached)
  BY DocsAre
<1>2. CASE m.at > Len(doc) /\ m.value = Blank
  <2>1. Written(doc, m) = doc
    BY <1>2 DEF Written
  <2>2. \A r \in 1 .. Len(doc) : r # m.at
    BY <1>1, <1>2
  <2> QED
    BY <1>1, <1>2, <2>1, <2>2
<1>3. CASE ~ (m.at > Len(doc) /\ m.value = Blank)
  <2> DEFINE n == IF m.at > Len(doc) THEN m.at ELSE Len(doc)
             f == [r \in DOMAIN doc \cup 1 .. m.at |->
                     IF r = m.at THEN m.value ELSE CellAt(doc, r)]
  <2>1. Written(doc, m) = f
    BY <1>3 DEF Written
  <2>2. n \in Nat \ {0} /\ DOMAIN doc \cup 1 .. m.at = 1 .. n
    BY <1>1
  <2>3. \A r \in 1 .. n : f[r] = IF r = m.at THEN m.value
                                 ELSE IF r \in 1 .. Len(doc) THEN doc[r] ELSE Blank
    BY <1>1, <2>2 DEF CellAt
  <2>4. DOMAIN f = 1 .. n /\ f = [r \in 1 .. n |-> f[r]]
    BY <2>2
  <2>5. \A r \in 1 .. n : f[r] \in Cell /\ (IsFormula(f[r]) => ~ f[r].cached)
    BY <1>1, <2>3, BlankIsCell
  <2>6. n >= Len(doc) /\ n >= m.at /\ (n <= Len(doc) \/ n <= m.at) /\ (m.at <= Len(doc) => n = Len(doc))
    BY <1>1
  <2> HIDE DEF f, n
  <2>7. f \in Docs /\ Len(f) = n
    BY <2>2, <2>4, <2>5, RowsAreDocs
  <2> QED
    BY <2>1, <2>3, <2>6, <2>7
<1> QED
  BY <1>2, <1>3

-----------------------------------------------------------------------------
(* Patches: what a delta says, and that inverted it says the opposite.     *)

Deltas == [from : Nat, to : Nat, before : FormulaTexts, after : FormulaTexts]

Opposite(m) ==
  [id |-> IF m.id = "rows.inserted" THEN "rows.deleted" ELSE "rows.inserted", at |-> m.at]

\* A delta that m makes, or one that an undo by m reverses.
Fits(delta, m) ==
  /\ delta \in Deltas /\ delta.to > 0
  /\ delta.from = RowBefore(delta.to, m)
  /\ m.id = "rows.inserted" => delta.to # m.at
  /\ delta.before # delta.after
  /\ \/ delta.after = Moved(delta.before, m)
     \/ delta.before = Moved(delta.after, Opposite(m))

\* What rows a move brings somewhere, the opposite move brings back, and a
\* formula as well, unless it referred to the deleted row.
LEMMA MovedBack ==
  ASSUME NEW m, Axis(m), NEW w, IsInverseAxis(m, w), NEW f \in FormulaTexts
  PROVE  /\ Axis(w) /\ w.at = m.at /\ IsInverseAxis(w, m)
         /\ Moved(f, Opposite(m)) = Moved(f, w) /\ Moved(f, Opposite(w)) = Moved(f, m)
         /\ Moved(f, m) \in FormulaTexts
         /\ Moved(Moved(f, m), w) = f \/ (f # <<"lost", 0>> /\ Moved(f, m) = <<"lost", 0>>)
         /\ Moved(f, m) = f => Moved(f, w) = f
         /\ f[1] = "lost" => Moved(f, m) = f
         /\ \A r \in Nat \ {0} :
              (m.id = "rows.inserted" => r # m.at) =>
                /\ RowBefore(r, m) \in Nat \ {0} /\ RowBefore(RowBefore(r, m), w) = r
                /\ w.id = "rows.inserted" => RowBefore(r, m) # w.at
<1>1. /\ m.at \in Nat \ {0} /\ w.at = m.at
      /\ \/ m.id = "rows.inserted" /\ w.id = "rows.deleted"
         \/ m.id = "rows.deleted" /\ w.id = "rows.inserted"
  BY DEF Axis, IsAxis, IsInverseAxis
<1>2. f[1] \in {"reference", "lost"} /\ f[2] \in Nat /\ f = <<f[1], f[2]>>
  BY DEF FormulaTexts
<1>3. Axis(w) /\ IsInverseAxis(w, m)
  BY <1>1 DEF Axis, IsAxis, IsInverseAxis
<1>4. /\ Opposite(m).id = w.id /\ Opposite(m).at = w.at
      /\ Opposite(w).id = m.id /\ Opposite(w).at = m.at
  BY <1>1 DEF Opposite
<1>5. Moved(f, Opposite(m)) = Moved(f, w) /\ Moved(f, Opposite(w)) = Moved(f, m)
  BY <1>4 DEF Moved
<1>6. ASSUME NEW r \in Nat \ {0}, m.id = "rows.inserted" => r # m.at
      PROVE  /\ RowBefore(r, m) \in Nat \ {0} /\ RowBefore(RowBefore(r, m), w) = r
             /\ w.id = "rows.inserted" => RowBefore(r, m) # w.at
  <2>1. CASE m.id = "rows.inserted"
    BY <1>1, <1>6, <2>1 DEF RowBefore
  <2>2. CASE m.id = "rows.deleted"
    BY <1>1, <1>6, <2>2 DEF RowBefore
  <2> QED
    BY <1>1, <2>1, <2>2
<1>7. CASE f[1] = "lost" \/ f[2] < m.at
  <2>1. Moved(f, m) = f /\ Moved(f, w) = f
    BY <1>1, <1>7 DEF Moved
  <2> QED
    BY <1>1, <1>3, <1>5, <1>6, <2>1
<1>8. CASE f[1] = "reference" /\ f[2] >= m.at /\ m.id = "rows.inserted"
  <2>1. Moved(f, m) = <<"reference", f[2] + 1>>
    BY <1>1, <1>2, <1>8 DEF Moved
  <2>2. Moved(<<"reference", f[2] + 1>>, w) = <<"reference", f[2]>>
    BY <1>1, <1>2, <1>8 DEF Moved
  <2>3. Moved(f, m) # f
    BY <1>2, <2>1
  <2> QED
    BY <1>1, <1>2, <1>3, <1>5, <1>6, <1>8, <2>1, <2>2, <2>3 DEF FormulaTexts
<1>9. CASE f[1] = "reference" /\ f[2] = m.at /\ m.id = "rows.deleted"
  <2>1. Moved(f, m) = <<"lost", 0>>
    BY <1>1, <1>2, <1>9 DEF Moved
  <2>2. f # <<"lost", 0>>
    BY <1>2, <1>9
  <2> QED
    BY <1>1, <1>3, <1>5, <1>6, <1>9, <2>1, <2>2 DEF FormulaTexts
<1>10. CASE f[1] = "reference" /\ f[2] > m.at /\ m.id = "rows.deleted"
  <2>1. Moved(f, m) = <<"reference", f[2] - 1>> /\ f[2] - 1 \in Nat /\ f[2] - 1 >= m.at
    BY <1>1, <1>2, <1>10 DEF Moved
  <2>2. Moved(<<"reference", f[2] - 1>>, w) = <<"reference", f[2]>>
    BY <1>1, <1>2, <1>10, <2>1 DEF Moved
  <2>3. Moved(f, m) # f
    BY <1>2, <2>1
  <2> QED
    BY <1>1, <1>2, <1>3, <1>5, <1>6, <1>10, <2>1, <2>2, <2>3 DEF FormulaTexts
<1> QED
  BY <1>1, <1>2, <1>7, <1>8, <1>9, <1>10

Reversed(delta) ==
  [from |-> delta.to, to |-> delta.from, before |-> delta.after, after |-> delta.before]

\* Whatever the formula of a delta became on its own is one of the two the delta
\* names; only a lost one stays lost by itself.
LEMMA FitsBothWays ==
  ASSUME NEW m, Axis(m), NEW w, IsInverseAxis(m, w), NEW delta, Fits(delta, m)
  PROVE  /\ Reversed(delta) \in Deltas /\ Fits(Reversed(delta), w)
         /\ Moved(delta.before, m) \in {delta.before, delta.after}
         /\ Moved(delta.after, w) \in {delta.before, delta.after}
         /\ Moved(delta.before, m) = delta.before => delta.before[1] = "lost"
         /\ Moved(delta.after, m) = delta.after => delta.after[1] = "lost"
<1>1. /\ delta \in Deltas /\ delta.from \in Nat /\ delta.to \in Nat \ {0}
      /\ delta.before \in FormulaTexts /\ delta.after \in FormulaTexts
      /\ delta.before # delta.after /\ delta.from = RowBefore(delta.to, m)
      /\ m.id = "rows.inserted" => delta.to # m.at
  BY DEF Fits, Deltas
<1>2. /\ Axis(w) /\ IsInverseAxis(w, m) /\ w.at = m.at
      /\ delta.from \in Nat \ {0} /\ RowBefore(delta.from, w) = delta.to
      /\ w.id = "rows.inserted" => delta.from # w.at
  BY <1>1, MovedBack
<1>3. /\ Moved(delta.before, Opposite(w)) = Moved(delta.before, m)
      /\ Moved(delta.after, Opposite(m)) = Moved(delta.after, w)
  BY <1>1, MovedBack
<1>4. \/ delta.after = Moved(delta.before, m)
      \/ delta.before = Moved(delta.after, w)
  BY <1>3 DEF Fits
<1>5. Reversed(delta) \in Deltas /\ Fits(Reversed(delta), w)
  <2>1. Reversed(delta) \in Deltas
    BY <1>1 DEF Reversed, Deltas
  <2> QED
    BY <1>1, <1>2, <1>3, <1>4, <2>1 DEF Fits, Reversed
<1>6. CASE delta.after = Moved(delta.before, m)
  <2>1. \/ Moved(delta.after, w) = delta.before
        \/ delta.after = <<"lost", 0>>
    BY <1>1, <1>6, MovedBack
  <2>2. delta.after = <<"lost", 0>> => Moved(delta.after, w) = delta.after
    BY <1>1, <1>2, MovedBack
  <2>3. Moved(delta.after, m) = delta.after => Moved(delta.after, w) = delta.after
    BY <1>1, MovedBack
  <2>4. Moved(delta.after, m) = delta.after => delta.after[1] = "lost"
    BY <1>1, <2>1, <2>3
  <2> QED
    BY <1>1, <1>5, <1>6, <2>1, <2>2, <2>4
<1>7. CASE delta.before = Moved(delta.after, w)
  <2>1. \/ Moved(delta.before, m) = delta.after
        \/ delta.before = <<"lost", 0>>
    BY <1>1, <1>2, <1>7, MovedBack
  <2>2. delta.before = <<"lost", 0>> => Moved(delta.before, m) = delta.before
    BY <1>1, MovedBack
  <2>3. Moved(delta.after, m) # delta.after
    BY <1>1, <1>7, MovedBack
  <2>4. Moved(delta.before, m) = delta.before => delta.before[1] = "lost"
    BY <1>1, <2>1
  <2> QED
    BY <1>5, <1>7, <1>1, <2>1, <2>2, <2>3, <2>4
<1> QED
  BY <1>4, <1>6, <1>7


\* At one place two deltas that take the same formula agree.
LEMMA FitsOneWay ==
  ASSUME NEW m, Axis(m), NEW w, IsInverseAxis(m, w), NEW left, NEW right,
         Fits(left, m), Fits(right, m), left.to = right.to, left.before = right.before
  PROVE  left = right
<1>1. /\ left \in Deltas /\ right \in Deltas
      /\ left.from = RowBefore(left.to, m) /\ right.from = RowBefore(right.to, m)
      /\ left.after \in FormulaTexts /\ right.after \in FormulaTexts
      /\ left.before \in FormulaTexts
  BY DEF Fits, Deltas
<1>2. ASSUME NEW delta, Fits(delta, m)
      PROVE  delta.after = IF delta.before = <<"lost", 0>> THEN <<"reference", m.at>>
                           ELSE Moved(delta.before, m)
  <2>1. /\ delta.before \in FormulaTexts /\ delta.after \in FormulaTexts
        /\ delta.before # delta.after
        /\ \/ delta.after = Moved(delta.before, m)
           \/ delta.before = Moved(delta.after, w)
    <3>1. delta.before \in FormulaTexts /\ delta.after \in FormulaTexts
      BY <1>2 DEF Fits, Deltas
    <3> QED
      BY <1>2, <3>1, MovedBack DEF Fits
  <2>2. Axis(w) /\ IsInverseAxis(w, m) /\ w.at = m.at /\ m.at \in Nat \ {0}
    BY <2>1, MovedBack DEF Axis
  <2>3. CASE delta.before = <<"lost", 0>>
    <3>1. Moved(delta.before, m) = delta.before
      BY <2>1, <2>3, MovedBack
    <3>2. Moved(delta.after, w) = <<"lost", 0>>
      BY <2>1, <2>3, <3>1
    <3>3. /\ delta.after[1] \in {"reference", "lost"} /\ delta.after[2] \in Nat
          /\ delta.after = <<delta.after[1], delta.after[2]>>
      BY <2>1 DEF FormulaTexts
    <3>4. delta.after[1] = "reference" /\ delta.after[2] = w.at
      BY <2>1, <2>2, <2>3, <3>2, <3>3 DEF Moved
    <3> QED
      BY <2>2, <2>3, <3>3, <3>4
  <2>4. CASE delta.before # <<"lost", 0>>
    <3>1. \/ Moved(Moved(delta.after, w), m) = delta.after
          \/ Moved(delta.after, w) = <<"lost", 0>>
      BY <2>1, <2>2, MovedBack
    <3> QED
      BY <2>1, <2>4, <3>1
  <2> QED
    BY <2>3, <2>4
<1>3. left.after = right.after
  BY <1>2
<1> QED
  BY <1>1, <1>3 DEF Deltas

-----------------------------------------------------------------------------
(* A patch that tells exactly how formulas changed, beside moving.         *)

Exact(patch, doc, after, m) ==
  /\ after \in Docs /\ Len(after) = Rows(doc, m)
  /\ GeneratedPatch(doc, m) \subseteq patch
  /\ \A delta \in patch :
       /\ Fits(delta, m)
       /\ delta.to \in 1 .. Rows(doc, m) /\ ~ FreshRow(doc, m, delta.to)
       /\ Formula(doc[delta.from]) = delta.before
       /\ Formula(after[delta.to]) = delta.after
  /\ \A r \in 1 .. Rows(doc, m) :
       (\A delta \in patch : delta.to # r) => after[r] = Shifted(doc, m)[r]

Flip(m) == [id |-> IF m.id = "rows.inserted" THEN "rows.deleted" ELSE "rows.inserted",
            at |-> m.at, value |-> Blank]

LEMMA FlipIsInverse ==
  ASSUME NEW m, Axis(m)
  PROVE  IsInverseAxis(m, Flip(m)) /\ Axis(Flip(m))
BY DEF Axis, IsAxis, IsInverseAxis, Flip

LEMMA OneIsInverted ==
  ASSUME NEW m, NEW n, NEW w, IsInverseAxis(m, w), IsInverseAxis(n, w)
  PROVE  m.id = n.id /\ m.at = n.at
BY DEF IsInverseAxis

\* What an axis mutation makes of a formula on its own, and the delta for it.
LEMMA GeneratedRows ==
  ASSUME NEW doc \in Docs, NEW m, Axis(m), InBounds(doc, m), NEW r \in 1 .. Rows(doc, m)
  PROVE  /\ IsFormula(Shifted(doc, m)[r]) =>
              /\ ~ FreshRow(doc, m, r) /\ RowBefore(r, m) \in 1 .. Len(doc)
              /\ Shifted(doc, m)[r] = doc[RowBefore(r, m)]
              /\ Formula(doc[RowBefore(r, m)]) \in FormulaTexts
              /\ Formula(Reduced(doc, m)[r]) = Moved(Formula(doc[RowBefore(r, m)]), m)
              /\ Moved(Formula(doc[RowBefore(r, m)]), m) \in FormulaTexts
         /\ IsFormula(Shifted(doc, m)[r]) <=> IsFormula(Reduced(doc, m)[r])
         /\ \/ Reduced(doc, m)[r] = Shifted(doc, m)[r]
            \/ /\ IsFormula(Shifted(doc, m)[r])
               /\ Moved(Formula(doc[RowBefore(r, m)]), m) # Formula(doc[RowBefore(r, m)])
<1> DEFINE s == Shifted(doc, m)
           x == Reduced(doc, m)
           q == RowBefore(r, m)
<1>1. s[r] \in Cell /\ (IsFormula(s[r]) => ~ s[r].cached)
  BY ShiftedRows, DocsAre
<1>2. x[r] = IF IsFormula(s[r]) THEN WithFormula(s[r], Remapped(s[r], m)) ELSE s[r]
  BY ReducedRows
<1>3. IF FreshRow(doc, m, r) THEN s[r] = Blank ELSE q \in 1 .. Len(doc) /\ s[r] = doc[q]
  BY ShiftedRows
<1> HIDE DEF s, x, q
<1>4. CASE IsFormula(s[r])
  <2>1. ~ FreshRow(doc, m, r) /\ q \in 1 .. Len(doc) /\ s[r] = doc[q]
    BY <1>3, <1>4, BlankIsCell
  <2>2. /\ Remapped(s[r], m) = Moved(Formula(s[r]), m) /\ Remapped(s[r], m) \in FormulaTexts
        /\ Formula(s[r]) \in FormulaTexts
    BY <1>1, <1>4, FormulaOf
  <2>3. /\ x[r] \in Cell /\ IsFormula(x[r]) /\ ~ x[r].cached
        /\ Formula(x[r]) = Remapped(s[r], m)
    BY <1>1, <1>2, <1>4, <2>2, FormulaOf
  <2>4. CASE Moved(Formula(s[r]), m) = Formula(s[r])
    <3>1. x[r] = s[r]
      BY <1>1, <1>4, <2>2, <2>3, <2>4, SameFormula
    <3> QED
      BY <1>4, <2>1, <2>2, <2>3, <3>1 DEF s, x, q
  <2>5. CASE Moved(Formula(s[r]), m) # Formula(s[r])
    BY <1>4, <2>1, <2>2, <2>3, <2>5 DEF s, x, q
  <2> QED
    BY <2>4, <2>5
<1>5. CASE ~ IsFormula(s[r])
  BY <1>2, <1>5 DEF s, x
<1> QED
  BY <1>4, <1>5

LEMMA GeneratedDeltas ==
  ASSUME NEW doc \in Docs, NEW m, Axis(m), InBounds(doc, m)
  PROVE  /\ \A delta \in GeneratedPatch(doc, m) :
              /\ delta.to \in 1 .. Rows(doc, m) /\ Fits(delta, m)
              /\ IsFormula(Shifted(doc, m)[delta.to])
              /\ delta.before = Formula(doc[delta.from])
              /\ delta.after = Moved(delta.before, m)
         /\ \A r \in 1 .. Rows(doc, m) :
              /\ IsFormula(Shifted(doc, m)[r])
              /\ Moved(Formula(doc[RowBefore(r, m)]), m) # Formula(doc[RowBefore(r, m)])
              => \E delta \in GeneratedPatch(doc, m) : delta.to = r
<1> DEFINE s == Shifted(doc, m)
           Delta(r) == [from |-> RowBefore(r, m), to |-> r,
                        before |-> Formula(s[r]), after |-> Remapped(s[r], m)]
           Changed(r) == IsFormula(s[r]) /\ Formula(s[r]) # Remapped(s[r], m)
<1>1. GeneratedPatch(doc, m) = {Delta(r) : r \in {q \in DOMAIN s : Changed(q)}}
  BY DEF GeneratedPatch, Axis
<1>2. DOMAIN s = 1 .. Rows(doc, m) /\ Rows(doc, m) \in Nat
      /\ \A r \in 1 .. Rows(doc, m) : s[r] \in Cell
  BY ShiftedRows, DocsAre
<1>3. ASSUME NEW r \in 1 .. Rows(doc, m), IsFormula(s[r])
      PROVE  /\ Remapped(s[r], m) = Moved(Formula(s[r]), m) /\ Remapped(s[r], m) \in FormulaTexts
             /\ Formula(s[r]) \in FormulaTexts
             /\ ~ FreshRow(doc, m, r) /\ RowBefore(r, m) \in 1 .. Len(doc)
             /\ s[r] = doc[RowBefore(r, m)]
  <2>1. /\ ~ FreshRow(doc, m, r) /\ RowBefore(r, m) \in 1 .. Len(doc)
        /\ s[r] = doc[RowBefore(r, m)]
    BY <1>3, GeneratedRows
  <2> HIDE DEF s
  <2>2. s[r] \in Cell
    BY <1>2
  <2> QED
    BY <1>3, <2>1, <2>2, FormulaOf
<1> HIDE DEF s
<1>4. ASSUME NEW r \in 1 .. Rows(doc, m), Changed(r)
      PROVE  /\ Fits(Delta(r), m) /\ Delta(r).to = r
             /\ Delta(r).before = Formula(doc[Delta(r).from])
             /\ Delta(r).after = Moved(Delta(r).before, m)
  <2>1. r \in Nat \ {0} /\ RowBefore(r, m) \in Nat
    BY <1>2, <1>3, <1>4, DocsAre
  <2>2. Delta(r) \in Deltas
    BY <1>3, <1>4, <2>1 DEF Deltas
  <2>3. m.id = "rows.inserted" => r # m.at
    BY <1>3, <1>4 DEF FreshRow
  <2> QED
    BY <1>3, <1>4, <2>1, <2>2, <2>3 DEF Fits
<1>5. ASSUME NEW delta \in GeneratedPatch(doc, m)
      PROVE  /\ delta.to \in 1 .. Rows(doc, m) /\ Fits(delta, m) /\ IsFormula(s[delta.to])
             /\ delta.before = Formula(doc[delta.from])
             /\ delta.after = Moved(delta.before, m)
  <2>1. PICK r \in 1 .. Rows(doc, m) : Changed(r) /\ delta = Delta(r)
    BY <1>1, <1>2
  <2>2. /\ Fits(Delta(r), m) /\ Delta(r).to = r
        /\ Delta(r).before = Formula(doc[Delta(r).from])
        /\ Delta(r).after = Moved(Delta(r).before, m)
    BY <1>4, <2>1
  <2> HIDE DEF Delta
  <2> QED
    BY <2>1, <2>2
<1>6. ASSUME NEW r \in 1 .. Rows(doc, m), IsFormula(s[r]),
             Moved(Formula(doc[RowBefore(r, m)]), m) # Formula(doc[RowBefore(r, m)])
      PROVE  \E delta \in GeneratedPatch(doc, m) : delta.to = r
  <2>1. Changed(r)
    BY <1>3, <1>6
  <2>2. Delta(r) \in GeneratedPatch(doc, m)
    BY <1>1, <1>2, <2>1
  <2> QED
    BY <2>2
<1> QED
  BY <1>5, <1>6 DEF s


\* What is repaired: each row is as it was, or has the formula of a delta.
LEMMA RepairedRows ==
  ASSUME NEW doc \in Docs, NEW inverse, \A delta \in inverse : delta.after \in FormulaTexts
  PROVE  /\ Repaired(doc, inverse) \in Docs /\ Len(Repaired(doc, inverse)) = Len(doc)
         /\ \A r \in 1 .. Len(doc) :
              \/ (\A delta \in inverse : delta.to # r) /\ Repaired(doc, inverse)[r] = doc[r]
              \/ \E delta \in inverse :
                   /\ delta.to = r
                   /\ IsFormula(Repaired(doc, inverse)[r])
                   /\ Formula(Repaired(doc, inverse)[r]) = delta.after
<1> DEFINE n == Len(doc)
           f == Repaired(doc, inverse)
           At(r) == CHOOSE delta \in inverse : delta.to = r
<1>1. n \in Nat \ {0} /\ DOMAIN doc = 1 .. n
      /\ \A r \in 1 .. n : doc[r] \in Cell /\ (IsFormula(doc[r]) => ~ doc[r].cached)
  BY DocsAre
<1>2. DOMAIN f = 1 .. n /\ f = [r \in 1 .. n |-> f[r]]
  BY <1>1 DEF Repaired
<1>3. ASSUME NEW r \in 1 .. n
      PROVE  f[r] = IF \E delta \in inverse : delta.to = r
                    THEN WithFormula(doc[r], At(r).after) ELSE doc[r]
  BY <1>1, <1>3 DEF Repaired
<1> HIDE DEF f, n, At
<1>4. ASSUME NEW r \in 1 .. n
      PROVE  /\ f[r] \in Cell /\ (IsFormula(f[r]) => ~ f[r].cached)
             /\ \/ (\A delta \in inverse : delta.to # r) /\ f[r] = doc[r]
                \/ \E delta \in inverse :
                     delta.to = r /\ IsFormula(f[r]) /\ Formula(f[r]) = delta.after
  <2>1. CASE \E delta \in inverse : delta.to = r
    <3>1. At(r) \in inverse /\ At(r).to = r
      BY <2>1 DEF At
    <3>2. f[r] = WithFormula(doc[r], At(r).after) /\ At(r).after \in FormulaTexts
      BY <1>3, <2>1, <3>1
    <3>3. /\ f[r] \in Cell /\ IsFormula(f[r]) /\ ~ f[r].cached
          /\ Formula(f[r]) = At(r).after
      BY <1>1, <3>2, FormulaOf
    <3> QED
      BY <3>1, <3>3
  <2>2. CASE ~ \E delta \in inverse : delta.to = r
    BY <1>1, <1>3, <2>2
  <2> QED
    BY <2>1, <2>2
<1>5. f \in Docs /\ Len(f) = n
  BY <1>1, <1>2, <1>4, RowsAreDocs
<1> QED
  BY <1>4, <1>5 DEF f, n

\* An axis mutation that repairs what its target had stored has the patch that
\* tells exactly what changed, if no formula in question was lost otherwise.
LEMMA AxisIsExact ==
  ASSUME NEW doc \in Docs, NEW m, Axis(m), InBounds(doc, m), NEW inverse,
         \A delta \in inverse :
           /\ Fits(delta, m)
           /\ \/ Formula(CellAt(doc, delta.from)) = delta.before
              \/ CellAt(doc, delta.from).kind # "lost",
         Repairable(Reduced(doc, m), GeneratedPatch(doc, m), inverse)
  PROVE  Exact(GeneratedPatch(doc, m) \cup inverse, doc, Repaired(Reduced(doc, m), inverse), m)
<1> DEFINE x == Reduced(doc, m)
           s == Shifted(doc, m)
           n == Rows(doc, m)
           made == GeneratedPatch(doc, m)
           e == Repaired(x, inverse)
<1>1. /\ x \in Docs /\ Len(x) = n /\ n \in Nat \ {0} /\ DOMAIN x = 1 .. n
      /\ \A r \in 1 .. n : x[r] \in Cell
      /\ DOMAIN doc = 1 .. Len(doc)
  BY ReducedRows, ShiftedRows, DocsAre
<1>2. /\ Axis(Flip(m)) /\ IsInverseAxis(m, Flip(m))
  BY FlipIsInverse
<1>3. \A delta \in inverse :
        /\ delta \in Deltas /\ delta.after \in FormulaTexts /\ delta.before \in FormulaTexts
        /\ delta.from = RowBefore(delta.to, m)
  BY DEF Fits, Deltas
<1>4. \A r \in 1 .. n :
        /\ IsFormula(s[r]) =>
             /\ ~ FreshRow(doc, m, r) /\ RowBefore(r, m) \in 1 .. Len(doc)
             /\ s[r] = doc[RowBefore(r, m)]
             /\ Formula(x[r]) = Moved(Formula(doc[RowBefore(r, m)]), m)
        /\ IsFormula(s[r]) <=> IsFormula(x[r])
        /\ \/ x[r] = s[r]
           \/ /\ IsFormula(s[r])
              /\ Moved(Formula(doc[RowBefore(r, m)]), m) # Formula(doc[RowBefore(r, m)])
  BY GeneratedRows
<1>5. /\ \A delta \in made :
           /\ delta.to \in 1 .. n /\ Fits(delta, m) /\ IsFormula(s[delta.to])
           /\ delta.before = Formula(doc[delta.from])
           /\ delta.after = Moved(delta.before, m)
      /\ \A r \in 1 .. n :
           /\ IsFormula(s[r])
           /\ Moved(Formula(doc[RowBefore(r, m)]), m) # Formula(doc[RowBefore(r, m)])
           => \E delta \in made : delta.to = r
  BY GeneratedDeltas
<1>6. /\ \A left \in made, right \in inverse : left.to = right.to => left = right
      /\ \A delta \in inverse :
           /\ CellAt(x, delta.to) # Blank
           /\ Formula(CellAt(x, delta.to)) \in {delta.before, delta.after}
  BY DEF Repairable
<1>7. /\ e \in Docs /\ Len(e) = n
      /\ \A r \in 1 .. n :
           \/ (\A delta \in inverse : delta.to # r) /\ e[r] = x[r]
           \/ \E delta \in inverse : delta.to = r /\ Formula(e[r]) = delta.after
  <2> HIDE DEF x, n
  <2> QED
    BY <1>1, <1>3, RepairedRows
<1>8. \A delta \in made : delta.from = RowBefore(delta.to, m)
  BY <1>5 DEF Fits
<1> HIDE DEF x, s, n, made, e
<1>9. ASSUME NEW delta \in inverse
      PROVE  /\ delta.to \in 1 .. n /\ ~ FreshRow(doc, m, delta.to)
             /\ Formula(doc[delta.from]) = delta.before
  <2>1. delta.to \in 1 .. n /\ CellAt(x, delta.to) = x[delta.to]
    BY <1>1, <1>6 DEF CellAt
  <2>2. Formula(x[delta.to]) \in {delta.before, delta.after}
    BY <1>6, <2>1
  <2>3. IsFormula(x[delta.to])
    <3>1. x[delta.to] \in Cell
      BY ONLY <1>1, <2>1
    <3>2. Formula(x[delta.to]) \in FormulaTexts
      BY ONLY <1>3, <2>2, delta \in inverse
    <3> QED
      BY ONLY <3>1, <3>2, FormulaOf
  <2>4. /\ ~ FreshRow(doc, m, delta.to) /\ delta.from \in 1 .. Len(doc)
        /\ Formula(x[delta.to]) = Moved(Formula(doc[delta.from]), m)
    BY <1>3, <1>4, <2>1, <2>3
  <2>5. CASE Moved(Formula(doc[delta.from]), m) # Formula(doc[delta.from])
    <3>1. PICK left \in made : left.to = delta.to
      BY <1>3, <1>4, <1>5, <2>1, <2>3, <2>5
    <3>2. left = delta
      BY <1>6, <3>1
    <3> QED
      BY <1>5, <2>1, <2>4, <3>2
  <2>6. CASE Moved(Formula(doc[delta.from]), m) = Formula(doc[delta.from])
    <3>1. CASE Formula(doc[delta.from]) = delta.before
      BY <2>1, <2>4, <3>1
    <3>2. CASE Formula(doc[delta.from]) = delta.after
      <4>1. delta.after[1] = "lost"
        BY <1>2, <2>6, <3>2, FitsBothWays
      <4>2. CellAt(doc, delta.from) = doc[delta.from]
        BY <1>1, <2>4 DEF CellAt
      <4>3. doc[delta.from].kind = "lost"
        BY <3>2, <4>1 DEF Formula
      <4> QED
        BY <2>1, <2>4, <4>2, <4>3
    <3> QED
      BY <2>2, <2>4, <2>6, <3>1, <3>2
  <2> QED
    BY <2>5, <2>6
<1>10. ASSUME NEW delta \in made \cup inverse
       PROVE  /\ Fits(delta, m)
              /\ delta.to \in 1 .. n /\ ~ FreshRow(doc, m, delta.to)
              /\ Formula(doc[delta.from]) = delta.before
              /\ Formula(e[delta.to]) = delta.after
  <2>1. /\ Fits(delta, m) /\ delta.from = RowBefore(delta.to, m)
        /\ delta.to \in 1 .. n /\ ~ FreshRow(doc, m, delta.to)
        /\ Formula(doc[delta.from]) = delta.before
    BY <1>3, <1>4, <1>5, <1>8, <1>9
  <2>2. CASE \E other \in inverse : other.to = delta.to /\ Formula(e[delta.to]) = other.after
    <3>1. PICK other \in inverse : other.to = delta.to /\ Formula(e[delta.to]) = other.after
      BY <2>2
    <3>2. Fits(other, m) /\ other.before = Formula(doc[other.from])
          /\ other.from = RowBefore(other.to, m)
      BY <1>3, <1>9
    <3>3. other.before = delta.before
      BY <2>1, <3>1, <3>2
    <3>4. other = delta
      BY <1>2, <2>1, <3>1, <3>2, <3>3, FitsOneWay
    <3> QED
      BY <2>1, <3>1, <3>4
  <2>3. CASE (\A other \in inverse : other.to # delta.to) /\ e[delta.to] = x[delta.to]
    <3>1. delta \in made
      BY <2>3
    <3>2. Formula(x[delta.to]) = Moved(Formula(doc[delta.from]), m)
      BY <1>4, <1>5, <2>1, <3>1
    <3> QED
      BY <1>5, <2>1, <2>3, <3>1, <3>2
  <2> QED
    BY <1>7, <2>1, <2>2, <2>3
<1>11. ASSUME NEW r \in 1 .. n, \A delta \in made \cup inverse : delta.to # r
       PROVE  e[r] = s[r]
  <2>1. e[r] = x[r]
    BY <1>7, <1>11
  <2>2. x[r] = s[r]
    BY <1>4, <1>5, <1>11
  <2> QED
    BY <2>1, <2>2
<1> QED
  BY <1>7, <1>10, <1>11 DEF Exact, x, s, n, made, e


-----------------------------------------------------------------------------
(* Taking an axis mutation back.                                           *)

\* The rows of one document are those of one or the other of two.
Between(doc, left, right) ==
  /\ doc \in Docs /\ Len(doc) = Len(left)
  /\ \A r \in 1 .. Len(left) : doc[r] = left[r] \/ doc[r] = right[r]

\* The opposite mutation, with the stored patch inverted, gives the document as it
\* was, and a blank row for a deleted one, also where a formula was put back
\* that had not been repaired.
LEMMA AxisTakenBack ==
  ASSUME NEW doc \in Docs, NEW m, Axis(m), InBounds(doc, m),
         ~ (m.id = "rows.deleted" /\ Len(doc) = 1),
         m.id = "rows.deleted" => Len(doc) <= MaxRows,
         NEW patch, NEW after, Exact(patch, doc, after, m),
         NEW w, IsInverseAxis(m, w), NEW e, Between(e, after, Reduced(doc, m))
  PROVE  /\ InBounds(e, w)
         /\ Repairable(Reduced(e, w), GeneratedPatch(e, w), Inverted(patch))
         /\ Repaired(Reduced(e, w), Inverted(patch)) \in Docs
         /\ Len(Repaired(Reduced(e, w), Inverted(patch))) = Len(doc)
         /\ \A r \in 1 .. Len(doc) :
              Repaired(Reduced(e, w), Inverted(patch))[r] =
                IF m.id = "rows.deleted" /\ r = m.at THEN Blank ELSE doc[r]
<1> DEFINE x == Reduced(doc, m)
           s == Shifted(doc, m)
           n == Len(doc)
           y == Reduced(e, w)
           t == Shifted(e, w)
           inverse == Inverted(patch)
           z == Repaired(y, inverse)
<1>1. /\ n \in Nat \ {0} /\ DOMAIN doc = 1 .. n
      /\ \A r \in 1 .. n : doc[r] \in Cell /\ (IsFormula(doc[r]) => ~ doc[r].cached)
  BY DocsAre
<1>2. /\ m.at \in Nat \ {0} /\ w.at = m.at /\ Axis(w) /\ IsInverseAxis(w, m)
      /\ \/ m.id = "rows.inserted" /\ w.id = "rows.deleted"
         \/ m.id = "rows.deleted" /\ w.id = "rows.inserted"
  BY DEF Axis, IsAxis, IsInverseAxis
<1>3. /\ after \in Docs /\ Len(after) = Rows(doc, m)
      /\ GeneratedPatch(doc, m) \subseteq patch
      /\ \A delta \in patch :
           /\ Fits(delta, m)
           /\ delta.to \in 1 .. Rows(doc, m) /\ ~ FreshRow(doc, m, delta.to)
           /\ Formula(doc[delta.from]) = delta.before
           /\ Formula(after[delta.to]) = delta.after
      /\ \A r \in 1 .. Rows(doc, m) :
           (\A delta \in patch : delta.to # r) => after[r] = s[r]
  BY DEF Exact
<1>4. /\ e \in Docs /\ Len(e) = Rows(doc, m)
      /\ \A r \in 1 .. Rows(doc, m) : e[r] = after[r] \/ e[r] = x[r]
  BY <1>3 DEF Between
<1>5. m.at \in 1 .. n + 1 /\ (m.id = "rows.deleted" => m.at \in 1 .. n)
  BY <1>2 DEF InBounds
<1>6. /\ m.id = "rows.inserted" => Rows(doc, m) = n + 1
      /\ m.id = "rows.deleted" => Rows(doc, m) = n - 1 /\ n > 1
  <2>1. CASE m.id = "rows.inserted"
    BY <2>1 DEF Rows
  <2>2. CASE m.id = "rows.deleted"
    BY <1>1, <2>2 DEF Rows
  <2> QED
    BY <1>2, <2>1, <2>2
<1>7. InBounds(e, w)
  <2>1. CASE m.id = "rows.inserted"
    BY <1>1, <1>2, <1>4, <1>5, <1>6, <2>1 DEF InBounds
  <2>2. CASE m.id = "rows.deleted"
    <3>1. MaxRows \in Nat
      BY CellsAssumption
    <3>2. m.at \in 1 .. (n - 1) + 1 /\ n - 1 < MaxRows
      BY <1>1, <1>5, <2>2, <3>1
    <3> QED
      BY <1>2, <1>4, <1>6, <2>2, <3>2 DEF InBounds
  <2> QED
    BY <1>2, <2>1, <2>2
<1>8. Rows(e, w) = n
  <2>1. CASE m.id = "rows.inserted"
    <3>1. Len(e) = n + 1 /\ Len(e) # 1 /\ w.id = "rows.deleted"
      BY <1>1, <1>2, <1>4, <1>6, <2>1
    <3> QED
      BY <1>1, <3>1 DEF Rows
  <2>2. CASE m.id = "rows.deleted"
    <3>1. Len(e) = n - 1 /\ w.id = "rows.inserted"
      BY <1>2, <1>4, <1>6, <2>2
    <3> QED
      BY <1>1, <3>1 DEF Rows
  <2> QED
    BY <1>2, <2>1, <2>2
<1>9. \A r : FreshRow(e, w, r) <=> r = m.at /\ m.id = "rows.deleted"
  BY <1>1, <1>2, <1>4, <1>6 DEF FreshRow
<1>10. \A r : FreshRow(doc, m, r) <=> r = m.at /\ m.id = "rows.inserted"
  BY <1>1, <1>2, <1>6 DEF FreshRow
<1>11. /\ y \in Docs /\ Len(y) = n /\ DOMAIN y = 1 .. n
       /\ \A r \in 1 .. n : y[r] \in Cell
  BY <1>2, <1>4, <1>7, <1>8, ReducedRows, DocsAre
<1>12. \A r \in 1 .. n :
         IF FreshRow(e, w, r) THEN t[r] = Blank
         ELSE RowBefore(r, w) \in 1 .. Rows(doc, m) /\ t[r] = e[RowBefore(r, w)]
  BY <1>2, <1>4, <1>7, <1>8, ShiftedRows
<1>13. \A r \in 1 .. n :
         /\ IsFormula(t[r]) =>
              /\ Formula(e[RowBefore(r, w)]) \in FormulaTexts
              /\ Formula(y[r]) = Moved(Formula(e[RowBefore(r, w)]), w)
         /\ \/ y[r] = t[r]
            \/ /\ IsFormula(t[r])
               /\ Moved(Formula(e[RowBefore(r, w)]), w) # Formula(e[RowBefore(r, w)])
  BY <1>2, <1>4, <1>7, <1>8, GeneratedRows
<1>14. \A delta \in GeneratedPatch(e, w) :
         /\ delta.to \in 1 .. n /\ Fits(delta, w) /\ IsFormula(t[delta.to])
         /\ delta.before = Formula(e[delta.from])
         /\ delta.after = Moved(delta.before, w)
         /\ delta.from = RowBefore(delta.to, w)
  <2>1. \A delta \in GeneratedPatch(e, w) :
          /\ delta.to \in 1 .. n /\ Fits(delta, w) /\ IsFormula(t[delta.to])
          /\ delta.before = Formula(e[delta.from])
          /\ delta.after = Moved(delta.before, w)
    BY <1>2, <1>4, <1>7, <1>8, GeneratedDeltas
  <2> QED
    BY <2>1 DEF Fits
<1>15. \A r \in 1 .. Rows(doc, m) :
         /\ IF FreshRow(doc, m, r) THEN s[r] = Blank
            ELSE RowBefore(r, m) \in 1 .. n /\ s[r] = doc[RowBefore(r, m)]
         /\ IsFormula(s[r]) => Formula(x[r]) = Moved(Formula(doc[RowBefore(r, m)]), m)
         /\ \/ x[r] = s[r]
            \/ /\ IsFormula(s[r])
               /\ Moved(Formula(doc[RowBefore(r, m)]), m) # Formula(doc[RowBefore(r, m)])
  BY GeneratedRows, ShiftedRows
<1>16. \A r \in 1 .. Rows(doc, m) :
         /\ IsFormula(s[r])
         /\ Moved(Formula(doc[RowBefore(r, m)]), m) # Formula(doc[RowBefore(r, m)])
         => \E delta \in patch : delta.to = r
  BY <1>3, GeneratedDeltas
<1>17. inverse = {Reversed(delta) : delta \in patch}
  BY DEF Inverted, Reversed
<1>18. \A delta \in patch :
         /\ Reversed(delta) \in Deltas /\ Fits(Reversed(delta), w)
         /\ Moved(delta.before, m) \in {delta.before, delta.after}
         /\ Moved(delta.after, w) \in {delta.before, delta.after}
         /\ Moved(delta.before, m) = delta.before => delta.before[1] = "lost"
         /\ delta.before \in FormulaTexts /\ delta.after \in FormulaTexts
         /\ delta.from = RowBefore(delta.to, m) /\ delta.to = RowBefore(delta.from, w)
  <2> SUFFICES ASSUME NEW delta \in patch
               PROVE  /\ Reversed(delta) \in Deltas /\ Fits(Reversed(delta), w)
                      /\ Moved(delta.before, m) \in {delta.before, delta.after}
                      /\ Moved(delta.after, w) \in {delta.before, delta.after}
                      /\ Moved(delta.before, m) = delta.before => delta.before[1] = "lost"
                      /\ delta.before \in FormulaTexts /\ delta.after \in FormulaTexts
                      /\ delta.from = RowBefore(delta.to, m) /\ delta.to = RowBefore(delta.from, w)
    OBVIOUS
  <2>1. /\ Reversed(delta) \in Deltas /\ Fits(Reversed(delta), w)
        /\ Moved(delta.before, m) \in {delta.before, delta.after}
        /\ Moved(delta.after, w) \in {delta.before, delta.after}
        /\ Moved(delta.before, m) = delta.before => delta.before[1] = "lost"
    BY <1>3, FitsBothWays
  <2>2. Fits(delta, m)
    BY <1>3
  <2>3. /\ delta.from = RowBefore(delta.to, m)
        /\ delta.before \in FormulaTexts /\ delta.after \in FormulaTexts
    BY <2>2 DEF Fits, Deltas
  <2>4. delta.to = RowBefore(delta.from, w)
    BY <2>1 DEF Fits, Reversed
  <2> QED
    BY <2>1, <2>3, <2>4
<1>19. /\ z \in Docs /\ Len(z) = n
       /\ \A r \in 1 .. n :
            \/ (\A delta \in inverse : delta.to # r) /\ z[r] = y[r]
            \/ \E delta \in inverse :
                 delta.to = r /\ IsFormula(z[r]) /\ Formula(z[r]) = delta.after
  <2> HIDE DEF y, n
  <2>1. \A delta \in inverse : delta.after \in FormulaTexts
    BY <1>17, <1>18 DEF Reversed
  <2> HIDE DEF inverse
  <2> QED
    BY <1>11, <2>1, RepairedRows
<1>20. \A r \in 1 .. n : z[r] \in Cell /\ (IsFormula(z[r]) => ~ z[r].cached)
  BY <1>19, DocsAre
<1>21. \A r \in Nat \ {0} :
         (w.id = "rows.inserted" => r # w.at) =>
           /\ RowBefore(RowBefore(r, w), m) = r
           /\ m.id = "rows.inserted" => RowBefore(r, w) # m.at
  <2>1. <<"lost", 0>> \in FormulaTexts
    BY DEF FormulaTexts
  <2> QED
    BY <1>2, <2>1, MovedBack
<1> HIDE DEF x, s, n, y, t, inverse, z
\* A row a delta is about.
<1>22. ASSUME NEW delta \in patch
       PROVE  /\ delta.from \in 1 .. n /\ ~ FreshRow(e, w, delta.from)
              /\ IsFormula(t[delta.from]) /\ t[delta.from] = e[delta.to]
              /\ \/ Formula(e[delta.to]) = delta.after
                 \/ Formula(e[delta.to]) = delta.before /\ delta.before[1] = "lost"
              /\ Formula(y[delta.from]) = Moved(Formula(e[delta.to]), w)
              /\ Formula(y[delta.from]) \in {delta.before, delta.after}
  <2>1. /\ delta.to \in 1 .. Rows(doc, m) /\ ~ FreshRow(doc, m, delta.to)
        /\ delta.from = RowBefore(delta.to, m) /\ delta.to = RowBefore(delta.from, w)
        /\ delta.before \in FormulaTexts /\ delta.after \in FormulaTexts
    BY <1>3, <1>18
  <2>2. delta.from \in 1 .. n /\ s[delta.to] = doc[delta.from]
    BY <1>15, <2>1
  <2>3. IsFormula(s[delta.to])
    BY <1>1, <1>3, <2>1, <2>2, FormulaOf
  <2>4. Formula(x[delta.to]) = Moved(delta.before, m)
    BY <1>3, <1>15, <2>1, <2>3
  <2>5. \/ Formula(e[delta.to]) = delta.after
        \/ Formula(e[delta.to]) = delta.before /\ delta.before[1] = "lost"
    <3>1. CASE e[delta.to] = after[delta.to]
      BY <1>3, <3>1
    <3>2. CASE e[delta.to] = x[delta.to]
      BY <1>18, <2>4, <3>2
    <3> QED
      BY <1>4, <2>1, <3>1, <3>2
  <2>6. e[delta.to] \in Cell
    BY <1>4, <2>1, DocsAre
  <2>7. IsFormula(e[delta.to])
    BY <2>1, <2>5, <2>6, FormulaOf
  <2>8. ~ FreshRow(e, w, delta.from)
    <3>1. Fits(Reversed(delta), w)
      BY <1>18
    <3> QED
      BY <1>2, <1>9, <3>1 DEF Fits, Reversed
  <2>9. t[delta.from] = e[delta.to]
    BY <1>12, <2>1, <2>2, <2>8
  <2>10. Formula(y[delta.from]) = Moved(Formula(e[delta.to]), w)
    BY <1>13, <2>1, <2>2, <2>7, <2>9
  <2>11. delta.before[1] = "lost" => Moved(delta.before, w) = delta.before
    BY <1>2, <2>1, MovedBack
  <2> QED
    BY <1>18, <2>2, <2>5, <2>7, <2>8, <2>9, <2>10, <2>11
<1>23. Repairable(y, GeneratedPatch(e, w), inverse)
  <2>1. ASSUME NEW left \in GeneratedPatch(e, w), NEW right \in inverse, left.to = right.to
        PROVE  left = right
    <3>1. PICK delta \in patch : right = Reversed(delta)
      BY <1>17
    <3>2. /\ right.to = delta.from /\ right.from = delta.to
          /\ right.before = delta.after /\ right.after = delta.before
      BY <3>1 DEF Reversed
    <3>3. /\ left.from = delta.to /\ left.before = Formula(e[delta.to])
          /\ left.after = Moved(left.before, w) /\ Fits(left, w)
      BY <1>14, <1>18, <2>1, <3>2
    <3>4. left.before = delta.after
      <4>1. delta.before[1] = "lost" => Moved(delta.before, w) = delta.before
        BY <1>2, <1>18, MovedBack
      <4>2. left.before # left.after
        BY <3>3 DEF Fits
      <4> QED
        BY <1>22, <3>3, <4>1, <4>2
    <3> QED
      BY <1>2, <1>18, <2>1, <3>1, <3>2, <3>3, <3>4, FitsOneWay
  <2>2. ASSUME NEW right \in inverse
        PROVE  /\ CellAt(y, right.to) # Blank
               /\ Formula(CellAt(y, right.to)) \in {right.before, right.after}
    <3>1. PICK delta \in patch : right = Reversed(delta)
      BY <1>17
    <3>2. right.to = delta.from /\ right.before = delta.after /\ right.after = delta.before
      BY <3>1 DEF Reversed
    <3>3. CellAt(y, right.to) = y[delta.from] /\ delta.from \in 1 .. n
      BY <1>11, <1>22, <3>2 DEF CellAt
    <3>4. Formula(y[delta.from]) \in {delta.before, delta.after}
      BY <1>22
    <3>5. Formula(y[delta.from]) \in FormulaTexts
      BY <1>18, <3>4
    <3> QED
      BY <3>2, <3>3, <3>4, <3>5, BlankIsCell
  <2> QED
    BY <2>1, <2>2 DEF Repairable
<1>24. ASSUME NEW r \in 1 .. n
       PROVE  z[r] = IF m.id = "rows.deleted" /\ r = m.at THEN Blank ELSE doc[r]
  <2>1. CASE \E delta \in inverse : delta.to = r /\ IsFormula(z[r]) /\ Formula(z[r]) = delta.after
    <3>1. PICK delta \in patch :
            Reversed(delta).to = r /\ IsFormula(z[r]) /\ Formula(z[r]) = Reversed(delta).after
      BY <1>17, <2>1
    <3>2. delta.from = r /\ Formula(z[r]) = delta.before
      BY <3>1 DEF Reversed
    <3>3. Formula(z[r]) = Formula(doc[r]) /\ ~ FreshRow(e, w, r)
      BY <1>3, <1>22, <3>2
    <3>4. IsFormula(doc[r])
      BY <1>1, <1>18, <3>2, <3>3, FormulaOf
    <3>5. z[r] = doc[r]
      BY <1>1, <1>20, <3>1, <3>3, <3>4, SameFormula
    <3> QED
      BY <1>9, <3>3, <3>5
  <2>2. CASE (\A delta \in inverse : delta.to # r) /\ z[r] = y[r] /\ FreshRow(e, w, r)
    <3>1. t[r] = Blank
      BY <1>12, <2>2
    <3>2. y[r] = t[r]
      BY <1>13, <3>1, BlankIsCell
    <3> QED
      BY <1>9, <2>2, <3>1, <3>2
  <2>3. CASE (\A delta \in inverse : delta.to # r) /\ z[r] = y[r] /\ ~ FreshRow(e, w, r)
    <3> DEFINE q == RowBefore(r, w)
    <3>1. q \in 1 .. Rows(doc, m) /\ t[r] = e[q]
      BY <1>12, <2>3
    <3>2. RowBefore(q, m) = r /\ ~ FreshRow(doc, m, q)
      BY <1>1, <1>2, <1>9, <1>10, <1>21, <2>3
    <3> HIDE DEF q
    <3>3. s[q] = doc[r]
      BY <1>15, <3>1, <3>2
    <3>4. \A delta \in patch : delta.to # q
      <4> SUFFICES ASSUME NEW delta \in patch, delta.to = q PROVE FALSE
        OBVIOUS
      <4>1. delta.from = r
        BY <1>18, <3>2
      <4>2. Reversed(delta) \in inverse /\ Reversed(delta).to = r
        BY <1>17, <4>1 DEF Reversed
      <4> QED
        BY <2>3, <4>2
    <3>5. ~ (IsFormula(s[q]) /\ Moved(Formula(doc[r]), m) # Formula(doc[r]))
      BY <1>16, <3>1, <3>2, <3>4
    <3>6. e[q] = doc[r]
      BY <1>3, <1>4, <1>15, <3>1, <3>2, <3>3, <3>4, <3>5
    <3>7. IsFormula(doc[r]) => Moved(Formula(doc[r]), w) = Formula(doc[r])
      <4>1. IsFormula(doc[r]) => Formula(doc[r]) \in FormulaTexts
        BY <1>1, FormulaOf
      <4> QED
        BY <3>3, <3>5, <4>1, MovedBack
    <3>8. y[r] = t[r]
      BY <1>13, <3>1, <3>6, <3>7 DEF q
    <3> QED
      BY <1>9, <2>3, <3>1, <3>6, <3>8
  <2> QED
    BY <1>19, <2>1, <2>2, <2>3
<1> QED
  BY <1>7, <1>19, <1>23, <1>24 DEF n, y, z, inverse


-----------------------------------------------------------------------------
(* The operations of the theorem.                                          *)

OneMove(mutations) ==
  \A i, j \in 1 .. Len(mutations) : IsAxis(mutations[i]) /\ IsAxis(mutations[j]) => i = j

\* No two insertions, and no two deletions, are of the same row.
MovesApart(mutations) ==
  \A i, j \in 1 .. Len(mutations) :
    /\ IsAxis(mutations[i])
    /\ mutations[i].id = mutations[j].id /\ mutations[i].at = mutations[j].at
    => i = j

\* A request writes within the bound on rows; it moves different rows, and if it
\* is an undo it moves rows once at most.
ModestRequests ==
  \A request \in Requests :
    /\ \A i \in DOMAIN request.mutations : request.mutations[i].at <= MaxRows
    /\ MovesApart(request.mutations)
    /\ request.target # NoOperation => OneMove(request.mutations)

\* No formula that is written has a cached value or was lost before.
PlainValues ==
  \A value \in Values :
    value.kind # "lost" /\ (IsFormula(value) => ~ value.cached)

\* No formula of the first document has a cached value.
PlainDocuments ==
  \A doc \in InitialDocuments :
    /\ Len(doc) <= MaxRows
    /\ \A r \in DOMAIN doc : IsFormula(doc[r]) => ~ doc[r].cached

Modest(mutations) ==
  /\ mutations \in Seq(Mutation) /\ Len(mutations) > 0
  /\ \A i \in 1 .. Len(mutations) :
       /\ mutations[i].at <= MaxRows
       /\ mutations[i].value \in Cell /\ mutations[i].value.kind # "lost"
       /\ IsFormula(mutations[i].value) => ~ mutations[i].value.cached
  /\ MovesApart(mutations)

LEMMA RequestsAreModest ==
  ASSUME ModestRequests, PlainValues, NEW request \in Requests
  PROVE  Modest(request.mutations)
<1> DEFINE ms == request.mutations
<1>1. ms \in Seq(Mutation) /\ ms # << >>
  BY RequestsAssumption DEF Envelope
<1> HIDE DEF ms
<1>2. /\ Len(ms) \in Nat /\ DOMAIN ms = 1 .. Len(ms) /\ Len(ms) > 0
      /\ \A i \in 1 .. Len(ms) : ms[i] \in Mutation
  BY <1>1, LenProperties, EmptySeq
<1>3. \A i \in 1 .. Len(ms) : ms[i].value \in Values
  BY <1>2 DEF Mutation
<1>4. \A i \in 1 .. Len(ms) :
        /\ ms[i].value \in Cell /\ ms[i].value.kind # "lost"
        /\ IsFormula(ms[i].value) => ~ ms[i].value.cached
  BY <1>3, CellsAssumption DEF PlainValues
<1>5. /\ \A i \in 1 .. Len(ms) : ms[i].at <= MaxRows
      /\ MovesApart(ms)
  BY <1>2 DEF ModestRequests, ms
<1> QED
  BY <1>1, <1>2, <1>4, <1>5 DEF Modest, ms

\* A cell that is as it was, or has been written since.
Remembers(cell, formula) == Formula(cell) = formula \/ cell.kind # "lost"

Fitting(doc) == doc \in Docs /\ Len(doc) <= MaxRows

LEMMA WriteRemembers ==
  ASSUME NEW doc, Fitting(doc), NEW m, m.at \in Nat \ {0}, m.at <= MaxRows,
         m.value \in Cell, m.value.kind # "lost", IsFormula(m.value) => ~ m.value.cached
  PROVE  /\ Fitting(Written(doc, m)) /\ Repaired(Written(doc, m), {}) = Written(doc, m)
         /\ \A r, formula :
              Remembers(CellAt(doc, r), formula) => Remembers(CellAt(Written(doc, m), r), formula)
<1> DEFINE d == Written(doc, m)
<1>1. doc \in Docs /\ Len(doc) <= MaxRows
  BY DEF Fitting
<1>2. /\ d \in Docs
      /\ Len(d) <= Len(doc) \/ Len(d) <= m.at
      /\ \A r \in 1 .. Len(d) :
           d[r] = IF r = m.at THEN m.value
                  ELSE IF r \in 1 .. Len(doc) THEN doc[r] ELSE Blank
      /\ Len(doc) <= Len(d)
  BY <1>1, WrittenRows
<1> HIDE DEF d
<1>3. /\ Len(d) \in Nat /\ DOMAIN d = 1 .. Len(d) /\ Len(doc) \in Nat /\ DOMAIN doc = 1 .. Len(doc)
      /\ MaxRows \in Nat
  BY <1>1, <1>2, DocsAre, CellsAssumption
<1>4. Fitting(d)
  BY <1>1, <1>2, <1>3 DEF Fitting
<1>5. Repaired(d, {}) = d
  <2>1. Repaired(d, {}) = [r \in DOMAIN d |-> d[r]]
    BY DEF Repaired
  <2>2. d = [r \in DOMAIN d |-> d[r]]
    BY <1>2, LenProperties DEF Docs
  <2> QED
    BY <2>1, <2>2
<1>6. ASSUME NEW r, NEW formula, Remembers(CellAt(doc, r), formula)
      PROVE  Remembers(CellAt(d, r), formula)
  <2>1. CASE r \in 1 .. Len(d) /\ r = m.at
    BY <1>2, <1>3, <2>1 DEF Remembers, CellAt
  <2>2. CASE r \in 1 .. Len(d) /\ r # m.at
    <3>1. CellAt(d, r) = CellAt(doc, r)
      BY <1>2, <1>3, <2>2 DEF CellAt
    <3> QED
      BY <1>6, <3>1
  <2>3. CASE r \notin 1 .. Len(d)
    BY <1>3, <2>3 DEF Remembers, CellAt, Blank
  <2> QED
    BY <2>1, <2>2, <2>3
<1> QED
  BY <1>4, <1>5, <1>6 DEF d

\* Documents that an operation went through, with the patches stored for it.
Trace(g, before, after, mutations, stored) ==
  /\ DOMAIN g = 0 .. Len(mutations)
  /\ \A i \in 0 .. Len(mutations) : Fitting(g[i])
  /\ g[0] = before /\ g[Len(mutations)] = after
  /\ \A i \in 1 .. Len(mutations) :
       /\ InBounds(g[i - 1], mutations[i])
       /\ IF IsAxis(mutations[i])
          THEN Exact(stored[i], g[i - 1], g[i], mutations[i])
          ELSE g[i] = Written(g[i - 1], mutations[i])

LEMMA MutationsAre ==
  ASSUME NEW mutations, Modest(mutations), NEW i \in 1 .. Len(mutations), NEW doc,
         InBounds(doc, mutations[i])
  PROVE  /\ mutations[i].at \in Nat \ {0}
         /\ IsAxis(mutations[i]) => Axis(mutations[i])
         /\ ~ IsAxis(mutations[i]) => mutations[i].id \in {"cell.set", "cell.restore"}
<1>1. mutations[i] \in Mutation
  BY LenProperties DEF Modest
<1>2. mutations[i].at \in Nat /\ mutations[i].id \in MutationIds
  BY <1>1 DEF Mutation
<1>3. mutations[i].at >= 1
  <2>1. CASE mutations[i].id = "rows.inserted"
    BY <1>2, <2>1 DEF InBounds
  <2>2. CASE mutations[i].id = "rows.deleted"
    BY <1>2, <2>2 DEF InBounds
  <2>3. CASE mutations[i].id \notin {"rows.inserted", "rows.deleted"}
    BY <1>2, <2>3 DEF InBounds
  <2> QED
    BY <2>1, <2>2, <2>3
<1> QED
  BY <1>2, <1>3 DEF Axis, IsAxis, MutationIds

\* An operation that moves rows once only writes after that.
LEMMA TraceRemembers ==
  ASSUME NEW g, NEW before, NEW after, NEW mutations, NEW stored, Modest(mutations),
         OneMove(mutations),
         Trace(g, before, after, mutations, stored),
         NEW k \in 1 .. Len(mutations), IsAxis(mutations[k]), NEW delta \in stored[k]
  PROVE  Remembers(CellAt(after, delta.to), delta.after)
<1> DEFINE n == Len(mutations)
           T == {i \in k .. n : ~ Remembers(CellAt(g[i], delta.to), delta.after)}
<1>1. n \in Nat /\ k \in Nat /\ k <= n
  BY LenProperties DEF Modest
<1>2. Remembers(CellAt(g[k], delta.to), delta.after)
  <2>1. Exact(stored[k], g[k - 1], g[k], mutations[k])
    BY DEF Trace
  <2>2. g[k] \in Docs /\ delta.to \in 1 .. Len(g[k]) /\ Formula(g[k][delta.to]) = delta.after
    BY <2>1 DEF Exact
  <2>3. CellAt(g[k], delta.to) = g[k][delta.to]
    BY <2>2, DocsAre DEF CellAt
  <2> QED
    BY <2>2, <2>3 DEF Remembers
<1>3. ASSUME T # {} PROVE FALSE
  <2>1. T \in SUBSET Nat
    BY <1>1
  <2>2. PICK i \in T : \A j \in T : i <= j
    <3> HIDE DEF T
    <3> QED
      BY <1>3, <2>1, LeastExists
  <2>3. i # k /\ i \in 1 .. n /\ i - 1 \in k .. n /\ i - 1 \notin T /\ i - 1 \in 0 .. n
    BY <1>1, <1>2, <2>2
  <2>4. Remembers(CellAt(g[i - 1], delta.to), delta.after)
    BY <2>3
  <2>5. ~ IsAxis(mutations[i])
    BY <1>1, <2>3 DEF OneMove
  <2>6. /\ Fitting(g[i - 1]) /\ InBounds(g[i - 1], mutations[i])
        /\ g[i] = Written(g[i - 1], mutations[i])
    BY <2>3, <2>5 DEF Trace
  <2>7. /\ mutations[i].at \in Nat \ {0} /\ mutations[i].at <= MaxRows
        /\ mutations[i].value \in Cell /\ mutations[i].value.kind # "lost"
        /\ IsFormula(mutations[i].value) => ~ mutations[i].value.cached
    BY <2>3, <2>6, MutationsAre DEF Modest
  <2>8. Remembers(CellAt(g[i], delta.to), delta.after)
    BY <2>4, <2>6, <2>7, WriteRemembers
  <2> QED
    BY <2>2, <2>8
<1>4. Remembers(CellAt(g[n], delta.to), delta.after)
  BY <1>1, <1>3
<1> QED
  BY <1>4 DEF Trace


\* A mutation that is not rejected did all of this.
LEMMA StepTaken ==
  ASSUME NEW state, DOMAIN state = {"doc", "patches", "ok"}, NEW m, NEW targets, NEW inverse
  PROVE  LET after == ApplyMutation(state, m, targets, inverse)
         IN  /\ DOMAIN after = {"doc", "patches", "ok"}
             /\ after.ok =>
                  /\ state.ok /\ InBounds(state.doc, m)
                  /\ Repairable(Reduced(state.doc, m), GeneratedPatch(state.doc, m), inverse)
                  /\ after.doc = Repaired(Reduced(state.doc, m), inverse)
                  /\ after.patches = Append(state.patches, GeneratedPatch(state.doc, m) \cup inverse)
<1> DEFINE generated == GeneratedPatch(state.doc, m)
           d == Repaired(Reduced(state.doc, m), inverse)
           p == Append(state.patches, generated \cup inverse)
           good == /\ state.ok
                   /\ InBounds(state.doc, m)
                   /\ ~ \E target \in targets : Cardinality(Originals(m, target)) > 1
                   /\ Repairable(Reduced(state.doc, m), generated, inverse)
           after == ApplyMutation(state, m, targets, inverse)
<1>1. after = IF good THEN [doc |-> d, patches |-> p, ok |-> TRUE] ELSE [state EXCEPT !.ok = FALSE]
  BY DEF ApplyMutation
<1> HIDE DEF after, d, p
<1>2. CASE good
  <2>1. after = [doc |-> d, patches |-> p, ok |-> TRUE]
    BY <1>1, <1>2, Zenon
  <2>2. DOMAIN after = {"doc", "patches", "ok"} /\ after.doc = d /\ after.patches = p
    BY <2>1
  <2> QED
    BY <1>2, <2>2 DEF after, d, p
<1>3. CASE ~ good
  <2>1. after = [state EXCEPT !.ok = FALSE]
    BY <1>1, <1>3, Zenon
  <2>2. DOMAIN after = {"doc", "patches", "ok"} /\ ~ after.ok
    BY <2>1
  <2> QED
    BY <2>2 DEF after
<1> QED
  BY <1>2, <1>3


\* The documents between the mutations of an operation that was not rejected.
Run(g, doc, mutations, inverses, applied) ==
  /\ DOMAIN g = 0 .. Len(mutations)
  /\ g[0] = doc /\ g[Len(mutations)] = applied.doc
  /\ \A i \in 1 .. Len(mutations) :
       /\ InBounds(g[i - 1], mutations[i])
       /\ Repairable(Reduced(g[i - 1], mutations[i]),
                     GeneratedPatch(g[i - 1], mutations[i]), inverses[i])
       /\ g[i] = Repaired(Reduced(g[i - 1], mutations[i]), inverses[i])
       /\ applied.patches[i] = GeneratedPatch(g[i - 1], mutations[i]) \cup inverses[i]

LEMMA RunGoesThrough ==
  ASSUME NEW doc, NEW mutations, Len(mutations) \in Nat, NEW targets, NEW inverses,
         NEW applied, applied = ApplyMutations(doc, mutations, targets, inverses), applied.ok
  PROVE  \E g : Run(g, doc, mutations, inverses, applied)
<1> DEFINE n == Len(mutations)
<1>1. PICK f : Steps(f, doc, mutations, targets, inverses, n) /\ applied = f[n]
  BY AppliedInSteps
<1>2. /\ f[0] = Started(doc)
      /\ \A i \in 1 .. n : f[i] = ApplyMutation(f[i - 1], mutations[i], targets, inverses[i])
  BY <1>1 DEF Steps
<1> HIDE DEF n
<1> DEFINE State(i) == DOMAIN f[i] = {"doc", "patches", "ok"}
           T == {i \in 0 .. n : ~ State(i)}
<1>3. n \in Nat
  BY DEF n
<1>4. ASSUME NEW i \in 1 .. n, State(i - 1)
      PROVE  /\ State(i)
             /\ f[i].ok =>
                  /\ f[i - 1].ok /\ InBounds(f[i - 1].doc, mutations[i])
                  /\ Repairable(Reduced(f[i - 1].doc, mutations[i]),
                                GeneratedPatch(f[i - 1].doc, mutations[i]), inverses[i])
                  /\ f[i].doc = Repaired(Reduced(f[i - 1].doc, mutations[i]), inverses[i])
                  /\ f[i].patches = Append(f[i - 1].patches,
                                      GeneratedPatch(f[i - 1].doc, mutations[i]) \cup inverses[i])
  <2>1. PICK state, m, inverse : state = f[i - 1] /\ m = mutations[i] /\ inverse = inverses[i]
    OBVIOUS
  <2>2. DOMAIN state = {"doc", "patches", "ok"} /\ f[i] = ApplyMutation(state, m, targets, inverse)
    BY <1>2, <1>4, <2>1
  <2>3. LET after == ApplyMutation(state, m, targets, inverse)
        IN  /\ DOMAIN after = {"doc", "patches", "ok"}
            /\ after.ok =>
                 /\ state.ok /\ InBounds(state.doc, m)
                 /\ Repairable(Reduced(state.doc, m), GeneratedPatch(state.doc, m), inverse)
                 /\ after.doc = Repaired(Reduced(state.doc, m), inverse)
                 /\ after.patches = Append(state.patches, GeneratedPatch(state.doc, m) \cup inverse)
    BY ONLY <2>2, StepTaken
  <2> QED
    BY <2>1, <2>2, <2>3
<1>5. State(0)
  BY <1>2 DEF Started
<1> HIDE DEF State
<1>6. ASSUME T # {} PROVE FALSE
  <2>1. T \in SUBSET Nat
    BY <1>3
  <2>2. PICK i \in T : \A k \in T : i <= k
    <3> HIDE DEF T
    <3> QED
      BY <1>6, <2>1, LeastExists
  <2>3. i # 0 /\ i \in 1 .. n /\ i - 1 \in 0 .. n /\ i - 1 \notin T
    BY <1>3, <1>5, <2>2
  <2> QED
    BY <1>4, <2>2, <2>3
<1>7. \A i \in 1 .. n : State(i - 1)
  <2>1. \A i \in 1 .. n : i - 1 \in 0 .. n
    BY <1>3
  <2> QED
    BY <1>6, <2>1
<1> DEFINE R == {j \in 0 .. n : ~ f[n - j].ok}
<1>8. ASSUME R # {} PROVE FALSE
  <2>1. R \in SUBSET Nat
    BY <1>3
  <2>2. PICK j \in R : \A k \in R : j <= k
    <3> HIDE DEF R
    <3> QED
      BY <1>8, <2>1, LeastExists
  <2>3. j # 0
    <3>1. n - 0 = n
      BY <1>3
    <3> QED
      BY <1>1, <2>2, <3>1
  <2>4. j - 1 \in 0 .. n /\ j - 1 \notin R /\ n - (j - 1) \in 1 .. n /\ (n - (j - 1)) - 1 = n - j
    BY <1>3, <2>2, <2>3
  <2>5. f[n - (j - 1)].ok
    BY <2>4
  <2>6. f[n - j].ok
    BY <1>4, <1>7, <2>4, <2>5
  <2> QED
    BY <2>2, <2>6
<1>9. \A i \in 0 .. n : f[i].ok
  <2>1. \A i \in 0 .. n : n - i \in 0 .. n /\ n - (n - i) = i
    BY <1>3
  <2> QED
    BY <1>8, <2>1
<1> DEFINE P(i) == GeneratedPatch(f[i - 1].doc, mutations[i]) \cup inverses[i]
           S == {P(i) : i \in 1 .. n}
           HasPatches(i) == /\ f[i].patches \in Seq(S) /\ Len(f[i].patches) = i
                            /\ \A k \in 1 .. i : f[i].patches[k] = P(k)
           U == {i \in 0 .. n : ~ HasPatches(i)}
<1>10. \A i \in 1 .. n : P(i) \in S /\ f[i].patches = Append(f[i - 1].patches, P(i))
  <2>1. \A i \in 1 .. n : f[i].patches = Append(f[i - 1].patches, P(i))
    BY <1>3, <1>4, <1>7, <1>9
  <2> HIDE DEF P
  <2> QED
    BY <2>1
<1> HIDE DEF P, S
<1>11. HasPatches(0)
  <2>1. f[0].patches = << >>
    BY <1>2 DEF Started
  <2>2. << >> \in Seq(S) /\ Len(<< >>) = 0
    BY EmptySeq
  <2> QED
    BY <2>1, <2>2
<1>12. ASSUME U # {} PROVE FALSE
  <2>1. U \in SUBSET Nat
    BY <1>3
  <2>2. PICK i \in U : \A k \in U : i <= k
    <3> HIDE DEF U
    <3> QED
      BY <1>12, <2>1, LeastExists
  <2>3. i # 0 /\ i \in 1 .. n /\ i - 1 \in 0 .. n /\ i - 1 \notin U
    BY <1>3, <1>11, <2>2
  <2>4. HasPatches(i - 1)
    BY <2>3
  <2> DEFINE s == f[i - 1].patches
  <2>5. s \in Seq(S) /\ Len(s) = i - 1 /\ P(i) \in S /\ f[i].patches = Append(s, P(i))
    BY <1>10, <2>3, <2>4
  <2> HIDE DEF s
  <2>6. /\ Append(s, P(i)) \in Seq(S) /\ Len(Append(s, P(i))) = Len(s) + 1
        /\ \A k \in 1 .. Len(s) : Append(s, P(i))[k] = s[k]
        /\ Append(s, P(i))[Len(s) + 1] = P(i)
    BY <2>5, AppendProperties
  <2>7. \A k \in 1 .. i : f[i].patches[k] = P(k)
    <3>1. \A k \in 1 .. i - 1 : s[k] = P(k)
      BY <2>4 DEF s
    <3> QED
      BY <1>3, <2>3, <2>5, <2>6, <3>1
  <2>8. HasPatches(i)
    BY <1>3, <2>3, <2>5, <2>6, <2>7
  <2> QED
    BY <2>2, <2>8
<1>13. HasPatches(n)
  BY <1>3, <1>12
<1> DEFINE g == [i \in 0 .. n |-> f[i].doc]
<1>14. DOMAIN g = 0 .. n /\ g[0] = doc /\ g[n] = applied.doc
  BY <1>1, <1>2, <1>3 DEF Started
<1>15. ASSUME NEW i \in 1 .. n
       PROVE  /\ InBounds(g[i - 1], mutations[i])
              /\ Repairable(Reduced(g[i - 1], mutations[i]),
                            GeneratedPatch(g[i - 1], mutations[i]), inverses[i])
              /\ g[i] = Repaired(Reduced(g[i - 1], mutations[i]), inverses[i])
              /\ applied.patches[i] = GeneratedPatch(g[i - 1], mutations[i]) \cup inverses[i]
  <2>1. g[i] = f[i].doc /\ g[i - 1] = f[i - 1].doc /\ f[i].ok
    BY <1>3, <1>9
  <2>2. applied.patches[i] = P(i)
    BY <1>1, <1>13
  <2> HIDE DEF g
  <2> QED
    BY <1>4, <1>7, <2>1, <2>2 DEF P
<1> HIDE DEF g
<1> QED
  BY <1>14, <1>15 DEF Run, n


\* What the patches of an undone operation say of the document they repair.
Applicable(doc, mutations, inverses) ==
  \A i \in 1 .. Len(mutations) :
    IF IsAxis(mutations[i])
    THEN \A delta \in inverses[i] :
           Fits(delta, mutations[i]) /\ Remembers(CellAt(doc, delta.from), delta.before)
    ELSE inverses[i] = {}

\* The documents are what the mutations make of them, and nothing is repaired.
Bare(g, mutations) == \A i \in 1 .. Len(mutations) : g[i] = Reduced(g[i - 1], mutations[i])

\* An operation that repairs formulas moves rows once.
LEMMA RunIsTraced ==
  ASSUME NEW doc, Fitting(doc), NEW mutations, Modest(mutations), NEW targets, NEW inverses,
         Applicable(doc, mutations, inverses),
         OneMove(mutations) \/ \A i \in 1 .. Len(mutations) : inverses[i] = {},
         NEW applied, applied = ApplyMutations(doc, mutations, targets, inverses), applied.ok
  PROVE  \E g : /\ Trace(g, doc, applied.doc, mutations, applied.patches)
                /\ OneMove(mutations) \/ Bare(g, mutations)
<1> DEFINE n == Len(mutations)
<1>1. n \in Nat
  BY LenProperties DEF Modest
<1>2. PICK g :
        /\ DOMAIN g = 0 .. n /\ g[0] = doc /\ g[n] = applied.doc
        /\ \A i \in 1 .. n :
             /\ InBounds(g[i - 1], mutations[i])
             /\ Repairable(Reduced(g[i - 1], mutations[i]),
                           GeneratedPatch(g[i - 1], mutations[i]), inverses[i])
             /\ g[i] = Repaired(Reduced(g[i - 1], mutations[i]), inverses[i])
             /\ applied.patches[i] = GeneratedPatch(g[i - 1], mutations[i]) \cup inverses[i]
  <2>1. PICK g : Run(g, doc, mutations, inverses, applied)
    BY <1>1, RunGoesThrough
  <2> QED
    BY <2>1 DEF Run
<1> DEFINE Ready(i) ==
             \A k \in i + 1 .. n : IsAxis(mutations[k]) =>
               \A delta \in inverses[k] : Remembers(CellAt(g[i], delta.from), delta.before)
           Sound(i) == Fitting(g[i]) /\ Ready(i)
           Step(i) == IF IsAxis(mutations[i])
                      THEN Exact(applied.patches[i], g[i - 1], g[i], mutations[i])
                      ELSE g[i] = Written(g[i - 1], mutations[i])
           T == {i \in 0 .. n : ~ Sound(i)}
<1>3. ASSUME NEW i \in 1 .. n, Sound(i - 1)
      PROVE  Sound(i) /\ Step(i)
  <2> DEFINE m == mutations[i]
             d == g[i - 1]
             inverse == inverses[i]
  <2>1. Fitting(d) /\ InBounds(d, m)
    BY <1>2, <1>3
  <2>2. m.at \in Nat \ {0} /\ (IsAxis(m) => Axis(m))
    BY <2>1, MutationsAre
  <2>3. i \in i .. n /\ i = (i - 1) + 1 /\ i \in Nat
    BY <1>1
  <2>4. CASE IsAxis(m)
    <3>1. \A delta \in inverse :
            /\ Fits(delta, m)
            /\ Remembers(CellAt(d, delta.from), delta.before)
      <4>1. \A delta \in inverse : Fits(delta, m)
        BY <2>4 DEF Applicable
      <4>2. \A delta \in inverse : Remembers(CellAt(d, delta.from), delta.before)
        BY <1>3, <2>3, <2>4
      <4> QED
        BY <4>1, <4>2
    <3>2. Repairable(Reduced(d, m), GeneratedPatch(d, m), inverse)
      BY <1>2
    <3>3. Exact(GeneratedPatch(d, m) \cup inverse, d, Repaired(Reduced(d, m), inverse), m)
      <4> HIDE DEF d, m, inverse
      <4> QED
        BY <2>1, <2>2, <2>4, <3>1, <3>2, AxisIsExact DEF Fitting, Remembers
    <3>4. Step(i)
      BY <1>2, <2>4, <3>3
    <3>5. g[i] \in Docs /\ Len(g[i]) = Rows(d, m)
      BY <2>4, <3>4 DEF Exact
    <3>6. Fitting(g[i])
      <4>1. Len(d) \in Nat \ {0} /\ Len(d) <= MaxRows /\ MaxRows \in Nat
        BY <2>1, DocsAre, CellsAssumption DEF Fitting
      <4>2. CASE m.id = "rows.inserted"
        <5>1. Rows(d, m) = Len(d) + 1 /\ Len(d) < MaxRows
          BY <2>1, <4>2 DEF Rows, InBounds
        <5> QED
          BY <3>5, <4>1, <5>1 DEF Fitting
      <4>3. CASE m.id # "rows.inserted"
        <5>1. Rows(d, m) <= Len(d) /\ Rows(d, m) \in Nat
          BY <4>1, <4>3 DEF Rows
        <5> HIDE DEF m, d
        <5> QED
          BY <3>5, <4>1, <5>1 DEF Fitting
      <4> QED
        BY <4>2, <4>3
    <3>7. Ready(i)
      <4>1. CASE OneMove(mutations)
        <5>1. \A k \in i + 1 .. n : ~ IsAxis(mutations[k])
          BY <1>1, <2>4, <4>1 DEF OneMove
        <5> QED
          BY <5>1
      <4>2. CASE \A k \in 1 .. n : inverses[k] = {}
        <5>1. \A k \in i + 1 .. n : k \in 1 .. n
          BY <1>1
        <5> QED
          BY <4>2, <5>1
      <4> QED
        BY <4>1, <4>2
    <3> HIDE DEF Step, Ready
    <3> QED
      BY <3>4, <3>6, <3>7
  <2>5. CASE ~ IsAxis(m)
    <3>1. inverse = {}
      BY <2>5 DEF Applicable
    <3>2. /\ m.at \in Nat \ {0} /\ m.at <= MaxRows
          /\ m.value \in Cell /\ m.value.kind # "lost"
          /\ IsFormula(m.value) => ~ m.value.cached
      BY <2>2 DEF Modest
    <3>3. /\ Fitting(Written(d, m)) /\ Repaired(Written(d, m), {}) = Written(d, m)
          /\ \A r, formula :
               Remembers(CellAt(d, r), formula) => Remembers(CellAt(Written(d, m), r), formula)
      <4> HIDE DEF d, m
      <4> QED
        BY <2>1, <3>2, WriteRemembers
    <3>4. g[i] = Written(d, m)
      <4>1. Reduced(d, m) = Written(d, m)
        BY <2>5 DEF Reduced
      <4>2. g[i] = Repaired(Reduced(d, m), inverse)
        BY <1>2
      <4> QED
        BY <3>1, <3>3, <4>1, <4>2
    <3>5. Ready(i)
      <4>1. \A k \in i + 1 .. n : k \in (i - 1) + 1 .. n
        BY <1>1
      <4>2. Ready(i - 1)
        BY <1>3
      <4> QED
        BY <3>3, <3>4, <4>1, <4>2
    <3> HIDE DEF Ready
    <3> QED
      BY <2>5, <3>3, <3>4, <3>5
  <2> QED
    BY <2>4, <2>5
<1>4. Sound(0)
  <2>1. \A k \in 0 + 1 .. n : k \in 1 .. n
    BY <1>1
  <2> QED
    BY <1>2, <2>1 DEF Applicable
<1> HIDE DEF Sound, Step
<1>5. ASSUME T # {} PROVE FALSE
  <2>1. T \in SUBSET Nat
    BY <1>1
  <2>2. PICK i \in T : \A k \in T : i <= k
    <3> HIDE DEF T
    <3> QED
      BY <1>5, <2>1, LeastExists
  <2>3. i # 0 /\ i \in 1 .. n /\ i - 1 \in 0 .. n /\ i - 1 \notin T
    BY <1>1, <1>4, <2>2
  <2> QED
    BY <1>3, <2>2, <2>3
<1>6. ASSUME NEW i \in 1 .. n PROVE Step(i)
  <2>1. i - 1 \in 0 .. n
    BY <1>1
  <2> QED
    BY <1>3, <1>5, <2>1
<1>7. \A i \in 0 .. n : Fitting(g[i])
  BY <1>5 DEF Sound
<1>8. Trace(g, doc, applied.doc, mutations, applied.patches)
  BY <1>2, <1>6, <1>7 DEF Trace, Step
<1>9. ASSUME \A i \in 1 .. n : inverses[i] = {} PROVE Bare(g, mutations)
  <2> SUFFICES ASSUME NEW i \in 1 .. n PROVE g[i] = Reduced(g[i - 1], mutations[i])
    BY DEF Bare
  <2> DEFINE d == Reduced(g[i - 1], mutations[i])
  <2>1. g[i] = Repaired(d, {})
    BY <1>2, <1>9
  <2>2. g[i] = [r \in DOMAIN d |-> d[r]]
    BY <2>1 DEF Repaired
  <2>3. DOMAIN d = 1 .. Len(d) /\ d = [r \in DOMAIN d |-> d[r]]
    <3>1. Fitting(g[i - 1]) /\ InBounds(g[i - 1], mutations[i])
      BY <1>1, <1>2, <1>7
    <3>2. mutations[i].at \in Nat \ {0} /\ (IsAxis(mutations[i]) => Axis(mutations[i]))
      BY <3>1, MutationsAre
    <3>3. d \in Docs
      <4>1. CASE IsAxis(mutations[i])
        BY <3>1, <3>2, <4>1, ReducedRows DEF Fitting
      <4>2. CASE ~ IsAxis(mutations[i])
        <5>1. /\ mutations[i].value \in Cell
              /\ IsFormula(mutations[i].value) => ~ mutations[i].value.cached
          BY DEF Modest
        <5>2. d = Written(g[i - 1], mutations[i])
          BY <4>2 DEF Reduced
        <5> QED
          BY <3>1, <3>2, <5>1, <5>2, WrittenRows DEF Fitting
      <4> QED
        BY <4>1, <4>2
    <3> HIDE DEF d
    <3> QED
      BY <3>3, LenProperties DEF Docs
  <2> QED
    BY <2>2, <2>3
<1> QED
  BY <1>8, <1>9


-----------------------------------------------------------------------------
(* Every operation but a restore has its trace.                            *)

Traced(row) ==
  \E g : /\ Trace(g, history[row.revision - 1], history[row.revision],
                  row.mutations, patches[row.revision])
         /\ OneMove(row.mutations) \/ Bare(g, row.mutations)

SheetsInv ==
  /\ \A r \in 0 .. revision : Fitting(history[r])
  /\ \A row \in operations : IsRestore(row) \/ (Modest(row.mutations) /\ Traced(row))

\* An undo is of the latest operation, which is one of the same client.
LEMMA TargetIsLatest ==
  ASSUME LogInv, NEW request \in Requests, UndoAllowed(request),
         NEW target \in TargetsOf(request)
  PROVE  target \in operations /\ target.revision = revision /\ ~ IsRestore(target)
<1>1. target \in operations /\ target.operationId = request.target
  BY DEF TargetsOf
<1>2. target \in OperationRow /\ request \in Envelope
  BY <1>1, LogFacts, RequestsAssumption
<1>3. request.target # NoOperation
  BY <1>1, <1>2, IdentityAssumption DEF OperationRow
<1>4. PICK row \in operations :
        row.operationId = request.target /\ row.actor = request.actor /\ row.revision = revision
  BY <1>3 DEF UndoAllowed
<1>5. row = target
  BY <1>1, <1>4 DEF LogInv, CommittedOnce
<1>6. row.actor # SystemActor
  BY <1>2, <1>4, IdentityAssumption DEF Envelope
<1>7. ByClient(row)
  BY <1>4, <1>6 DEF LogInv, RowSources, BySystem
<1> QED
  BY <1>1, <1>4, <1>5, <1>7 DEF ByClient

\* The patches of that operation, inverted, can be repaired in the document it made.
LEMMA UndoIsApplicable ==
  ASSUME LogInv, SheetsInv, NEW request \in Requests, UndoAllowed(request),
         Modest(request.mutations),
         \A target \in TargetsOf(request) : OneMove(target.mutations)
  PROVE  Applicable(history[revision], request.mutations,
                    [i \in DOMAIN request.mutations |->
                       InversePatch(request.mutations[i], TargetsOf(request))])
<1> DEFINE ms == request.mutations
<1>1. DOMAIN ms = 1 .. Len(ms)
  BY LenProperties DEF Modest
<1>2. ASSUME NEW i \in 1 .. Len(ms), ~ IsAxis(ms[i])
      PROVE  InversePatch(ms[i], TargetsOf(request)) = {}
  <2>1. \A original : ~ IsInverseAxis(original, ms[i])
    BY <1>2 DEF IsInverseAxis, IsAxis
  <2>2. \A target : Originals(ms[i], target) = {}
    BY <2>1 DEF Originals
  <2> QED
    BY <2>2 DEF InversePatch
<1>3. ASSUME NEW i \in 1 .. Len(ms), NEW delta \in InversePatch(ms[i], TargetsOf(request))
      PROVE  /\ Fits(delta, ms[i])
             /\ Remembers(CellAt(history[revision], delta.from), delta.before)
  <2>1. PICK target \in TargetsOf(request) :
          \E k \in Originals(ms[i], target) : delta \in Inverted(patches[target.revision][k])
    BY <1>3 DEF InversePatch
  <2>2. PICK k \in Originals(ms[i], target) : delta \in Inverted(patches[target.revision][k])
    BY <2>1
  <2>3. target \in operations /\ target.revision = revision /\ ~ IsRestore(target)
    BY TargetIsLatest
  <2>4. Modest(target.mutations) /\ Traced(target)
    BY <2>3 DEF SheetsInv
  <2> DEFINE old == target.mutations
  <2>5. k \in 1 .. Len(old) /\ IsInverseAxis(old[k], ms[i])
    BY <2>2, <2>4, LenProperties DEF Originals, Modest
  <2>6. PICK g : Trace(g, history[revision - 1], history[revision], old, patches[revision])
    BY <2>3, <2>4 DEF Traced
  <2>7. PICK d \in patches[revision][k] : delta = Reversed(d)
    BY <2>2, <2>3 DEF Inverted, Reversed
  <2> HIDE DEF ms, old
  <2>8. IsAxis(old[k])
    BY <2>5 DEF IsInverseAxis, IsAxis
  <2>9. InBounds(g[k - 1], old[k]) /\ Exact(patches[revision][k], g[k - 1], g[k], old[k])
    BY <2>5, <2>6, <2>8 DEF Trace
  <2>10. Axis(old[k]) /\ Fits(d, old[k])
    <3>1. Axis(old[k])
      BY <2>4, <2>5, <2>8, <2>9, MutationsAre DEF old
    <3> QED
      BY <2>9, <3>1 DEF Exact
  <2>11. Fits(delta, ms[i])
    BY <2>5, <2>7, <2>10, FitsBothWays
  <2>12. Remembers(CellAt(history[revision], d.to), d.after)
    BY <2>4, <2>5, <2>6, <2>8, TraceRemembers DEF old
  <2> QED
    BY <2>7, <2>11, <2>12 DEF Reversed
<1> QED
  BY <1>1, <1>2, <1>3 DEF Applicable


LEMMA SheetsStart ==
  ASSUME PlainDocuments, SnapshotsInit
  PROVE  SheetsInv
<1>1. PICK doc \in InitialDocuments : history = [r \in {0} |-> doc]
  BY DEF SnapshotsInit, DocumentsInit
<1>2. revision = 0 /\ operations = {}
  BY DEF SnapshotsInit, Init
<1>3. doc \in Seq(Cell) /\ doc # << >>
  BY CellsAssumption
<1>4. Len(doc) \in Nat /\ Len(doc) > 0 /\ DOMAIN doc = 1 .. Len(doc)
  BY <1>3, LenProperties, EmptySeq
<1>5. Fitting(doc)
  BY <1>3, <1>4 DEF Fitting, Docs, PlainDocuments
<1>6. \A r \in 0 .. revision : history[r] = doc
  BY <1>1, <1>2
<1> QED
  BY <1>2, <1>5, <1>6 DEF SheetsInv

\* A revision is added: those before it keep their documents and patches.
LEMMA RecordKeepsSheets ==
  ASSUME LogInv, DocumentsInv, SheetsInv, NEW row, NEW doc, NEW newPatches,
         operations' = operations \cup {row}, row.revision = revision + 1,
         revision' = revision + 1, RecordRevision(revision + 1, doc, newPatches),
         Fitting(doc),
         \/ IsRestore(row)
         \/ /\ Modest(row.mutations)
            /\ \E g : /\ Trace(g, history[revision], doc, row.mutations, newPatches)
                      /\ OneMove(row.mutations) \/ Bare(g, row.mutations)
  PROVE  SheetsInv'
<1>1. revision \in Nat
  BY LogFacts
<1>2. /\ history'[revision + 1] = doc
      /\ \A q \in 0 .. revision : history'[q] = history[q]
  BY <1>1 DEF RecordRevision, DocumentsInv
<1>3. /\ patches'[revision + 1] = newPatches
      /\ \A q \in 1 .. revision : patches'[q] = patches[q]
  BY <1>1 DEF RecordRevision, DocumentsInv
<1>4. ASSUME NEW r \in 0 .. revision' PROVE Fitting(history'[r])
  <2>1. CASE r = revision + 1
    BY <1>2, <2>1
  <2>2. CASE r \in 0 .. revision
    BY <1>2, <2>2 DEF SheetsInv
  <2> QED
    BY <1>1, <2>1, <2>2
<1>5. ASSUME NEW old \in operations', ~ IsRestore(old)
      PROVE  /\ Modest(old.mutations)
             /\ \E g : /\ Trace(g, history'[old.revision - 1], history'[old.revision],
                                old.mutations, patches'[old.revision])
                       /\ OneMove(old.mutations) \/ Bare(g, old.mutations)
  <2>1. CASE old = row
    <3>1. PICK g : /\ Trace(g, history[revision], doc, row.mutations, newPatches)
                   /\ OneMove(row.mutations) \/ Bare(g, row.mutations)
      BY <1>5, <2>1
    <3>2. old.revision - 1 = revision /\ revision \in 0 .. revision
      BY <1>1, <2>1
    <3> QED
      BY <1>2, <1>3, <1>5, <2>1, <3>1, <3>2
  <2>2. CASE old \in operations
    <3>1. Modest(old.mutations) /\ Traced(old)
      BY <1>5, <2>2 DEF SheetsInv
    <3>2. old.revision \in 1 .. revision /\ old.revision \in 0 .. revision
          /\ old.revision - 1 \in 0 .. revision
      BY <1>1, <2>2, LogFacts
    <3> QED
      BY <1>2, <1>3, <3>1, <3>2 DEF Traced
  <2> QED
    BY <2>1, <2>2
<1>6. \A old \in operations' : IsRestore(old)' \/ (Modest(old.mutations)' /\ Traced(old)')
  BY <1>5, RowOperatorsRigid DEF Traced, Modest, MovesApart, OneMove, Bare, Trace
<1> QED
  BY <1>4, <1>6 DEF SheetsInv, Fitting

\* An undo that moves rows once is of an operation that does.
LEMMA UndoneMovesOnce ==
  ASSUME NEW target, Modest(target.mutations), NEW mutations, Modest(mutations),
         OneMove(mutations), NEW preimage, MatchesTarget(mutations, target, preimage)
  PROVE  OneMove(target.mutations)
<1> DEFINE old == target.mutations
<1>1. DOMAIN old = 1 .. Len(old) /\ DOMAIN mutations = 1 .. Len(mutations)
  BY LenProperties DEF Modest
<1>2. \A m, w : IsInverseAxis(m, w) => IsAxis(m) /\ IsAxis(w)
  BY DEF IsInverseAxis, IsAxis
<1>3. ASSUME NEW i \in 1 .. Len(old), IsAxis(old[i])
      PROVE  \E j \in 1 .. Len(mutations) : IsInverseAxis(old[i], mutations[j])
  <2>1. Cardinality({j \in DOMAIN mutations : IsInverseAxis(old[i], mutations[j])}) = 1
    BY <1>1, <1>3 DEF MatchesTarget
  <2>2. {j \in DOMAIN mutations : IsInverseAxis(old[i], mutations[j])} # {}
    BY <2>1, FS_EmptySet
  <2> QED
    BY <1>1, <2>2
<1> SUFFICES ASSUME NEW i \in 1 .. Len(old), NEW j \in 1 .. Len(old),
                    IsAxis(old[i]), IsAxis(old[j])
             PROVE  i = j
  BY DEF OneMove
<1>4. PICK p \in 1 .. Len(mutations), q \in 1 .. Len(mutations) :
        IsInverseAxis(old[i], mutations[p]) /\ IsInverseAxis(old[j], mutations[q])
  BY <1>3
<1>5. p = q
  BY <1>2, <1>4 DEF OneMove
<1>6. old[i].id = old[j].id /\ old[i].at = old[j].at
  BY <1>4, <1>5, OneIsInverted
<1> QED
  BY <1>6 DEF Modest, MovesApart

LEMMA CommitKeepsSheets ==
  ASSUME ModestRequests, PlainValues, LogInv, DocumentsInv, SheetsInv,
         NEW request \in Requests, NEW bytesReached \in BOOLEAN,
         Commit(request, bytesReached), CommitDocument(request, bytesReached)
  PROVE  SheetsInv'
<1>1. revision \in Nat /\ revision \in 0 .. revision
  BY LogFacts
<1> DEFINE ms == request.mutations
           targets == TargetsOf(request)
           inverses == [i \in DOMAIN ms |-> InversePatch(ms[i], targets)]
<1>2. PICK applied : applied = ApplyMutations(history[revision], ms, targets, inverses)
  OBVIOUS
<1>3. DocumentAt(revision).doc = history[revision]
  BY <1>1, ReadingIsFaithful DEF ReplayFaithful
<1>4. /\ applied.ok /\ RecordRevision(revision + 1, applied.doc, applied.patches)
      /\ operations' = operations \cup {RowOf(request, revision + 1)} /\ revision' = revision + 1
      /\ UndoAllowed(request) /\ UndoRestores(request, applied.doc)
  BY <1>2, <1>3 DEF CommitDocument, Commit, InsertOperation, CommitGuard, ApplyOperation
<1>5. Modest(ms)
  BY RequestsAreModest
<1>6. /\ \A target \in targets : OneMove(ms) /\ OneMove(target.mutations)
      /\ Applicable(history[revision], ms, inverses)
  <2>1. ASSUME NEW target \in targets PROVE OneMove(ms) /\ OneMove(target.mutations)
    <3>1. target \in operations /\ target.revision = revision /\ ~ IsRestore(target)
      BY <1>4, TargetIsLatest
    <3>2. target \in OperationRow /\ request \in Envelope /\ target.operationId = request.target
      BY <3>1, LogFacts, RequestsAssumption DEF TargetsOf
    <3>3. OneMove(ms)
      BY <3>2, IdentityAssumption DEF OperationRow, ModestRequests
    <3>4. Modest(target.mutations)
      BY <3>1 DEF SheetsInv
    <3>5. \E preimage : MatchesTarget(ms, target, preimage)
      BY <1>4 DEF UndoRestores
    <3> HIDE DEF ms
    <3> QED
      BY <1>5, <3>3, <3>4, <3>5, UndoneMovesOnce
  <2> QED
    BY <1>4, <1>5, <2>1, UndoIsApplicable
<1>7. Fitting(history[revision])
  BY <1>1 DEF SheetsInv
<1>8. PICK g : /\ Trace(g, history[revision], applied.doc, ms, applied.patches)
               /\ OneMove(ms) \/ Bare(g, ms)
  <2>1. OneMove(ms) \/ \A i \in 1 .. Len(ms) : inverses[i] = {}
    <3>1. CASE targets = {}
      <4>1. \A i \in 1 .. Len(ms) : i \in DOMAIN ms
        BY <1>5, LenProperties DEF Modest
      <4>2. \A m : InversePatch(m, targets) = {}
        BY <3>1 DEF InversePatch
      <4> HIDE DEF ms, targets
      <4> QED
        BY <4>1, <4>2
    <3>2. CASE targets # {}
      BY <1>6, <3>2
    <3> QED
      BY <3>1, <3>2
  <2> HIDE DEF ms, targets, inverses
  <2> QED
    BY <1>2, <1>4, <1>5, <1>6, <1>7, <2>1, RunIsTraced
<1>9. Fitting(applied.doc)
  <2>1. Len(ms) \in Nat
    BY <1>5, LenProperties DEF Modest
  <2> QED
    BY <1>8, <2>1 DEF Trace
<1>10. PICK row : row = RowOf(request, revision + 1)
  OBVIOUS
<1>11. row.revision = revision + 1 /\ row.mutations = ms
  BY <1>10 DEF RowOf
<1> HIDE DEF ms, targets, inverses
<1> QED
  BY <1>4, <1>5, <1>8, <1>9, <1>10, <1>11, RecordKeepsSheets

LEMMA RestoreKeepsSheets ==
  ASSUME LogInv, DocumentsInv, SheetsInv, NEW actor \in Actors, NEW target \in 0 .. MaxRevision,
         Restore(actor, target), RestoreDocument(target)
  PROVE  SheetsInv'
<1>1. PICK doc, row : doc = DocumentAt(target).doc /\ row = RestoreRow(target, revision + 1)
  OBVIOUS
<1>2. /\ operations' = operations \cup {row} /\ revision' = revision + 1
      /\ RecordRevision(revision + 1, doc, <<{}>>) /\ target <= revision
  BY <1>1 DEF Restore, InsertOperation, RestoreDocument
<1>3. target \in 0 .. revision
  BY <1>2, LogFacts
<1>4. Fitting(doc)
  BY <1>1, <1>3, ReadingIsFaithful DEF ReplayFaithful, SheetsInv
<1>5. BySystem(row)
  <2>1. revision + 1 \in Nat \ {0}
    BY LogFacts
  <2> QED
    BY <1>1, <2>1, RestoredRow
<1>6. row.revision = revision + 1
  BY <1>1, Zenon DEF RestoreRow
<1> QED
  BY <1>2, <1>4, <1>5, <1>6, RecordKeepsSheets DEF BySystem

LEMMA StepKeepsSheets ==
  ASSUME ModestRequests, PlainValues, LogInv, DocumentsInv, SheetsInv, [SnapshotsNext]_allVars
  PROVE  SheetsInv'
<1>1. CASE \E request \in Requests, bytesReached \in BOOLEAN :
             Commit(request, bytesReached) /\ CommitDocument(request, bytesReached)
  BY <1>1, CommitKeepsSheets
<1>2. CASE \E actor \in Actors, target \in 0 .. MaxRevision :
             Restore(actor, target) /\ RestoreDocument(target)
  BY <1>2, RestoreKeepsSheets
<1>3. CASE UNCHANGED <<revision, operations, patches, history>>
  <2>1. ASSUME NEW row \in operations', ~ IsRestore(row)
        PROVE  /\ Modest(row.mutations)
               /\ \E g : /\ Trace(g, history'[row.revision - 1], history'[row.revision],
                                  row.mutations, patches'[row.revision])
                         /\ OneMove(row.mutations) \/ Bare(g, row.mutations)
    BY <1>3, <2>1 DEF SheetsInv, Traced
  <2>2. \A row \in operations' : IsRestore(row)' \/ (Modest(row.mutations)' /\ Traced(row)')
    BY <2>1, RowOperatorsRigid DEF Traced, Modest, MovesApart, OneMove, Bare, Trace
  <2>3. \A r \in 0 .. revision' : Fitting(history'[r])
    BY <1>3 DEF SheetsInv
  <2> QED
    BY <2>2, <2>3 DEF SheetsInv, Fitting
<1>4. CASE \E actor \in Actors : Checkpoint(actor) /\ CheckpointDocument
  BY <1>3, <1>4 DEF Checkpoint, CheckpointDocument
<1>5. CASE /\ \/ \E request \in Requests : Resubmit(request)
              \/ \E actor \in Actors, operationId \in OperationIds :
                   OperationResult(actor, operationId)
              \/ \E actor \in Actors : MoveToTrash(actor) \/ RestoreFromTrash(actor)
           /\ UNCHANGED documentVars
  <2>1. UNCHANGED <<revision, operations>>
    BY <1>5 DEF Resubmit, OperationResult, Answer, MoveToTrash, RestoreFromTrash
  <2> QED
    BY <1>3, <1>5, <2>1 DEF documentVars
<1>6. CASE UNCHANGED allVars
  BY <1>3, <1>6 DEF allVars, vars, documentVars
<1> QED
  BY <1>1, <1>2, <1>4, <1>5, <1>6 DEF SnapshotsNext


-----------------------------------------------------------------------------
(* Running the mutations that take an operation back.                      *)

State(doc, stored) == [doc |-> doc, patches |-> stored, ok |-> TRUE]

\* From a state the mutations go through and end in a document.
Goes(f, state, mutations, targets, doc) ==
  /\ f[0] = state
  /\ \A j \in 1 .. Len(mutations) :
       f[j] = ApplyMutation(f[j - 1], mutations[j], targets, InversePatch(mutations[j], targets))
  /\ f[Len(mutations)].ok /\ f[Len(mutations)].doc = doc

EndsIn(state, mutations, targets, doc) == \E f : Goes(f, state, mutations, targets, doc)

LEMMA NothingLeft ==
  ASSUME NEW doc, NEW stored, NEW targets
  PROVE  EndsIn(State(doc, stored), << >>, targets, doc)
<1> DEFINE f == [j \in {0} |-> State(doc, stored)]
<1>1. f[0] = State(doc, stored) /\ f[0].ok /\ f[0].doc = doc
  BY DEF State
<1>2. Len(<< >>) = 0 /\ 1 .. 0 = {}
  BY EmptySeq
<1> HIDE DEF f
<1>3. Goes(f, State(doc, stored), << >>, targets, doc)
  BY <1>1, <1>2 DEF Goes
<1> QED
  BY <1>3 DEF EndsIn

LEMMA OneMore ==
  ASSUME NEW S, NEW w \in S, NEW mutations \in Seq(S), NEW state, NEW targets, NEW doc,
         EndsIn(ApplyMutation(state, w, targets, InversePatch(w, targets)),
                mutations, targets, doc)
  PROVE  EndsIn(state, <<w>> \o mutations, targets, doc)
<1> DEFINE L == <<w>> \o mutations
           n == Len(mutations)
           next == ApplyMutation(state, w, targets, InversePatch(w, targets))
<1>1. n \in Nat
  BY LenProperties
<1>2. <<w>> \in Seq(S) /\ Len(<<w>>) = 1 /\ <<w>>[1] = w
  OBVIOUS
<1>3. Len(L) = n + 1 /\ L[1] = w /\ \A j \in 2 .. n + 1 : L[j] = mutations[j - 1]
  <2>1. /\ Len(L) = 1 + n
        /\ \A j \in 1 .. 1 + n : L[j] = IF j <= 1 THEN <<w>>[j] ELSE mutations[j - 1]
    BY <1>2, ConcatProperties
  <2> QED
    BY <1>1, <1>2, <2>1
<1> HIDE DEF L, n
<1>4. PICK f : Goes(f, next, mutations, targets, doc)
  BY DEF EndsIn
<1> HIDE DEF next
<1>5. /\ f[0] = next /\ f[n].ok /\ f[n].doc = doc
      /\ \A j \in 1 .. n :
           f[j] = ApplyMutation(f[j - 1], mutations[j], targets, InversePatch(mutations[j], targets))
  BY <1>4 DEF Goes, n
<1> DEFINE h == [j \in 0 .. n + 1 |-> IF j = 0 THEN state ELSE f[j - 1]]
<1>6. h[0] = state /\ h[n + 1].ok /\ h[n + 1].doc = doc
  BY <1>1, <1>5
<1>7. ASSUME NEW j \in 1 .. n + 1
      PROVE  h[j] = ApplyMutation(h[j - 1], L[j], targets, InversePatch(L[j], targets))
  <2>1. CASE j = 1
    <3>1. h[j] = next /\ h[j - 1] = state /\ L[j] = w
      BY <1>1, <1>3, <1>5, <2>1
    <3> HIDE DEF h
    <3> QED
      BY <3>1 DEF next
  <2>2. CASE j # 1
    <3>1. j - 1 \in 1 .. n /\ j \in 2 .. n + 1
      BY <1>1, <2>2
    <3>2. h[j] = f[j - 1] /\ h[j - 1] = f[(j - 1) - 1] /\ L[j] = mutations[j - 1]
      BY <1>1, <1>3, <3>1
    <3> HIDE DEF h
    <3> QED
      BY <1>5, <3>1, <3>2
  <2> QED
    BY <2>1, <2>2
<1> HIDE DEF h
<1>8. Goes(h, state, L, targets, doc)
  BY <1>3, <1>6, <1>7 DEF Goes
<1> QED
  BY <1>8 DEF EndsIn, L

\* A mutation that is in order goes through.
LEMMA GoesOn ==
  ASSUME NEW S, NEW w \in S, NEW mutations \in Seq(S), NEW targets, NEW d,
         NEW doc, NEW stored, InBounds(doc, w),
         ~ \E target \in targets : Cardinality(Originals(w, target)) > 1,
         Repairable(Reduced(doc, w), GeneratedPatch(doc, w), InversePatch(w, targets)),
         \A kept : EndsIn(State(Repaired(Reduced(doc, w), InversePatch(w, targets)), kept),
                          mutations, targets, d)
  PROVE  EndsIn(State(doc, stored), <<w>> \o mutations, targets, d)
<1> DEFINE inverse == InversePatch(w, targets)
           kept == Append(stored, GeneratedPatch(doc, w) \cup inverse)
           state == State(doc, stored)
<1>1. state.doc = doc /\ state.patches = stored /\ state.ok
  BY DEF State
<1> HIDE DEF state, inverse
<1>2. ApplyMutation(state, w, targets, inverse)
        = [doc |-> Repaired(Reduced(doc, w), inverse), patches |-> kept, ok |-> TRUE]
  BY <1>1 DEF ApplyMutation, inverse
<1>3. ApplyMutation(state, w, targets, inverse) = State(Repaired(Reduced(doc, w), inverse), kept)
  BY <1>2 DEF State
<1> HIDE DEF kept
<1>4. EndsIn(ApplyMutation(state, w, targets, inverse), mutations, targets, d)
  BY <1>3 DEF inverse
<1> QED
  BY <1>4, OneMore DEF state, inverse

\* The operation is what its mutations end in.
LEMMA OperationEndsIn ==
  ASSUME NEW S, NEW mutations \in Seq(S), NEW targets, NEW before, NEW doc,
         EndsIn(State(before, << >>), mutations, targets, doc)
  PROVE  /\ ApplyOperation(before, mutations, targets).ok
         /\ ApplyOperation(before, mutations, targets).doc = doc
<1> DEFINE n == Len(mutations)
           inverses == [i \in DOMAIN mutations |-> InversePatch(mutations[i], targets)]
<1>1. n \in Nat /\ DOMAIN mutations = 1 .. n
  BY LenProperties
<1>2. \A i \in 1 .. n : inverses[i] = InversePatch(mutations[i], targets)
  BY <1>1
<1> HIDE DEF inverses
<1>3. PICK f : /\ Steps(f, before, mutations, targets, inverses, n)
               /\ ApplyMutations(before, mutations, targets, inverses) = f[n]
  BY <1>1, AppliedInSteps
<1>4. PICK h : Goes(h, State(before, << >>), mutations, targets, doc)
  BY DEF EndsIn
<1> HIDE DEF n
<1>5. /\ f[0] = State(before, << >>)
      /\ \A i \in 1 .. n :
           f[i] = ApplyMutation(f[i - 1], mutations[i], targets, InversePatch(mutations[i], targets))
  <2>1. /\ f[0] = Started(before)
        /\ \A i \in 1 .. n :
             f[i] = ApplyMutation(f[i - 1], mutations[i], targets, inverses[i])
    BY <1>1, <1>3 DEF Steps
  <2> QED
    BY <1>2, <2>1 DEF Started, State
<1>6. /\ h[0] = State(before, << >>) /\ h[n].ok /\ h[n].doc = doc
      /\ \A i \in 1 .. n :
           h[i] = ApplyMutation(h[i - 1], mutations[i], targets, InversePatch(mutations[i], targets))
  BY <1>4 DEF Goes, n
<1> DEFINE T == {i \in 0 .. n : f[i] # h[i]}
<1>7. ASSUME T # {} PROVE FALSE
  <2>1. T \in SUBSET Nat
    BY <1>1
  <2>2. PICK i \in T : \A k \in T : i <= k
    <3> HIDE DEF T
    <3> QED
      BY <1>7, <2>1, LeastExists
  <2>3. i # 0
    BY <1>5, <1>6, <2>2
  <2>4. i \in 1 .. n /\ i - 1 \in 0 .. n /\ i - 1 \notin T
    BY <1>1, <2>2, <2>3
  <2>5. f[i - 1] = h[i - 1]
    BY <2>4
  <2> QED
    BY <1>5, <1>6, <2>2, <2>4, <2>5
<1>8. f[n] = h[n]
  BY <1>1, <1>7
<1> QED
  BY <1>3, <1>6, <1>8 DEF ApplyOperation, inverses


-----------------------------------------------------------------------------
(* The documents between mutations, and the mutations that take them back. *)

DocumentsBetween(f, doc, mutations, n) ==
  f = [i \in 0 .. n |-> IF i = 0 THEN doc ELSE Reduced(f[i - 1], mutations[i])]

LEMMA DocumentsBetweenExist ==
  ASSUME NEW doc, NEW mutations, NEW n \in Nat
  PROVE  \E f : DocumentsBetween(f, doc, mutations, n)
<1> DEFINE Zero == doc
           Then(value, i) == Reduced(value, mutations[i])
           Good(f, m) == f = [i \in 0 .. m |-> IF i = 0 THEN Zero ELSE Then(f[i - 1], i)]
           T == {m \in Nat : ~ \E f : DocumentsBetween(f, doc, mutations, m)}
<1> SUFFICES ASSUME T # {} PROVE FALSE
  OBVIOUS
<1>0. \A f, m : DocumentsBetween(f, doc, mutations, m) <=> Good(f, m)
  BY DEF DocumentsBetween
<1>1. PICK m \in T : \A k \in T : m <= k
  BY LeastExists
<1> HIDE DEF Zero, Then
<1>2. m # 0
  <2> DEFINE f == [i \in 0 .. 0 |-> Zero]
  <2>1. Good(f, 0)
    OBVIOUS
  <2> QED
    BY <1>0, <1>1, <2>1
<1>3. PICK g : Good(g, m - 1)
  BY <1>0, <1>1, <1>2
<1> DEFINE f == [i \in 0 .. m |-> IF i = m THEN Then(g[m - 1], m) ELSE g[i]]
<1>4. m \in Nat /\ ~ Good(f, m)
  BY <1>0, <1>1
<1> HIDE DEF T
<1>5. ASSUME NEW i \in 0 .. m
      PROVE  f[i] = IF i = 0 THEN Zero ELSE Then(f[i - 1], i)
  <2>1. CASE i = 0
    BY <1>2, <1>3, <1>4, <2>1
  <2>2. CASE i = m
    <3>1. f[m - 1] = g[m - 1]
      BY <1>2, <1>4
    <3> QED
      BY <1>2, <1>4, <2>2, <3>1
  <2>3. CASE i # 0 /\ i # m
    <3>1. f[i] = g[i] /\ f[i - 1] = g[i - 1]
      BY <1>4, <2>3
    <3>2. g[i] = Then(g[i - 1], i)
      BY <1>3, <1>4, <2>3
    <3> QED
      BY <2>3, <3>1, <3>2
  <2> QED
    BY <2>1, <2>2, <2>3
<1>6. Good(f, m)
  BY <1>5
<1> QED
  BY <1>4, <1>6

LEMMA IntermediateIs ==
  ASSUME NEW doc, NEW mutations, Len(mutations) \in Nat
  PROVE  /\ Intermediate(doc, mutations)[0] = doc
         /\ \A i \in 1 .. Len(mutations) :
              Intermediate(doc, mutations)[i] =
                Reduced(Intermediate(doc, mutations)[i - 1], mutations[i])
<1> DEFINE F(f) == [i \in 0 .. Len(mutations) |->
                      IF i = 0 THEN doc ELSE Reduced(f[i - 1], mutations[i])]
           f == CHOOSE f : f = F(f)
<1>1. \E g : g = F(g)
  <2>1. PICK g : DocumentsBetween(g, doc, mutations, Len(mutations))
    BY DocumentsBetweenExist
  <2>2. g = F(g)
    BY <2>1 DEF DocumentsBetween
  <2> QED
    BY <2>2
<1>2. f = F(f)
  <2> HIDE DEF F
  <2> QED
    BY <1>1
<1>3. Intermediate(doc, mutations) = f
  BY DEF Intermediate
<1> HIDE DEF f
<1> QED
  BY <1>2, <1>3

MutationsBack(f, docs, mutations, n) ==
  f = [i \in 0 .. n |-> IF i = 0 THEN << >> ELSE InverseMutations(docs[i - 1], mutations[i]) \o f[i - 1]]

LEMMA PlansExist ==
  ASSUME NEW docs, NEW mutations, NEW n \in Nat
  PROVE  \E f : MutationsBack(f, docs, mutations, n)
<1> DEFINE Zero == << >>
           Then(value, i) == InverseMutations(docs[i - 1], mutations[i]) \o value
           Good(f, m) == f = [i \in 0 .. m |-> IF i = 0 THEN Zero ELSE Then(f[i - 1], i)]
           T == {m \in Nat : ~ \E f : MutationsBack(f, docs, mutations, m)}
<1> SUFFICES ASSUME T # {} PROVE FALSE
  OBVIOUS
<1>0. \A f, m : MutationsBack(f, docs, mutations, m) <=> Good(f, m)
  BY DEF MutationsBack
<1>1. PICK m \in T : \A k \in T : m <= k
  BY LeastExists
<1> HIDE DEF Zero, Then
<1>2. m # 0
  <2> DEFINE f == [i \in 0 .. 0 |-> Zero]
  <2>1. Good(f, 0)
    OBVIOUS
  <2> QED
    BY <1>0, <1>1, <2>1
<1>3. PICK g : Good(g, m - 1)
  BY <1>0, <1>1, <1>2
<1> DEFINE f == [i \in 0 .. m |-> IF i = m THEN Then(g[m - 1], m) ELSE g[i]]
<1>4. m \in Nat /\ ~ Good(f, m)
  BY <1>0, <1>1
<1> HIDE DEF T
<1>5. ASSUME NEW i \in 0 .. m
      PROVE  f[i] = IF i = 0 THEN Zero ELSE Then(f[i - 1], i)
  <2>1. CASE i = 0
    BY <1>2, <1>3, <1>4, <2>1
  <2>2. CASE i = m
    <3>1. f[m - 1] = g[m - 1]
      BY <1>2, <1>4
    <3> QED
      BY <1>2, <1>4, <2>2, <3>1
  <2>3. CASE i # 0 /\ i # m
    <3>1. f[i] = g[i] /\ f[i - 1] = g[i - 1]
      BY <1>4, <2>3
    <3>2. g[i] = Then(g[i - 1], i)
      BY <1>3, <1>4, <2>3
    <3> QED
      BY <2>3, <3>1, <3>2
  <2> QED
    BY <2>1, <2>2, <2>3
<1>6. Good(f, m)
  BY <1>5
<1> QED
  BY <1>4, <1>6

\* The mutations an undo of the first i mutations consists of.
Plan(plan, docs, mutations) ==
  plan[0] = << >> /\ \A i \in 1 .. Len(mutations) :
    plan[i] = InverseMutations(docs[i - 1], mutations[i]) \o plan[i - 1]

LEMMA InverseIsPlan ==
  ASSUME NEW row, Len(row.mutations) \in Nat
  PROVE  \E plan :
           /\ Plan(plan, Intermediate(history[row.revision - 1], row.mutations), row.mutations)
           /\ InverseOf(row) = plan[Len(row.mutations)]
<1> DEFINE docs == Intermediate(history[row.revision - 1], row.mutations)
           F(f) == [i \in 0 .. Len(row.mutations) |->
                      IF i = 0 THEN << >>
                      ELSE InverseMutations(docs[i - 1], row.mutations[i]) \o f[i - 1]]
           plan == CHOOSE f : f = F(f)
<1>1. \E g : g = F(g)
  <2> HIDE DEF docs
  <2>1. PICK g : MutationsBack(g, docs, row.mutations, Len(row.mutations))
    BY PlansExist
  <2>2. g = F(g)
    BY <2>1 DEF MutationsBack
  <2> QED
    BY <2>2
<1>2. plan = F(plan)
  <2> HIDE DEF F
  <2> QED
    BY <1>1
<1>3. InverseOf(row) = plan[Len(row.mutations)]
  BY DEF InverseOf
<1> HIDE DEF plan, docs
<1>4. Plan(plan, docs, row.mutations)
  BY <1>2 DEF Plan
<1> QED
  BY <1>3, <1>4 DEF docs


\* The operation wrote within the sheet, and deleted no only row.
KeepsExtent(docs, mutations) ==
  \A i \in 1 .. Len(mutations) :
    /\ ~ IsAxis(mutations[i]) => ~ mutations[i].at > Len(docs[i - 1])
    /\ mutations[i].id = "rows.deleted" => Len(docs[i - 1]) # 1

\* The intermediate documents have as many rows as those of the trace, and where
\* rows move next they are the same.
LEMMA IntermediateFollowsTrace ==
  ASSUME NEW g, NEW before, NEW after, NEW mutations, NEW stored, Modest(mutations),
         Trace(g, before, after, mutations, stored), OneMove(mutations) \/ Bare(g, mutations),
         NEW x, x = Intermediate(before, mutations), KeepsExtent(x, mutations)
  PROVE  /\ x[0] = before
         /\ \A i \in 1 .. Len(mutations) : x[i] = Reduced(x[i - 1], mutations[i])
         /\ \A i \in 0 .. Len(mutations) : x[i] \in Docs /\ Len(x[i]) = Len(g[i])
         /\ \A i \in 1 .. Len(mutations) : IsAxis(mutations[i]) => x[i - 1] = g[i - 1]
<1> DEFINE n == Len(mutations)
           Good(i) == /\ x[i] \in Docs /\ Len(x[i]) = Len(g[i])
                      /\ (\A k \in 1 .. i : ~ IsAxis(mutations[k])) => x[i] = g[i]
                      /\ Bare(g, mutations) => x[i] = g[i]
           T == {i \in 0 .. n : ~ Good(i)}
<1>1. n \in Nat
  BY LenProperties DEF Modest
<1>2. x[0] = before /\ \A i \in 1 .. n : x[i] = Reduced(x[i - 1], mutations[i])
  BY <1>1, IntermediateIs
<1>3. Good(0)
  BY <1>1, <1>2 DEF Trace, Fitting
<1>4. ASSUME NEW i \in 1 .. n, Good(i - 1), IsAxis(mutations[i]) PROVE x[i - 1] = g[i - 1]
  <2>1. CASE OneMove(mutations)
    <3>1. \A k \in 1 .. i - 1 : k \in 1 .. n /\ k # i
      BY <1>1
    <3>2. \A k \in 1 .. i - 1 : ~ IsAxis(mutations[k])
      BY <1>4, <2>1, <3>1 DEF OneMove
    <3> QED
      BY <1>4, <3>2
  <2> QED
    BY <1>4, <2>1
<1>5. ASSUME NEW i \in 1 .. n, Good(i - 1) PROVE Good(i)
  <2> DEFINE m == mutations[i]
  <2>1. i - 1 \in 0 .. n /\ i \in 0 .. n /\ i \in Nat
    BY <1>1
  <2>2. InBounds(g[i - 1], m) /\ g[i - 1] \in Docs /\ g[i] \in Docs
    BY <2>1 DEF Trace, Fitting
  <2>3. m.at \in Nat \ {0} /\ (IsAxis(m) => Axis(m))
    BY <2>2, MutationsAre
  <2>4. x[i] = Reduced(x[i - 1], m) /\ x[i - 1] \in Docs /\ Len(x[i - 1]) = Len(g[i - 1])
    BY <1>2, <1>5
  <2>5. Bare(g, mutations) => x[i] = g[i]
    BY <1>2, <1>5 DEF Bare
  <2>6. CASE IsAxis(m)
    <3>1. x[i - 1] = g[i - 1]
      BY <1>4, <1>5, <2>6
    <3>2. Exact(stored[i], g[i - 1], g[i], m)
      BY <2>6 DEF Trace
    <3>3. Len(g[i]) = Rows(g[i - 1], m)
      BY <3>2 DEF Exact
    <3>4. x[i] \in Docs /\ Len(x[i]) = Rows(g[i - 1], m)
      <4> HIDE DEF m
      <4> QED
        BY <2>2, <2>3, <2>4, <2>6, <3>1, ReducedRows
    <3>5. i \in 1 .. i
      BY <1>1
    <3> QED
      BY <2>5, <2>6, <3>3, <3>4, <3>5
  <2>7. CASE ~ IsAxis(m)
    <3>1. /\ m.value \in Cell /\ (IsFormula(m.value) => ~ m.value.cached)
          /\ m.at <= Len(x[i - 1])
      <4>1. Len(x[i - 1]) \in Nat
        BY <2>4, DocsAre
      <4> QED
        BY <2>3, <2>7, <4>1 DEF Modest, KeepsExtent
    <3>2. x[i] = Written(x[i - 1], m) /\ g[i] = Written(g[i - 1], m)
      BY <2>4, <2>7 DEF Reduced, Trace
    <3>3. x[i] \in Docs /\ Len(x[i]) = Len(x[i - 1]) /\ Len(g[i]) = Len(g[i - 1])
      <4> HIDE DEF m
      <4>1. Written(x[i - 1], m) \in Docs /\ Len(Written(x[i - 1], m)) = Len(x[i - 1])
        BY <2>3, <2>4, <3>1, WrittenRows
      <4>2. Len(Written(g[i - 1], m)) = Len(g[i - 1])
        BY <2>2, <2>3, <2>4, <3>1, WrittenRows
      <4> QED
        BY <3>2, <4>1, <4>2
    <3>4. (\A k \in 1 .. i : ~ IsAxis(mutations[k])) => x[i] = g[i]
      <4>1. \A k \in 1 .. i - 1 : k \in 1 .. i
        BY <1>1
      <4> QED
        BY <1>5, <3>2, <4>1
    <3> QED
      BY <2>4, <2>5, <3>3, <3>4
  <2> QED
    BY <2>6, <2>7
<1> HIDE DEF Good
<1>6. ASSUME T # {} PROVE FALSE
  <2>1. T \in SUBSET Nat
    BY <1>1
  <2>2. PICK i \in T : \A k \in T : i <= k
    <3> HIDE DEF T
    <3> QED
      BY <1>6, <2>1, LeastExists
  <2>3. i # 0 /\ i \in 1 .. n /\ i - 1 \in 0 .. n /\ i - 1 \notin T
    BY <1>1, <1>3, <2>2
  <2> QED
    BY <1>5, <2>2, <2>3
<1>7. \A i \in 0 .. n : Good(i)
  BY <1>6
<1>8. ASSUME NEW i \in 1 .. n, IsAxis(mutations[i]) PROVE x[i - 1] = g[i - 1]
  <2>1. i - 1 \in 0 .. n
    BY <1>1
  <2> QED
    BY <1>4, <1>7, <1>8, <2>1
<1> QED
  BY <1>2, <1>7, <1>8 DEF Good

\* The mutations that take one mutation back.
LEMMA InversesAre ==
  ASSUME NEW m \in Mutation, NEW doc
  PROVE  /\ m.id = "rows.inserted" =>
              InverseMutations(doc, m) = <<[id |-> "rows.deleted", at |-> m.at, value |-> Blank]>>
         /\ m.id = "rows.deleted" =>
              InverseMutations(doc, m) =
                <<[id |-> "rows.inserted", at |-> m.at, value |-> Blank]>> \o
                (IF CellAt(doc, m.at) = Blank THEN << >>
                 ELSE <<[id |-> "cell.restore", at |-> m.at, value |-> CellAt(doc, m.at)]>>)
         /\ ~ IsAxis(m) =>
              InverseMutations(doc, m) =
                <<[id |-> "cell.restore", at |-> m.at, value |-> CellAt(doc, m.at)]>>
<1>1. m = [id |-> m.id, at |-> m.at, value |-> m.value]
  BY DEF Mutation
<1>2. ASSUME NEW id, NEW value
      PROVE  [m EXCEPT !.id = id, !.value = value] = [id |-> id, at |-> m.at, value |-> value]
  <2> DEFINE b == [m EXCEPT !.id = id]
  <2>1. b = [id |-> id, at |-> m.at, value |-> m.value]
    BY <1>1
  <2> HIDE DEF b
  <2>2. [b EXCEPT !.value = value] = [id |-> id, at |-> m.at, value |-> value]
    BY <2>1
  <2> QED
    BY <2>2, Zenon DEF b
<1>3. CASE m.id = "rows.inserted"
  <2>1. InverseMutations(doc, m) = <<[m EXCEPT !.id = "rows.deleted", !.value = Blank]>>
    BY <1>3 DEF InverseMutations
  <2> QED
    BY <1>2, <1>3, <2>1 DEF IsAxis
<1>4. CASE m.id = "rows.deleted"
  <2>1. InverseMutations(doc, m) =
          <<[m EXCEPT !.id = "rows.inserted", !.value = Blank]>> \o
          (IF CellAt(doc, m.at) = Blank THEN << >>
           ELSE <<[m EXCEPT !.id = "cell.restore", !.value = CellAt(doc, m.at)]>>)
    BY <1>4 DEF InverseMutations
  <2> QED
    BY <1>2, <1>4, <2>1 DEF IsAxis
<1>5. CASE m.id # "rows.inserted" /\ m.id # "rows.deleted"
  <2>1. InverseMutations(doc, m) =
          <<[m EXCEPT !.id = "cell.restore", !.value = CellAt(doc, m.at)]>>
    BY <1>5 DEF InverseMutations
  <2> QED
    BY <1>2, <1>5, <2>1
<1> QED
  BY <1>3, <1>4, <1>5


Undoing == [id : MutationIds, at : Nat, value : Cell]

Put(doc, m) == [id |-> "cell.restore", at |-> m.at, value |-> CellAt(doc, m.at)]

LEMMA PlanStep ==
  ASSUME NEW m \in Mutation, NEW doc \in Docs, NEW rest \in Seq(Undoing)
  PROVE  /\ Put(doc, m) \in Undoing /\ ~ IsAxis(Put(doc, m))
         /\ InverseMutations(doc, m) \o rest \in Seq(Undoing)
         /\ ~ IsAxis(m) => InverseMutations(doc, m) \o rest = <<Put(doc, m)>> \o rest
         /\ IsAxis(m) =>
              /\ Flip(m) \in Undoing /\ IsInverseAxis(m, Flip(m))
              /\ \/ /\ InverseMutations(doc, m) \o rest = <<Flip(m)>> \o rest
                    /\ m.id = "rows.deleted" => CellAt(doc, m.at) = Blank
                 \/ /\ m.id = "rows.deleted" /\ CellAt(doc, m.at) # Blank
                    /\ InverseMutations(doc, m) \o rest =
                         <<Flip(m)>> \o (<<Put(doc, m)>> \o rest)
<1> DEFINE put == Put(doc, m)
           flip == Flip(m)
           whole == InverseMutations(doc, m)
<1>1. m.at \in Nat /\ m.id \in MutationIds
  BY DEF Mutation
<1>2. CellAt(doc, m.at) \in Cell
  BY DocsAre, BlankIsCell DEF CellAt
<1>3. put \in Undoing /\ ~ IsAxis(put)
  BY <1>1, <1>2 DEF Put, Undoing, MutationIds, IsAxis
<1>4. flip \in Undoing
  BY <1>1, BlankIsCell DEF Flip, Undoing, MutationIds
<1>5. IsAxis(m) => IsInverseAxis(m, flip)
  BY DEF Flip, IsAxis, IsInverseAxis
<1>6. /\ m.id = "rows.inserted" => whole = <<flip>>
      /\ m.id = "rows.deleted" =>
           whole = <<flip>> \o (IF CellAt(doc, m.at) = Blank THEN << >> ELSE <<put>>)
      /\ ~ IsAxis(m) => whole = <<put>>
  BY InversesAre DEF Flip, Put
<1> HIDE DEF put, flip, whole
<1>7. <<put>> \in Seq(Undoing) /\ <<flip>> \in Seq(Undoing) /\ << >> \in Seq(Undoing)
  BY <1>3, <1>4
<1>8. CASE ~ IsAxis(m)
  <2>1. whole \o rest = <<put>> \o rest
    BY <1>6, <1>8
  <2>2. <<put>> \o rest \in Seq(Undoing)
    BY <1>7, ConcatProperties
  <2> QED
    BY <1>3, <1>8, <2>1, <2>2 DEF put, flip, whole
<1>9. CASE IsAxis(m) /\ whole = <<flip>> /\ (m.id = "rows.deleted" => CellAt(doc, m.at) = Blank)
  <2>1. <<flip>> \o rest \in Seq(Undoing)
    BY <1>7, ConcatProperties
  <2> QED
    BY <1>3, <1>4, <1>5, <1>9, <2>1 DEF put, flip, whole
<1>10. CASE IsAxis(m) /\ m.id = "rows.deleted" /\ CellAt(doc, m.at) # Blank
  <2>1. whole = <<flip>> \o <<put>>
    BY <1>6, <1>10
  <2>2. (<<flip>> \o <<put>>) \o rest = <<flip>> \o (<<put>> \o rest)
    BY <1>7, ConcatAssociative
  <2>3. <<flip>> \o (<<put>> \o rest) \in Seq(Undoing)
    <3>1. <<put>> \o rest \in Seq(Undoing)
      BY <1>7, ConcatProperties
    <3> QED
      BY <1>7, <3>1, ConcatProperties
  <2> QED
    BY <1>3, <1>4, <1>5, <1>10, <2>1, <2>2, <2>3 DEF put, flip, whole
<1>11. ASSUME IsAxis(m), ~ (m.id = "rows.deleted" /\ CellAt(doc, m.at) # Blank)
       PROVE  whole = <<flip>>
  <2>1. CASE m.id = "rows.inserted"
    BY <1>6, <2>1
  <2>2. CASE m.id = "rows.deleted" /\ CellAt(doc, m.at) = Blank
    <3>1. whole = <<flip>> \o << >>
      BY <1>6, <2>2
    <3> QED
      BY <1>7, <3>1, ConcatEmptySeq
  <2> QED
    BY <1>11, <2>1, <2>2 DEF IsAxis
<1> QED
  BY <1>8, <1>9, <1>10, <1>11

MembersOf(seq) == {seq[j] : j \in DOMAIN seq}

\* The sequence takes the axis mutation m back once.
TakenBackOnce(seq, m) ==
  \E p \in DOMAIN seq : \A j \in DOMAIN seq : IsInverseAxis(m, seq[j]) <=> j = p

LEMMA OneInFront ==
  ASSUME NEW S, NEW w \in S, NEW rest \in Seq(S)
  PROVE  /\ MembersOf(<<w>> \o rest) = {w} \cup MembersOf(rest)
         /\ \A m : ~ IsInverseAxis(m, w) /\ TakenBackOnce(rest, m)
                    => TakenBackOnce(<<w>> \o rest, m)
         /\ \A m : IsInverseAxis(m, w) /\ (\A v \in MembersOf(rest) : ~ IsInverseAxis(m, v))
                    => TakenBackOnce(<<w>> \o rest, m)
<1> DEFINE L == <<w>> \o rest
           n == Len(rest)
<1>1. n \in Nat /\ DOMAIN rest = 1 .. n
  BY LenProperties
<1>2. <<w>> \in Seq(S) /\ Len(<<w>>) = 1 /\ <<w>>[1] = w
  OBVIOUS
<1>3. DOMAIN L = 1 .. n + 1 /\ L[1] = w /\ \A j \in 2 .. n + 1 : L[j] = rest[j - 1]
  <2>1. /\ L \in Seq(S) /\ Len(L) = 1 + n
        /\ \A j \in 1 .. 1 + n : L[j] = IF j <= 1 THEN <<w>>[j] ELSE rest[j - 1]
    BY <1>2, ConcatProperties
  <2> HIDE DEF L, n
  <2>2. DOMAIN L = 1 .. Len(L)
    BY <2>1, LenProperties
  <2> QED
    BY <1>1, <1>2, <2>1, <2>2
<1> HIDE DEF L, n
<1>4. /\ \A j \in 1 .. n + 1 : j # 1 => j \in 2 .. n + 1 /\ j - 1 \in 1 .. n
      /\ \A j \in 1 .. n : j + 1 \in 2 .. n + 1 /\ j + 1 \in 1 .. n + 1 /\ (j + 1) - 1 = j
      /\ 1 \in 1 .. n + 1
  BY <1>1
<1>5. MembersOf(L) = {w} \cup MembersOf(rest)
  <2>1. ASSUME NEW v \in MembersOf(L) PROVE v \in {w} \cup MembersOf(rest)
    <3>1. PICK j \in 1 .. n + 1 : v = L[j]
      BY <1>3 DEF MembersOf
    <3>2. j # 1 => v = rest[j - 1] /\ j - 1 \in DOMAIN rest
      BY <1>1, <1>3, <1>4, <3>1
    <3> QED
      BY <1>3, <3>1, <3>2 DEF MembersOf
  <2>2. w \in MembersOf(L)
    BY <1>3, <1>4 DEF MembersOf
  <2>3. ASSUME NEW v \in MembersOf(rest) PROVE v \in MembersOf(L)
    <3>1. PICK j \in 1 .. n : v = rest[j]
      BY <1>1 DEF MembersOf
    <3>2. v = L[j + 1] /\ j + 1 \in DOMAIN L
      BY <1>3, <1>4, <3>1
    <3> QED
      BY <3>2 DEF MembersOf
  <2> QED
    BY <2>1, <2>2, <2>3
<1>6. ASSUME NEW m, ~ IsInverseAxis(m, w), TakenBackOnce(rest, m) PROVE TakenBackOnce(L, m)
  <2>1. PICK p \in DOMAIN rest : \A j \in DOMAIN rest : IsInverseAxis(m, rest[j]) <=> j = p
    BY <1>6 DEF TakenBackOnce
  <2>2. ASSUME NEW j \in 1 .. n + 1 PROVE IsInverseAxis(m, L[j]) <=> j = p + 1
    <3>1. CASE j = 1
      <4>1. 1 # p + 1
        BY <1>1
      <4> QED
        BY <1>3, <1>6, <3>1, <4>1
    <3>2. CASE j # 1
      <4>1. j - 1 \in DOMAIN rest /\ L[j] = rest[j - 1] /\ (j - 1 = p <=> j = p + 1)
        BY <1>1, <1>3, <1>4, <3>2
      <4> QED
        BY <2>1, <4>1
    <3> QED
      BY <3>1, <3>2
  <2>3. p + 1 \in DOMAIN L
    BY <1>1, <1>3, <1>4
  <2> QED
    BY <1>3, <2>2, <2>3 DEF TakenBackOnce
<1>7. ASSUME NEW m, IsInverseAxis(m, w), \A v \in MembersOf(rest) : ~ IsInverseAxis(m, v)
      PROVE  TakenBackOnce(L, m)
  <2>1. ASSUME NEW j \in 1 .. n + 1 PROVE IsInverseAxis(m, L[j]) <=> j = 1
    <3>1. j # 1 => L[j] \in MembersOf(rest)
      BY <1>1, <1>3, <1>4 DEF MembersOf
    <3> QED
      BY <1>3, <1>7, <3>1
  <2> QED
    BY <1>3, <1>4, <2>1 DEF TakenBackOnce
<1> QED
  BY <1>5, <1>6, <1>7 DEF L

\* What the client does to take m back from what it made of doc.
TakesBack(w, m, doc) ==
  \/ IsAxis(m) /\ w = Flip(m)
  \/ /\ w = Put(doc, m)
     /\ IsAxis(m) => m.id = "rows.deleted" /\ CellAt(doc, m.at) # Blank

\* The undo does what takes the mutations of the operation back, and nothing
\* else, and moves each row the operation moved once.
LEMMA PlanIs ==
  ASSUME NEW mutations, Modest(mutations), NEW docs,
         \A i \in 0 .. Len(mutations) : docs[i] \in Docs,
         NEW plan, Plan(plan, docs, mutations)
  PROVE  \A i \in 0 .. Len(mutations) :
           /\ plan[i] \in Seq(Undoing)
           /\ \A w \in MembersOf(plan[i]) :
                \E k \in 1 .. i : TakesBack(w, mutations[k], docs[k - 1])
           /\ \A k \in 1 .. i : IsAxis(mutations[k]) => TakenBackOnce(plan[i], mutations[k])
<1> DEFINE n == Len(mutations)
           Good(i) ==
             /\ plan[i] \in Seq(Undoing)
             /\ \A w \in MembersOf(plan[i]) :
                  \E k \in 1 .. i : TakesBack(w, mutations[k], docs[k - 1])
             /\ \A k \in 1 .. i : IsAxis(mutations[k]) => TakenBackOnce(plan[i], mutations[k])
           T == {i \in 0 .. n : ~ Good(i)}
<1>1. n \in Nat /\ \A i \in 1 .. n : mutations[i] \in Mutation
  BY LenProperties DEF Modest
<1>2. Good(0)
  <2>1. plan[0] = << >> /\ 1 .. 0 = {}
    BY DEF Plan
  <2>2. << >> \in Seq(Undoing) /\ DOMAIN << >> = {}
    OBVIOUS
  <2>3. MembersOf(<< >>) = {}
    BY <2>2 DEF MembersOf
  <2> QED
    BY <2>1, <2>2, <2>3
<1>3. ASSUME NEW i \in 1 .. n, Good(i - 1) PROVE Good(i)
  <2> DEFINE m == mutations[i]
             d == docs[i - 1]
             rest == plan[i - 1]
             put == Put(d, m)
             flip == Flip(m)
  <2>1. /\ i - 1 \in 0 .. n /\ i \in Nat /\ i \in 1 .. i
        /\ \A k \in 1 .. i - 1 : k \in 1 .. i /\ k \in 1 .. n /\ k # i
        /\ \A k \in 1 .. i : k \in 1 .. n /\ (k = i \/ k \in 1 .. i - 1)
    BY <1>1
  <2>2. m \in Mutation /\ d \in Docs /\ rest \in Seq(Undoing)
    BY <1>1, <1>3, <2>1
  <2>3. plan[i] = InverseMutations(d, m) \o rest
    BY DEF Plan
  <2>4. /\ put \in Undoing /\ ~ IsAxis(put) /\ plan[i] \in Seq(Undoing)
        /\ ~ IsAxis(m) => plan[i] = <<put>> \o rest
        /\ IsAxis(m) =>
             /\ flip \in Undoing /\ IsInverseAxis(m, flip)
             /\ \/ plan[i] = <<flip>> \o rest
                \/ /\ m.id = "rows.deleted" /\ CellAt(d, m.at) # Blank
                   /\ plan[i] = <<flip>> \o (<<put>> \o rest)
    <3> HIDE DEF m, d, rest
    <3> QED
      BY <2>2, <2>3, PlanStep
  <2>5. /\ \A w \in MembersOf(rest) : \E k \in 1 .. i : k # i /\ TakesBack(w, mutations[k], docs[k - 1])
        /\ \A k \in 1 .. i : k # i /\ IsAxis(mutations[k]) => TakenBackOnce(rest, mutations[k])
    BY <1>3, <2>1
  <2>6. \A o, w : IsInverseAxis(o, w) => IsAxis(o) /\ IsAxis(w)
    BY DEF IsInverseAxis, IsAxis
  <2> HIDE DEF m, d, rest, put, flip
  <2>7. ASSUME NEW k \in 1 .. i, k # i, IsAxis(m), IsAxis(mutations[k])
        PROVE  ~ IsInverseAxis(m, Flip(mutations[k])) /\ ~ IsInverseAxis(mutations[k], flip)
    <3>1. ~ (m.id = mutations[k].id /\ m.at = mutations[k].at)
      BY <2>1, <2>7 DEF Modest, MovesApart, m
    <3>2. IsInverseAxis(mutations[k], Flip(mutations[k]))
      BY <2>7 DEF IsAxis, IsInverseAxis, Flip
    <3> QED
      BY <2>4, <2>7, <3>1, <3>2, OneIsInverted
  <2>8. CASE ~ IsAxis(m)
    <3>1. plan[i] = <<put>> \o rest
      BY <2>4, <2>8
    <3>2. TakesBack(put, m, d)
      BY <2>8 DEF TakesBack, put
    <3>3. \A w \in MembersOf(plan[i]) : \E k \in 1 .. i : TakesBack(w, mutations[k], docs[k - 1])
      BY <2>1, <2>2, <2>4, <2>5, <3>1, <3>2, OneInFront DEF m, d
    <3>4. ASSUME NEW k \in 1 .. i, IsAxis(mutations[k]) PROVE TakenBackOnce(plan[i], mutations[k])
      <4>1. k # i
        BY <2>8, <3>4 DEF m
      <4>2. TakenBackOnce(rest, mutations[k])
        BY <2>5, <3>4, <4>1
      <4>3. ~ IsInverseAxis(mutations[k], put)
        BY <2>4, <2>6
      <4> DEFINE o == mutations[k]
      <4>4. TakenBackOnce(<<put>> \o rest, o)
        <5> HIDE DEF o
        <5>1. put \in Undoing /\ rest \in Seq(Undoing)
          BY <2>2, <2>4
        <5>2. \A u : ~ IsInverseAxis(u, put) /\ TakenBackOnce(rest, u)
                      => TakenBackOnce(<<put>> \o rest, u)
          BY <5>1, OneInFront
        <5> QED
          BY <4>2, <4>3, <5>2 DEF o
      <4> QED
        BY <3>1, <4>4
    <3> QED
      BY <2>4, <3>3, <3>4
  <2>9. CASE IsAxis(m)
    <3>1. PICK tail \in Seq(Undoing) :
            /\ plan[i] = <<flip>> \o tail
            /\ \/ tail = rest
               \/ tail = <<put>> \o rest /\ TakesBack(put, m, d)
      <4>1. <<put>> \o rest \in Seq(Undoing)
        <5>1. <<put>> \in Seq(Undoing)
          BY <2>4
        <5> QED
          BY <2>2, <5>1, ConcatProperties
      <4>2. CASE plan[i] = <<flip>> \o rest
        BY <2>2, <4>2
      <4>3. CASE /\ m.id = "rows.deleted" /\ CellAt(d, m.at) # Blank
                 /\ plan[i] = <<flip>> \o (<<put>> \o rest)
        <5>1. TakesBack(put, m, d)
          BY <4>3 DEF TakesBack, put
        <5> QED
          BY <4>1, <4>3, <5>1
      <4> QED
        BY <2>4, <2>9, <4>2, <4>3
    <3>2. TakesBack(flip, m, d)
      BY <2>9 DEF TakesBack, flip
    <3>3. /\ \A w \in MembersOf(tail) :
               (w = put /\ TakesBack(put, m, d)) \/ w \in MembersOf(rest)
          /\ \A k \in 1 .. i : k # i /\ IsAxis(mutations[k]) => TakenBackOnce(tail, mutations[k])
      <4>1. CASE tail = rest
        BY <2>5, <4>1
      <4>2. CASE tail = <<put>> \o rest /\ TakesBack(put, m, d)
        <5>1. MembersOf(tail) = {put} \cup MembersOf(rest)
          BY <2>2, <2>4, <4>2, OneInFront
        <5>2. ASSUME NEW k \in 1 .. i, k # i, IsAxis(mutations[k])
              PROVE  TakenBackOnce(tail, mutations[k])
          <6>1. TakenBackOnce(rest, mutations[k]) /\ ~ IsInverseAxis(mutations[k], put)
            BY <2>4, <2>5, <2>6, <5>2
          <6> QED
            BY <2>2, <2>4, <4>2, <6>1, OneInFront
        <5> QED
          BY <4>2, <5>1, <5>2
      <4> QED
        BY <3>1, <4>1, <4>2
    <3>4. \A w \in MembersOf(plan[i]) : \E k \in 1 .. i : TakesBack(w, mutations[k], docs[k - 1])
      <4>1. MembersOf(plan[i]) = {flip} \cup MembersOf(tail)
        BY <2>4, <2>9, <3>1, OneInFront
      <4> QED
        BY <2>1, <2>5, <3>2, <3>3, <4>1 DEF m, d
    <3>5. ASSUME NEW k \in 1 .. i, IsAxis(mutations[k]) PROVE TakenBackOnce(plan[i], mutations[k])
      <4>1. CASE k = i
        <5>1. ASSUME NEW w \in MembersOf(tail) PROVE ~ IsInverseAxis(m, w)
          <6>1. CASE w = put
            BY <2>4, <2>6, <6>1
          <6>2. CASE w \in MembersOf(rest)
            <7>1. PICK o \in 1 .. i : o # i /\ TakesBack(w, mutations[o], docs[o - 1])
              BY <2>5, <6>2
            <7>2. ~ IsAxis(Put(docs[o - 1], mutations[o]))
              BY DEF Put, IsAxis
            <7> QED
              BY <2>6, <2>7, <2>9, <7>1, <7>2 DEF TakesBack
          <6> QED
            BY <3>3, <6>1, <6>2
        <5> QED
          BY <2>4, <2>9, <3>1, <4>1, <5>1, OneInFront DEF m
      <4>2. CASE k # i
        <5>1. TakenBackOnce(tail, mutations[k]) /\ ~ IsInverseAxis(mutations[k], flip)
          BY <2>7, <2>9, <3>3, <3>5, <4>2
        <5> QED
          BY <2>4, <2>9, <3>1, <5>1, OneInFront
      <4> QED
        BY <4>1, <4>2
    <3> QED
      BY <2>4, <3>4, <3>5
  <2> QED
    BY <2>8, <2>9
<1> HIDE DEF Good
<1>4. ASSUME T # {} PROVE FALSE
  <2>1. T \in SUBSET Nat
    BY <1>1
  <2>2. PICK i \in T : \A k \in T : i <= k
    <3> HIDE DEF T
    <3> QED
      BY <1>4, <2>1, LeastExists
  <2>3. i # 0 /\ i \in 1 .. n /\ i - 1 \in 0 .. n /\ i - 1 \notin T
    BY <1>1, <1>2, <2>2
  <2> QED
    BY <1>3, <2>2, <2>3
<1>5. \A i \in 0 .. n : Good(i)
  BY <1>4
<1> QED
  BY <1>5 DEF Good

LEMMA PlanMatches ==
  ASSUME NEW row, Modest(row.mutations), NEW before, NEW docs,
         docs = Intermediate(before, row.mutations),
         \A i \in 0 .. Len(row.mutations) : docs[i] \in Docs,
         NEW plan, Plan(plan, docs, row.mutations)
  PROVE  MatchesTarget(plan[Len(row.mutations)], row, before)
<1> DEFINE ms == row.mutations
           n == Len(ms)
           L == plan[n]
<1>1. n \in Nat /\ DOMAIN ms = 1 .. n /\ n \in 0 .. n
  BY LenProperties DEF Modest
<1>2. /\ \A w \in MembersOf(L) : \E k \in 1 .. n : TakesBack(w, ms[k], docs[k - 1])
      /\ \A k \in 1 .. n : IsAxis(ms[k]) => TakenBackOnce(L, ms[k])
  BY <1>1, PlanIs
<1> HIDE DEF L
<1>3. \A j \in DOMAIN L : \E k \in 1 .. n : TakesBack(L[j], ms[k], docs[k - 1])
  BY <1>2 DEF MembersOf
<1>4. ASSUME NEW i \in 1 .. n, IsAxis(ms[i])
      PROVE  Cardinality({j \in DOMAIN L : IsInverseAxis(ms[i], L[j])}) = 1
  <2>1. PICK p \in DOMAIN L : \A j \in DOMAIN L : IsInverseAxis(ms[i], L[j]) <=> j = p
    BY <1>2, <1>4 DEF TakenBackOnce
  <2>2. {j \in DOMAIN L : IsInverseAxis(ms[i], L[j])} = {p}
    BY <2>1
  <2> QED
    BY <2>2, FS_Singleton
<1>5. ASSUME NEW j \in DOMAIN L, IsAxis(L[j]) PROVE Originals(L[j], row) # {}
  <2>1. PICK k \in 1 .. n : TakesBack(L[j], ms[k], docs[k - 1])
    BY <1>3
  <2>2. ~ IsAxis(Put(docs[k - 1], ms[k]))
    BY DEF Put, IsAxis
  <2>3. IsAxis(ms[k]) /\ L[j] = Flip(ms[k])
    BY <1>5, <2>1, <2>2 DEF TakesBack
  <2>4. IsInverseAxis(ms[k], L[j])
    BY <2>3 DEF IsAxis, IsInverseAxis, Flip
  <2> QED
    BY <1>1, <2>4 DEF Originals
<1>6. ASSUME \A i \in 1 .. n : IsAxis(ms[i]), NEW j \in DOMAIN L
      PROVE  IsAxis(L[j]) \/ L[j] \in RemovedCells(before, row)
  <2>1. PICK k \in 1 .. n : TakesBack(L[j], ms[k], docs[k - 1])
    BY <1>3
  <2>2. CASE L[j] = Flip(ms[k])
    BY <2>2 DEF Flip, IsAxis
  <2>3. CASE L[j] = Put(docs[k - 1], ms[k]) /\ ms[k].id = "rows.deleted"
             /\ CellAt(docs[k - 1], ms[k].at) # Blank
    <3>1. CellAt(docs[k - 1], ms[k].at) = docs[k - 1][ms[k].at]
      BY <2>3 DEF CellAt
    <3>2. L[j] = [id |-> "cell.restore", at |-> ms[k].at, value |-> docs[k - 1][ms[k].at]]
      BY <2>3, <3>1 DEF Put
    <3> HIDE DEF n
    <3> QED
      BY <1>1, <2>3, <3>2 DEF RemovedCells
  <2> QED
    BY <1>6, <2>1, <2>2, <2>3 DEF TakesBack
<1>7. MatchesTarget(L, row, before)
  BY <1>1, <1>4, <1>5, <1>6 DEF MatchesTarget
<1> QED
  BY <1>7 DEF L


\* A mutation that moves no rows has no original, and nothing to repair.
LEMMA NothingToRepair ==
  ASSUME NEW w, ~ IsAxis(w), NEW targets
  PROVE  /\ ~ \E target \in targets : Cardinality(Originals(w, target)) > 1
         /\ InversePatch(w, targets) = {}
<1>1. \A original : ~ IsInverseAxis(original, w)
  BY DEF IsInverseAxis, IsAxis
<1>2. \A target : Originals(w, target) = {}
  BY <1>1 DEF Originals
<1>3. Cardinality({}) = 0
  BY FS_EmptySet
<1> QED
  BY <1>2, <1>3 DEF InversePatch

\* Putting a cell back goes through.
LEMMA PutBackGoes ==
  ASSUME NEW e \in Docs, NEW w \in Undoing, ~ IsAxis(w), w.at \in 1 .. Len(e),
         IsFormula(w.value) => ~ w.value.cached,
         NEW rest \in Seq(Undoing), NEW targets, NEW d,
         \A kept : EndsIn(State(Written(e, w), kept), rest, targets, d), NEW stored
  PROVE  EndsIn(State(e, stored), <<w>> \o rest, targets, d)
<1>1. w.value \in Cell /\ w.at \in Nat \ {0}
  BY DEF Undoing
<1>2. Written(e, w) \in Docs
  BY <1>1, WrittenRows
<1>3. /\ ~ \E target \in targets : Cardinality(Originals(w, target)) > 1
      /\ InversePatch(w, targets) = {}
  BY NothingToRepair
<1>4. Reduced(e, w) = Written(e, w) /\ GeneratedPatch(e, w) = {}
  BY DEF Reduced, GeneratedPatch
<1>5. InBounds(e, w)
  BY <1>1 DEF InBounds, IsAxis
<1>6. Repaired(Written(e, w), {}) = Written(e, w)
  <2> DEFINE doc == Written(e, w)
  <2>1. Repaired(doc, {}) = [r \in DOMAIN doc |-> doc[r]]
    BY DEF Repaired
  <2>2. doc = [r \in DOMAIN doc |-> doc[r]]
    BY <1>2, LenProperties DEF Docs
  <2> QED
    BY <2>1, <2>2
<1>7. Repairable(Reduced(e, w), GeneratedPatch(e, w), InversePatch(w, targets))
  BY <1>3, <1>4 DEF Repairable
<1>8. \A kept : EndsIn(State(Repaired(Reduced(e, w), InversePatch(w, targets)), kept),
                       rest, targets, d)
  BY <1>3, <1>4, <1>6
<1> QED
  BY <1>3, <1>5, <1>7, <1>8, GoesOn

\* The patch an undo repairs with is that of the mutation it takes back.
LEMMA OneOriginal ==
  ASSUME NEW row, Modest(row.mutations), NEW i \in 1 .. Len(row.mutations),
         NEW w, IsInverseAxis(row.mutations[i], w)
  PROVE  /\ ~ \E target \in {row} : Cardinality(Originals(w, target)) > 1
         /\ InversePatch(w, {row}) = Inverted(patches[row.revision][i])
<1>1. DOMAIN row.mutations = 1 .. Len(row.mutations)
  BY LenProperties DEF Modest
<1>2. \A m : IsInverseAxis(m, w) => IsAxis(m)
  BY DEF IsInverseAxis, IsAxis
<1>3. Originals(w, row) = {i}
  <2>1. ASSUME NEW k \in 1 .. Len(row.mutations), IsInverseAxis(row.mutations[k], w)
        PROVE  k = i
    <3>1. /\ row.mutations[k].id = row.mutations[i].id
          /\ row.mutations[k].at = row.mutations[i].at
      BY <2>1, OneIsInverted
    <3> QED
      BY <1>2, <2>1, <3>1 DEF Modest, MovesApart
  <2> QED
    BY <1>1, <2>1 DEF Originals
<1>4. Cardinality(Originals(w, row)) = 1
  BY <1>3, FS_Singleton
<1>5. ~ \E target \in {row} : Cardinality(Originals(w, target)) > 1
  BY <1>4
<1>6. InversePatch(w, {row}) = Inverted(patches[row.revision][i])
  <2> DEFINE Of(target) ==
               UNION {Inverted(patches[target.revision][k]) : k \in Originals(w, target)}
  <2>1. InversePatch(w, {row}) = UNION {Of(target) : target \in {row}}
    BY DEF InversePatch
  <2>2. Of(row) = Inverted(patches[row.revision][i])
    BY <1>3
  <2> HIDE DEF Of
  <2>3. UNION {Of(target) : target \in {row}} = Of(row)
    OBVIOUS
  <2> QED
    BY <2>1, <2>2, <2>3
<1> QED
  BY <1>5, <1>6

\* Whatever stands between what the first i mutations made and what they make on
\* their own, the mutations back end where the operation began.
LEMMA PlanEnds ==
  ASSUME NEW row, Modest(row.mutations), NEW g, NEW before, NEW after,
         Trace(g, before, after, row.mutations, patches[row.revision]),
         OneMove(row.mutations) \/ Bare(g, row.mutations),
         NEW x, x = Intermediate(before, row.mutations), KeepsExtent(x, row.mutations),
         NEW plan, Plan(plan, x, row.mutations)
  PROVE  \A i \in 0 .. Len(row.mutations) : \A e, stored :
           Between(e, g[i], x[i]) => EndsIn(State(e, stored), plan[i], {row}, before)
<1> DEFINE ms == row.mutations
           n == Len(ms)
           Good(i) == \A e, stored :
                        Between(e, g[i], x[i]) => EndsIn(State(e, stored), plan[i], {row}, before)
           T == {i \in 0 .. n : ~ Good(i)}
<1>1. n \in Nat /\ \A i \in 1 .. n : ms[i] \in Mutation
  BY LenProperties DEF Modest
<1>2. /\ x[0] = before
      /\ \A i \in 1 .. n : x[i] = Reduced(x[i - 1], ms[i])
      /\ \A i \in 0 .. n : x[i] \in Docs /\ Len(x[i]) = Len(g[i])
      /\ \A i \in 1 .. n : IsAxis(ms[i]) => x[i - 1] = g[i - 1]
  BY IntermediateFollowsTrace
<1>3. \A i \in 0 .. n : plan[i] \in Seq(Undoing)
  BY <1>2, PlanIs
<1>4. \A i \in 0 .. n : Fitting(g[i]) /\ g[i] \in Docs
  BY DEF Trace, Fitting
<1>5. Good(0)
  <2> SUFFICES ASSUME NEW e, NEW stored, Between(e, g[0], x[0])
               PROVE  EndsIn(State(e, stored), plan[0], {row}, before)
    OBVIOUS
  <2>1. g[0] = before /\ x[0] = before /\ before \in Docs
    BY <1>1, <1>2, <1>4 DEF Trace
  <2>2. e = before
    BY <2>1, DocsEqual DEF Between
  <2> QED
    BY <2>2, NothingLeft DEF Plan
<1>6. ASSUME NEW i \in 1 .. n, Good(i - 1) PROVE Good(i)
  <2> SUFFICES ASSUME NEW e, NEW stored, Between(e, g[i], x[i])
               PROVE  EndsIn(State(e, stored), plan[i], {row}, before)
    OBVIOUS
  <2> DEFINE m == ms[i]
             d == x[i - 1]
             rest == plan[i - 1]
             put == Put(d, m)
             flip == Flip(m)
  <2>1. i - 1 \in 0 .. n /\ i \in 0 .. n /\ i \in Nat
    BY <1>1
  <2>2. m \in Mutation /\ d \in Docs /\ rest \in Seq(Undoing)
    BY <1>1, <1>2, <1>3, <2>1
  <2>3. /\ put \in Undoing /\ ~ IsAxis(put)
        /\ ~ IsAxis(m) => plan[i] = <<put>> \o rest
        /\ IsAxis(m) =>
             /\ flip \in Undoing /\ IsInverseAxis(m, flip)
             /\ \/ /\ plan[i] = <<flip>> \o rest
                   /\ m.id = "rows.deleted" => CellAt(d, m.at) = Blank
                \/ /\ m.id = "rows.deleted" /\ CellAt(d, m.at) # Blank
                   /\ plan[i] = <<flip>> \o (<<put>> \o rest)
    <3>1. plan[i] = InverseMutations(d, m) \o rest
      BY DEF Plan
    <3> HIDE DEF m, d, rest
    <3> QED
      BY <2>2, <3>1, PlanStep
  <2>4. put.at = m.at /\ put.value = CellAt(d, m.at)
    BY DEF Put
  <2>5. /\ e \in Docs /\ Len(e) = Len(g[i])
        /\ \A r \in 1 .. Len(g[i]) : e[r] = g[i][r] \/ e[r] = x[i][r]
    BY DEF Between
  <2>6. Len(d) = Len(g[i - 1]) /\ g[i - 1] \in Docs /\ Fitting(g[i - 1])
    BY <1>2, <1>4, <2>1
  <2>7. InBounds(g[i - 1], m)
    BY DEF Trace
  <2>8. m.at \in Nat \ {0} /\ (IsAxis(m) => Axis(m))
    BY <2>7, MutationsAre
  <2>9. \A other, kept : Between(other, g[i - 1], d) =>
          EndsIn(State(other, kept), rest, {row}, before)
    BY <1>6
  <2>10. /\ Len(d) \in Nat /\ DOMAIN d = 1 .. Len(d)
         /\ \A r \in 1 .. Len(d) : d[r] \in Cell /\ (IsFormula(d[r]) => ~ d[r].cached)
    <3> HIDE DEF d
    <3> QED
      BY <2>2, DocsAre
  <2>11. CASE ~ IsAxis(m)
    <3>1. m.at \in 1 .. Len(d)
      BY <2>8, <2>10, <2>11 DEF KeepsExtent
    <3>2. put.value = d[m.at]
      BY <2>4, <2>10, <3>1 DEF CellAt
    <3>3. /\ m.value \in Cell /\ (IsFormula(m.value) => ~ m.value.cached)
      BY DEF Modest
    <3>4. x[i] = Written(d, m) /\ g[i] = Written(g[i - 1], m)
      BY <1>2, <2>11 DEF Reduced, Trace
    <3> HIDE DEF m, d, rest, put
    <3>5. /\ Len(x[i]) = Len(d)
          /\ \A r \in 1 .. Len(d) : r # m.at => x[i][r] = d[r]
      BY <2>2, <2>8, <2>10, <3>1, <3>3, <3>4, WrittenRows
    <3>6. /\ Len(g[i]) = Len(d)
          /\ \A r \in 1 .. Len(d) : r # m.at => g[i][r] = g[i - 1][r]
      BY <2>6, <2>8, <2>10, <3>1, <3>3, <3>4, WrittenRows
    <3>7. /\ Written(e, put) \in Docs /\ Len(Written(e, put)) = Len(d)
          /\ \A r \in 1 .. Len(d) : Written(e, put)[r] = IF r = m.at THEN d[r] ELSE e[r]
      <4>1. put.value \in Cell /\ (IsFormula(put.value) => ~ put.value.cached)
            /\ put.at \in Nat \ {0} /\ put.at <= Len(e)
        BY <2>4, <2>5, <2>10, <3>1, <3>2, <3>6
      <4>2. /\ Written(e, put) \in Docs /\ Len(Written(e, put)) = Len(e)
            /\ \A r \in 1 .. Len(e) :
                 Written(e, put)[r] = IF r = put.at THEN put.value
                                      ELSE IF r \in 1 .. Len(e) THEN e[r] ELSE Blank
        BY <2>5, <4>1, WrittenRows
      <4> QED
        BY <2>4, <2>5, <3>2, <3>6, <4>2
    <3>8. Between(Written(e, put), g[i - 1], d)
      <4>1. \A r \in 1 .. Len(d) :
              Written(e, put)[r] = g[i - 1][r] \/ Written(e, put)[r] = d[r]
        BY <2>5, <3>5, <3>6, <3>7
      <4> QED
        BY <2>6, <3>7, <4>1 DEF Between
    <3>9. \A kept : EndsIn(State(Written(e, put), kept), rest, {row}, before)
      BY <2>9, <3>8
    <3>10. put.at \in 1 .. Len(e) /\ (IsFormula(put.value) => ~ put.value.cached)
      BY <2>4, <2>5, <2>10, <3>1, <3>2, <3>6
    <3>11. EndsIn(State(e, stored), <<put>> \o rest, {row}, before)
      BY <2>2, <2>3, <2>5, <3>9, <3>10, PutBackGoes
    <3> QED
      BY <2>3, <2>11, <3>11
  <2>12. CASE IsAxis(m)
    <3>1. d = g[i - 1]
      BY <1>2, <2>12
    <3> DEFINE patch == patches[row.revision][i]
               z == Repaired(Reduced(e, flip), Inverted(patch))
    <3>2. Exact(patch, d, g[i], m)
      BY <2>12, <3>1 DEF Trace
    <3>3. x[i] = Reduced(d, m) /\ InBounds(d, m) /\ Len(d) <= MaxRows
      BY <1>2, <2>6, <2>7, <3>1 DEF Fitting
    <3>4. ~ (m.id = "rows.deleted" /\ Len(d) = 1)
      BY DEF KeepsExtent
    <3>5. /\ ~ \E target \in {row} : Cardinality(Originals(flip, target)) > 1
          /\ InversePatch(flip, {row}) = Inverted(patch)
      BY <2>3, <2>12, OneOriginal
    <3> HIDE DEF patch, m, d, rest, put, flip
    <3>6. /\ InBounds(e, flip)
          /\ Repairable(Reduced(e, flip), GeneratedPatch(e, flip), Inverted(patch))
          /\ z \in Docs /\ Len(z) = Len(d)
          /\ \A r \in 1 .. Len(d) :
               z[r] = IF m.id = "rows.deleted" /\ r = m.at THEN Blank ELSE d[r]
      <4>1. Between(e, g[i], Reduced(d, m))
        BY <3>3
      <4> QED
        BY <2>2, <2>3, <2>8, <2>12, <3>2, <3>3, <3>4, <4>1, AxisTakenBack
    <3> HIDE DEF z
    <3>7. \A left : left \in Docs /\ left = d =>
            Between(left, g[i - 1], d)
      BY <2>6, <3>1 DEF Between
    <3>8. CASE /\ plan[i] = <<flip>> \o rest
               /\ m.id = "rows.deleted" => CellAt(d, m.at) = Blank
      <4>1. z = d
        <5>1. \A r \in 1 .. Len(z) : z[r] = d[r]
          BY <2>10, <3>6, <3>8 DEF CellAt
        <5> QED
          BY <2>2, <3>6, <5>1, DocsEqual
      <4>2. \A kept : EndsIn(State(z, kept), rest, {row}, before)
        BY <2>9, <3>6, <3>7, <4>1
      <4>3. EndsIn(State(e, stored), <<flip>> \o rest, {row}, before)
        <5>1. \A kept : EndsIn(State(Repaired(Reduced(e, flip), InversePatch(flip, {row})), kept),
                               rest, {row}, before)
          BY <3>5, <4>2 DEF z
        <5>2. Repairable(Reduced(e, flip), GeneratedPatch(e, flip), InversePatch(flip, {row}))
          BY <3>5, <3>6
        <5> QED
          BY <2>2, <2>3, <2>12, <3>5, <3>6, <5>1, <5>2, GoesOn
      <4> QED
        BY <3>8, <4>3
    <3>9. CASE /\ m.id = "rows.deleted" /\ CellAt(d, m.at) # Blank
               /\ plan[i] = <<flip>> \o (<<put>> \o rest)
      <4>1. m.at \in 1 .. Len(d) /\ put.value = d[m.at]
        BY <2>4, <2>10, <3>9 DEF CellAt
      <4>2. put.value \in Cell /\ (IsFormula(put.value) => ~ put.value.cached)
            /\ put.at \in Nat \ {0} /\ put.at <= Len(z)
        BY <2>4, <2>8, <2>10, <3>6, <4>1
      <4>3. /\ Written(z, put) \in Docs /\ Len(Written(z, put)) = Len(z)
            /\ \A r \in 1 .. Len(z) :
                 Written(z, put)[r] = IF r = put.at THEN put.value
                                      ELSE IF r \in 1 .. Len(z) THEN z[r] ELSE Blank
        BY <3>6, <4>2, WrittenRows
      <4>4. Written(z, put) = d
        <5>1. \A r \in 1 .. Len(z) : Written(z, put)[r] = d[r]
          BY <2>4, <3>6, <4>1, <4>3
        <5> QED
          BY <2>2, <3>6, <4>3, <5>1, DocsEqual
      <4>5. \A kept : EndsIn(State(Written(z, put), kept), rest, {row}, before)
        BY <2>2, <2>9, <3>7, <4>4
      <4>6. put.at \in 1 .. Len(z)
        BY <2>4, <3>6, <4>1
      <4>7. \A kept : EndsIn(State(z, kept), <<put>> \o rest, {row}, before)
        BY <2>2, <2>3, <3>6, <4>2, <4>5, <4>6, PutBackGoes
      <4>8. <<put>> \o rest \in Seq(Undoing)
        <5>1. <<put>> \in Seq(Undoing)
          BY <2>3
        <5> QED
          BY <2>2, <5>1, ConcatProperties
      <4>9. EndsIn(State(e, stored), <<flip>> \o (<<put>> \o rest), {row}, before)
        <5>1. \A kept : EndsIn(State(Repaired(Reduced(e, flip), InversePatch(flip, {row})), kept),
                               <<put>> \o rest, {row}, before)
          BY <3>5, <4>7 DEF z
        <5>2. Repairable(Reduced(e, flip), GeneratedPatch(e, flip), InversePatch(flip, {row}))
          BY <3>5, <3>6
        <5> QED
          BY <2>3, <2>12, <3>5, <3>6, <4>8, <5>1, <5>2, GoesOn
      <4> QED
        BY <3>9, <4>9
    <3> QED
      BY <2>3, <2>12, <3>8, <3>9
  <2> QED
    BY <2>11, <2>12
<1> HIDE DEF Good
<1>7. ASSUME T # {} PROVE FALSE
  <2>1. T \in SUBSET Nat
    BY <1>1
  <2>2. PICK i \in T : \A k \in T : i <= k
    <3> HIDE DEF T
    <3> QED
      BY <1>7, <2>1, LeastExists
  <2>3. i # 0 /\ i \in 1 .. n /\ i - 1 \in 0 .. n /\ i - 1 \notin T
    BY <1>1, <1>5, <2>2
  <2> QED
    BY <1>6, <2>2, <2>3
<1>8. \A i \in 0 .. n : Good(i)
  BY <1>7
<1> QED
  BY <1>8 DEF Good


\* The latest operation can be taken back.
LEMMA LatestIsUndoable ==
  ASSUME LogInv, SheetsInv
  PROVE  LatestUndoable
<1> SUFFICES ASSUME NEW row \in operations, row.revision = revision, ~ IsRestore(row),
                    ~ ChangesExtentForGood(row)
             PROVE  UndoAccepted(row)
  BY DEF LatestUndoable
<1> DEFINE ms == row.mutations
           n == Len(ms)
           before == history[row.revision - 1]
           x == Intermediate(before, ms)
<1>1. Modest(ms) /\ Traced(row)
  BY DEF SheetsInv
<1>2. n \in Nat /\ DOMAIN ms = 1 .. n /\ n \in 0 .. n
  BY <1>1, LenProperties DEF Modest
<1>3. PICK g : /\ Trace(g, before, history[revision], ms, patches[row.revision])
               /\ OneMove(ms) \/ Bare(g, ms)
  BY <1>1 DEF Traced
<1>4. KeepsExtent(x, ms)
  BY <1>2 DEF ChangesExtentForGood, KeepsExtent
<1>5. PICK plan : Plan(plan, x, ms) /\ InverseOf(row) = plan[n]
  BY <1>2, InverseIsPlan
<1> HIDE DEF x
<1>6. \A i \in 0 .. n : x[i] \in Docs /\ Len(x[i]) = Len(g[i])
  BY <1>1, <1>3, <1>4, IntermediateFollowsTrace DEF x
<1>7. plan[n] \in Seq(Undoing)
  BY <1>1, <1>2, <1>5, <1>6, PlanIs
<1>8. MatchesTarget(plan[n], row, before)
  BY <1>1, <1>5, <1>6, PlanMatches DEF x
<1>9. Between(history[revision], g[n], x[n])
  BY <1>2, <1>3 DEF Trace, Fitting, Between
<1>10. EndsIn(State(history[revision], << >>), plan[n], {row}, before)
  BY <1>1, <1>2, <1>3, <1>4, <1>5, <1>9, PlanEnds DEF x
<1> HIDE DEF before, ms, n
<1>11. /\ ApplyOperation(history[revision], plan[n], {row}).ok
       /\ ApplyOperation(history[revision], plan[n], {row}).doc = before
  BY <1>7, <1>10, OperationEndsIn
<1> QED
  BY <1>5, <1>8, <1>11 DEF UndoAccepted, before

\* Every revision is a document with rows and no cached formula, and the operation
\* that made it went there through documents that its patches tell exactly how to
\* take back: if requests write no formula with a cached value or a lost reference,
\* no document is created with a cached value, no request inserts, or deletes, one
\* row number twice, and undos move rows once.
THEOREM SheetsInvariant ==
  ASSUME ModestRequests, PlainValues, PlainDocuments
  PROVE  SnapshotsSpec => []SheetsInv
<1>1. SnapshotsInit => LogInv /\ DocumentsInv /\ SheetsInv
  BY InitEstablishes, DocumentsStart, SheetsStart DEF SnapshotsInit
<1>2. LogInv /\ DocumentsInv /\ SheetsInv /\ [SnapshotsNext]_allVars
        => (LogInv /\ DocumentsInv /\ SheetsInv)'
  BY StepOfTheLog, StepPreserves, StepKeepsDocuments, StepKeepsSheets
<1> QED
  BY <1>1, <1>2, PTL DEF SnapshotsSpec

\* While an operation is the latest one, commit accepts the undo the client keeps
\* for it, and the document is what it was: validateStructuralUndoMutations finds
\* the inverse mutations it expects, and applyStructuralOwnerPatch repairs each
\* formula the operation rewrote, also where the operation is itself an undo.
THEOREM LatestCanBeTakenBack ==
  ASSUME ModestRequests, PlainValues, PlainDocuments
  PROVE  SnapshotsSpec => []LatestUndoable
<1>1. LogInv /\ DocumentsInv /\ SheetsInv => LatestUndoable
  BY LatestIsUndoable
<1> QED
  BY <1>1, DocumentsInvariant, SheetsInvariant, PTL
=============================================================================
