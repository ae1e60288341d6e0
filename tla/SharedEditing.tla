---------------------------- MODULE SharedEditing ----------------------------
(***************************************************************************)
(* One page edits a sheet that others edit too.  Its edits are applied at  *)
(* once and queued; the server accepts or refuses them one by one; what    *)
(* others committed in between is applied to the page's document, and the  *)
(* queued edits are rebased over it.                                       *)
(*                                                                         *)
(* Revisions reach the page in their order, the answer to an own operation *)
(* in the place of its revision: what happens otherwise is the subject of  *)
(* Collaboration, which has no documents.                                  *)
(***************************************************************************)
EXTENDS RowEdits

CONSTANTS
  Start,          \* the document at revision 0
  MaxRows,        \* bound: rows of a sheet into which another is inserted
  MaxEdits,       \* bound: operations of the page, undo and redo included
  MaxRemote       \* bound: operations of others

ASSUME EditingAssumption ==
  /\ Start \in Document /\ Len(Start) > 0
  /\ MaxRows \in Nat
  /\ MaxEdits \in Nat
  /\ MaxRemote \in Nat

VARIABLES
  log,            \* the committed operations
  sheet,          \* the document of the latest revision
  before,         \* the document of the revision before it
  rows,           \* the document of the page
  revision,       \* the revision the page has reached
  queue,          \* the operations of the page that are not acknowledged
  refused,        \* the server refused the first of them
  stopped,        \* a revision could not be applied
  nextOp,         \* the next operation identity
  crossed         \* history: a revision was applied in the wrong place

serverVars == <<log, sheet, before>>
queueVars == <<queue, refused, nextOp>>
pageVars == <<rows, revision, stopped, crossed>>
editingVars == <<serverVars, queueVars, pageVars>>

Ops == 1 .. MaxEdits

\* The mutations that are possible in a document; cell is the content of a
\* set, and tells it from every other.
Mutations(doc, cell) ==
  {m \in [kind : {"set", "insert", "delete"}, at : 1 .. Len(doc) + 1,
          cell : {Blank, cell}] :
     /\ InBounds(doc, m)
     /\ m.kind = "insert" => Len(doc) < MaxRows
     /\ m.kind = "set" <=> m.cell # Blank}

EditingInit ==
  /\ log = <<>>
  /\ sheet = Start /\ before = Start /\ rows = Start
  /\ revision = 0
  /\ queue = <<>>
  /\ refused = FALSE /\ stopped = FALSE
  /\ nextOp = 1
  /\ crossed = FALSE

-----------------------------------------------------------------------------
(* The page.                                                               *)

\* enqueueLocalMutations, with the undo intent of enqueueCompensatingMutations;
\* undoes is 0 when there is none.  aim and draft are kept for the properties.
Enqueue(m, undoes, undoesBase, draft) ==
  /\ nextOp \in Ops
  /\ ~stopped
  /\ InBounds(rows, m)
  /\ rows' = Applied(rows, m)
  /\ queue' = Append(queue, [op |-> nextOp, base |-> revision, m |-> m,
                             undoes |-> undoes, undoesBase |-> undoesBase,
                             aim |-> Under(rows, m), draft |-> draft])
  /\ nextOp' = nextOp + 1
  /\ UNCHANGED <<serverVars, refused, revision, stopped, crossed>>

Edit(m) == Enqueue(m, 0, 0, FALSE)

\* flushQueue sends the first operation of the queue as soon as there is one; it
\* is in flight until the server has handled it.
InFlight ==
  /\ queue # <<>>
  /\ ~refused
  /\ \A k \in DOMAIN log : log[k].op # Head(queue).op

-----------------------------------------------------------------------------
(* The server.                                                             *)

\* validateIntent and requireUndoRestoredPreimage: the target is the latest
\* revision, and the result is the document before it.
UndoAllowed(q) ==
  /\ log # <<>>
  /\ log[Len(log)].op = q.undoes
  /\ log[Len(log)].base = q.undoesBase
  /\ q.base = Len(log)
  /\ Applied(sheet, q.m) = before

\* Mutant: the comparison starts one revision late.
DisjointFromNext(q) ==
  \A k \in q.base + 2 .. Len(log) : ~Moves(log[k].m) /\ ~SameRow(log[k].m, q.m)

\* Nothing since the base moved rows or concerned the same row.
Disjoint(q) ==
  \A k \in q.base + 1 .. Len(log) : ~Moves(log[k].m) /\ ~SameRow(log[k].m, q.m)

Accepts(q) ==
  /\ q.base <= Len(log)
  /\ Moves(q.m) => q.base = Len(log)
  /\ InBounds(sheet, q.m)
  /\ q.undoes # 0 => UndoAllowed(q)
  /\ Disjoint(q)

Committed(op, base, m, undoes, aim, astray) ==
  /\ log' = Append(log, [op |-> op, base |-> base, m |-> m, undoes |-> undoes,
                         aim |-> aim, hit |-> Under(sheet, m), astray |-> astray])
  /\ sheet' = Applied(sheet, m)
  /\ before' = sheet

\* The request of the page is handled.
Accept ==
  /\ InFlight
  /\ LET q == Head(queue) IN
       /\ Accepts(q)
       /\ Committed(q.op, q.base, q.m, q.undoes, q.aim, crossed)
  /\ UNCHANGED <<queueVars, pageVars>>

Refuse ==
  /\ InFlight
  /\ ~Accepts(Head(queue))
  /\ refused' = TRUE
  /\ UNCHANGED <<serverVars, queue, nextOp, pageVars>>

\* Another user's page commits, on the latest revision.
RemoteCommit(m) ==
  /\ Len(SelectSeq(log, LAMBDA row : row.op = 0)) < MaxRemote
  /\ InBounds(sheet, m)
  /\ Committed(0, Len(log), m, 0, Under(sheet, m), FALSE)
  /\ UNCHANGED <<queueVars, pageVars>>

-----------------------------------------------------------------------------
(* The page receives the next revision.                                    *)

Incoming == log[revision + 1]

OwnIncoming == queue # <<>> /\ Incoming.op = Head(queue).op

\* rebaseQueuedOperations: the first operation was sent and stays as it is; the
\* others are numbered after the new revision and mapped over a change of another user.
RebasedQueue(change, new) ==
  [i \in DOMAIN queue |->
     IF i > 1
     THEN [queue[i] EXCEPT !.base = new + i - 1, !.m = Rebased(@, change)]
     ELSE queue[i]]

RestRenumbered(new) ==
  [i \in 1 .. Len(queue) - 1 |-> [queue[i + 1] EXCEPT !.base = new + i - 1]]

\* acknowledge: the base of the rest is lifted.
ReceiveOwn ==
  /\ ~stopped
  /\ revision < Len(log)
  /\ OwnIncoming
  /\ revision' = revision + 1
  /\ queue' = RestRenumbered(revision')
  /\ UNCHANGED <<serverVars, refused, nextOp, rows, stopped, crossed>>

\* Mutant: the queue is not compared with the change.
ConflictingNever == ~InBounds(rows, Incoming.m)

\* assertPendingCanRebase, and the preflight of applyRemoteMutations.
Conflicting ==
  \/ \E i \in DOMAIN queue : SameRow(queue[i].m, Incoming.m)
  \/ ~InBounds(rows, Incoming.m)

\* The change is applied where it was committed, although rows that the page
\* inserted or deleted, and that are not committed, may be above it.
Crosses ==
  \E i \in DOMAIN queue :
     Moves(queue[i].m) /\ Incoming.m.at > queue[i].m.at

ReceiveOther ==
  /\ ~stopped
  /\ revision < Len(log)
  /\ ~OwnIncoming
  /\ ~Conflicting
  /\ rows' = Applied(rows, Incoming.m)
  /\ revision' = revision + 1
  /\ queue' = RebasedQueue(Incoming.m, revision')
  /\ crossed' = (crossed \/ Crosses)
  /\ UNCHANGED <<serverVars, refused, nextOp, stopped>>

\* COLLABORATION_CONFLICT: the draft is kept, nothing is applied or sent.
Stop ==
  /\ ~stopped
  /\ revision < Len(log)
  /\ ~OwnIncoming
  /\ Conflicting
  /\ stopped' = TRUE
  /\ UNCHANGED <<serverVars, queueVars, rows, revision, crossed>>

\* The user gives up the drafts and the page is loaded again.  Here the last
\* request is answered by then.
Discard ==
  /\ stopped \/ refused
  /\ ~InFlight
  /\ rows' = sheet
  /\ revision' = Len(log)
  /\ queue' = <<>>
  /\ refused' = FALSE /\ stopped' = FALSE /\ crossed' = FALSE
  /\ UNCHANGED <<serverVars, nextOp>>

-----------------------------------------------------------------------------
(* What is checked.                                                        *)

\* When everything was sent and received the page shows the sheet, unless a
\* revision was applied across rows that the page had inserted or deleted.
ConvergesUnlessCrossed ==
  queue = <<>> /\ revision = Len(log) /\ ~stopped /\ ~crossed => rows = sheet

\* The same without the exception.
Converges == queue = <<>> /\ revision = Len(log) /\ ~stopped => rows = sheet

\* An accepted edit of the page writes over what its user saw there, however
\* many revisions moved the row in between.
LandsWhereAimed ==
  \A k \in DOMAIN log : log[k].astray \/ log[k].aim = log[k].hit
=============================================================================
