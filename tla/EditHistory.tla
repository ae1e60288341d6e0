----------------------------- MODULE EditHistory -----------------------------
(***************************************************************************)
(* The undo and redo stacks of the page of SharedEditing.  An entry keeps  *)
(* the identity and the base of the operation it can take back; undoing it *)
(* is a new operation that names them, redoing it a new operation whose    *)
(* identity the entry takes over.  A change of another user rewrites the   *)
(* entries of both stacks or drops them.                                   *)
(***************************************************************************)
EXTENDS SharedEditing, Queues

CONSTANT HistoryLimit       \* entries of the undo stack: 200 in the code

ASSUME HistoryAssumption == HistoryLimit \in Nat \ {0}

VARIABLES
  undoStack,
  redoStack,
  displaced       \* history: an entry lost the one its coordinates rest on

vars == <<editingVars, undoStack, redoStack, displaced>>

Init ==
  /\ EditingInit
  /\ undoStack = <<>> /\ redoStack = <<>>
  /\ displaced = FALSE

Top(stack) == stack[Len(stack)]

Popped(stack) == SubSeq(stack, 1, Len(stack) - 1)

-----------------------------------------------------------------------------
(* The user.                                                               *)

\* Mutant: the length is looked at before the entry is added.
PushedUnlessFull(entry) ==
  LET stack == Append(undoStack, entry)
  IN  IF Len(undoStack) > HistoryLimit THEN Tail(stack) ELSE stack

\* execute: the oldest entry falls out of a full stack.
Pushed(entry) ==
  LET stack == Append(undoStack, entry)
  IN  IF Len(stack) > HistoryLimit THEN Tail(stack) ELSE stack

Execute(m) ==
  /\ Edit(m)
  /\ undoStack' = Pushed([op |-> nextOp, base |-> revision, committed |-> 0,
                          m |-> m, inverse |-> Inverted(rows, m)])
  /\ redoStack' = <<>>
  /\ UNCHANGED displaced

\* replayObjectHistory: STALE_OPERATION.
Replayable(entry) ==
  Moves(entry.m) /\ entry.committed # 0 => entry.committed = revision

Undo ==
  /\ undoStack # <<>>
  /\ LET entry == Top(undoStack) IN
       /\ Replayable(entry)
       /\ Enqueue(entry.inverse, entry.op, entry.base, entry.committed = 0)
       /\ redoStack' = Append(redoStack, entry)
  /\ undoStack' = Popped(undoStack)
  /\ UNCHANGED displaced

\* Mutants: the entry keeps the identity of the operation that was undone; it
\* keeps the revision of that operation.
Unbound(entry) == entry

BoundAsCommitted(entry) == [entry EXCEPT !.op = nextOp, !.base = revision]

\* bindRedoOperation: the entry is that of the new operation from now on.
Bound(entry) == [entry EXCEPT !.op = nextOp, !.base = revision, !.committed = 0]

Redo ==
  /\ redoStack # <<>>
  /\ LET entry == Top(redoStack) IN
       /\ Replayable(entry)
       /\ Enqueue(entry.m, 0, 0, FALSE)
       /\ undoStack' = Append(undoStack, Bound(entry))
  /\ redoStack' = Popped(redoStack)
  /\ UNCHANGED displaced

-----------------------------------------------------------------------------
(* Revisions.                                                              *)

\* Mutant: only the revision is noted.
MarkedRevision(stack) ==
  [i \in DOMAIN stack |->
     IF stack[i].op = Incoming.op
     THEN [stack[i] EXCEPT !.committed = revision + 1]
     ELSE stack[i]]

\* markOperationCommitted, with the base the operation was sent with.
Marked(stack) ==
  [i \in DOMAIN stack |->
     IF stack[i].op = Incoming.op
     THEN [stack[i] EXCEPT !.committed = revision + 1, !.base = Incoming.base]
     ELSE stack[i]]

Acknowledge ==
  /\ ReceiveOwn
  /\ undoStack' = Marked(undoStack)
  /\ redoStack' = Marked(redoStack)
  /\ UNCHANGED displaced

\* transformHistoryEntry: whether an entry survives a change.  An insertion
\* moves the entries of its row; a write and a deletion drop them.
Survives(entry, change) ==
  change.kind = "insert" \/ ~SameRow(entry.m, change)

Moved(entry, change) ==
  [entry EXCEPT !.m = Rebased(@, change), !.inverse = Rebased(@, change)]

\* transformHistoryAgainstRemote.
Transformed(stack, change) ==
  LET kept == Kept(stack, {i \in DOMAIN stack : Survives(stack[i], change)})
  IN  [i \in DOMAIN kept |-> Moved(kept[i], change)]

\* The coordinates of an entry are those of the document after it, or before it
\* when it is undone: they rest on the moves of the entries nearer to the top.
Displaces(stack, change) ==
  \E i, j \in DOMAIN stack :
     /\ i < j
     /\ Moves(stack[j].m)
     /\ Moves(change) \/ ~Survives(stack[j], change) \/ SameRow(stack[i].m, change)

ReceiveRemote ==
  /\ ReceiveOther
  /\ undoStack' = Transformed(undoStack, Incoming.m)
  /\ redoStack' = Transformed(redoStack, Incoming.m)
  /\ displaced' = \/ displaced
                  \/ Displaces(undoStack, Incoming.m)
                  \/ Displaces(redoStack, Incoming.m)

\* A new CommandRuntime has no history.
Reload ==
  /\ Discard
  /\ undoStack' = <<>> /\ redoStack' = <<>>
  /\ displaced' = FALSE

Server ==
  /\ \/ Accept \/ Refuse \/ Stop
     \/ \E m \in Mutations(sheet, -(Len(log) + 1)) : RemoteCommit(m)
  /\ UNCHANGED <<undoStack, redoStack, displaced>>

Next ==
  \/ \E m \in Mutations(rows, nextOp) : Execute(m)
  \/ Undo \/ Redo
  \/ Acknowledge \/ ReceiveRemote \/ Reload
  \/ Server

Spec == Init /\ [][Next]_vars

-----------------------------------------------------------------------------
(* What is checked.                                                        *)

Entry(stack) ==
  /\ stack \in Seq([op : Ops, base : Nat, committed : Nat,
                    m : Mutation, inverse : Mutation])
  /\ \A i \in DOMAIN stack : stack[i].m.at = stack[i].inverse.at

\* Every variable keeps its type, and the two stacks together hold no more
\* entries than the undo stack may.
TypeOK ==
  /\ sheet \in Document /\ before \in Document /\ rows \in Document
  /\ revision \in 0 .. Len(log)
  /\ \A i \in DOMAIN queue : queue[i].op \in Ops /\ queue[i].m \in Mutation
  /\ refused => queue # <<>>
  /\ Entry(undoStack) /\ Entry(redoStack)
  /\ Len(undoStack) + Len(redoStack) <= HistoryLimit

\* The next undo of a write finds what was written, the next redo what was there
\* before it, in the row they are going to write: whatever others committed,
\* unless an entry was displaced or a revision was applied in the wrong place.
HistoryInPlaceUnlessDisplaced ==
  ~crossed /\ ~displaced =>
    /\ undoStack # <<>> =>
         LET entry == Top(undoStack) IN
           ~Moves(entry.m) => rows[entry.m.at] = entry.m.cell
    /\ redoStack # <<>> =>
         LET entry == Top(redoStack) IN
           ~Moves(entry.m) => rows[entry.inverse.at] = entry.inverse.cell

\* No operation is undone twice: an undo after a redo names the redone operation.
UndoneOnce ==
  LET own == {log[k] : k \in DOMAIN log} \cup {queue[i] : i \in DOMAIN queue}
  IN  \A p, q \in own : p.undoes # 0 /\ p.undoes = q.undoes => p.op = q.op

\* An entry knows where its operation is: at the revision and with the base it
\* was committed with, or still in the queue.
HistoryKnowsItsOperations ==
  LET entries == {undoStack[i] : i \in DOMAIN undoStack}
                   \cup {redoStack[i] : i \in DOMAIN redoStack}
  IN  \A entry \in entries :
        IF entry.committed = 0
        THEN \E i \in DOMAIN queue : queue[i].op = entry.op
        ELSE /\ entry.committed <= revision
             /\ log[entry.committed].op = entry.op
             /\ log[entry.committed].base = entry.base

\* The latest operation of the workbook, acknowledged when it was undone, can be
\* undone: the server refuses that neither for its base nor for its result.
LatestUndoAccepted ==
  ~( /\ refused /\ ~crossed
     /\ Head(queue).undoes # 0 /\ ~Head(queue).draft
     /\ log[Len(log)].op = Head(queue).undoes )
=============================================================================
