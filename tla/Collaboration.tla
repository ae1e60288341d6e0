----------------------------- MODULE Collaboration -----------------------------
(***************************************************************************)
(* One browser page that edits a workbook together with others: its queue  *)
(* of local operations (OfflineQueue), its session (CollaborationSession)  *)
(* and the part of the runtime that sends operations, receives revision    *)
(* events and synchronizes after each connection.  The server is a log of  *)
(* operation identities; OperationLog models it in detail.                 *)
(*                                                                         *)
(* JavaScript runs one callback at a time, so the code between two awaits  *)
(* is one action.  A document is the sequence of the operations applied to *)
(* it, which shows an operation that is missing or applied twice.          *)
(***************************************************************************)
EXTENDS Integers, SequencesExt, Queues

CONSTANTS
  OwnOperations,    \* operations the user of this page may issue
  OtherOperations,  \* operations other pages may commit
  Cells,            \* the cells of the workbook
  Touches,          \* the cells an operation reads or writes
  MaxConnections    \* bound: how often the socket opens

Operations == OwnOperations \cup OtherOperations
Connections == 1 .. MaxConnections

ASSUME OperationsAssumption ==
  /\ OwnOperations \cap OtherOperations = {}
  /\ Touches \in [Operations -> SUBSET Cells]
  /\ MaxConnections \in Nat

VARIABLES
  log,        \* the operation committed at each revision
  unsent,     \* revisions whose event is not yet broadcast to this page
  client,     \* the state of the page that callbacks read and write
  request,    \* the operation flushQueue is waiting for
  late,       \* requests the page gave up that the server may still handle
  loads,      \* the synchronization started by each opening of the socket
  opened,     \* how often the socket has opened
  issued,     \* history: the local operations with the document edited
  races       \* history: the races that have happened

vars == <<log, unsent, client, request, late, loads, opened, issued, races>>

Entry == [id : OwnOperations, base : Nat,
          status : {"pending", "sent", "rejected"}]

Client ==
  [model     : Seq(Operations),   \* runtime.model
   remote    : Nat,               \* runtime.remoteRevision
   base      : Nat,               \* CollaborationSession.baseRevision
   committed : SUBSET Operations, \* committedOperationIds
   own       : SUBSET OwnOperations, \* runtime.ownOperationIds
   queue     : Seq(Entry),        \* OfflineQueue.queue
   connected : BOOLEAN,           \* the socket is open
   ready     : BOOLEAN,           \* runtime.remoteConnected
   syncing   : BOOLEAN,           \* synchronizing
   failed    : BOOLEAN,           \* synchronizationFailed
   deferred  : Seq(Nat)]          \* deferredMessages

NoRequest == [stage |-> "none"]
Request ==
  [stage : {"posting", "committed", "refused", "acknowledged"},
   id : OwnOperations, base : Nat, revision : Nat]

NotLoading == [stage |-> "idle", hydrated |-> 0, history |-> 0, todo |-> << >>]
Load ==
  [stage : {"idle", "opened", "snapshot", "results", "history", "newer",
            "finishing"},
   hydrated : Nat, history : Nat, todo : Seq(Entry)]

Init ==
  /\ log = << >>
  /\ unsent = {}
  /\ client = [model |-> << >>, remote |-> 0, base |-> 0, committed |-> {},
               own |-> {}, queue |-> << >>, connected |-> FALSE,
               ready |-> FALSE, syncing |-> FALSE, failed |-> FALSE,
               deferred |-> << >>]
  /\ request = NoRequest
  /\ late = {}
  /\ loads = [k \in Connections |-> NotLoading]
  /\ opened = 0
  /\ issued = << >>
  /\ races = {}

-----------------------------------------------------------------------------
(* The server. *)

Revision == Len(log)
Through(r) == {log[i] : i \in 1 .. r}
InLog(id) == id \in Through(Revision)
RevisionOf(id) == CHOOSE r \in 1 .. Revision : log[r] = id

Overlap(a, b) == Touches[a] \cap Touches[b] # {}

\* commitInternal: nothing after the base may collide with the operation.  A
\* structural operation, which needs an exact base, is one with all the cells.
Accepts(id, base) ==
  /\ ~InLog(id)
  /\ base <= Revision
  /\ \A r \in base + 1 .. Revision : ~Overlap(id, log[r])

\* Mutant: the event names the revision after the one committed.
AppendAnnouncingNext(id) ==
  /\ log' = Append(log, id)
  /\ unsent' = unsent \cup {Revision + 2}

AppendToLog(id) ==
  /\ log' = Append(log, id)
  /\ unsent' = unsent \cup {Revision + 1}

-----------------------------------------------------------------------------
(* The queue and the session: functions from a client state to the next. *)

IdsOf(queue) == {queue[i].id : i \in DOMAIN queue}
Pending(c, id) == id \in IdsOf(c.queue)

\* The entries of other operations.
Without(queue, ids) == Kept(queue, {i \in DOMAIN queue : queue[i].id \notin ids})

\* rebaseQueuedOperations; a request that was sent is immutable.
Rebase(queue, revision) ==
  [i \in DOMAIN queue |->
     IF queue[i].status = "pending"
     THEN [queue[i] EXCEPT !.base = revision + i - 1] ELSE queue[i]]

Acknowledge(c, id, revision) ==
  LET base == Max({c.base, revision})
      rest == Without(c.queue, {id})
  IN IF id \in c.committed \/ ~Pending(c, id)
     THEN [c EXCEPT !.base = IF id \in c.committed THEN base ELSE @]
     ELSE [c EXCEPT !.base = base, !.committed = @ \cup {id},
                    !.queue = Rebase(rest, base)]

\* Mutant: a rejected operation leaves the queue.
RejectDropping(c, id) ==
  [c EXCEPT !.queue = Without(@, {id})]

\* Mutant: a rejected operation lets the others pass.
RejectStandingAside(c, id) ==
  LET Others(entry) == entry.id # id
      Rejected(entry) == entry.id = id
  IN [c EXCEPT !.queue = SelectSeq(@, Others) \o SelectSeq(@, Rejected)]

Reject(c, id) ==
  [c EXCEPT !.queue =
     [i \in DOMAIN @ |-> IF @[i].id = id
                         THEN [@[i] EXCEPT !.status = "rejected"] ELSE @[i]]]

SetRemote(c, revision) == [c EXCEPT !.remote = Max({@, revision})]

Hydrate(c, revision) ==
  [c EXCEPT !.model = SubSeq(log, 1, revision), !.remote = revision,
            !.base = Max({@, revision})]

Resynchronize(c) ==
  [c EXCEPT !.failed = TRUE, !.ready = FALSE, !.connected = FALSE]

\* Mutant: a revision that overlaps a pending operation is applied.
ConflictsNever(c, id) == FALSE

ConflictsWithPending(c, id) ==
  \E pending \in IdsOf(c.queue) : Overlap(pending, id)

ApplyOther(c, id, revision) ==
  [c EXCEPT !.model = Append(@, id), !.committed = @ \cup {id},
            !.base = revision, !.queue = Rebase(@, revision)]

\* Mutant: assertNextRevision is not called.
ApplyAnyRevision(c, revision) ==
  LET id == log[revision]
  IN CASE id \in c.own -> c
       [] id \notin c.own /\ Pending(c, id) ->
            SetRemote(Acknowledge(c, id, revision), revision)
       [] OTHER ->
            IF ConflictsWithPending(c, id) THEN Resynchronize(c)
            ELSE SetRemote(ApplyOther(c, id, revision), revision)

ApplyRevision(c, revision) ==
  LET id == log[revision]
  IN CASE revision # c.base + 1 -> Resynchronize(c)
       [] revision = c.base + 1 /\ id \in c.own -> c
       [] revision = c.base + 1 /\ id \notin c.own /\ Pending(c, id) ->
            SetRemote(Acknowledge(c, id, revision), revision)
       [] OTHER ->
            IF ConflictsWithPending(c, id) THEN Resynchronize(c)
            ELSE SetRemote(ApplyOther(c, id, revision), revision)

Receive(c, revision) ==
  IF c.syncing THEN [c EXCEPT !.deferred = Append(@, revision)]
  ELSE IF revision <= c.remote \/ c.failed THEN c
  ELSE ApplyRevision(c, revision)

\* loadCommittedHistory of the revisions up to both bounds.
LoadHistory(c, history) ==
  LET applied == Min({history, c.remote})
  IN [c EXCEPT
        !.queue = Without(@, Through(applied)),
        !.committed = @ \cup Through(applied),
        !.base = Max({@, applied}),
        !.own = @ \ (IdsOf(c.queue) \cap Through(history))]

\* replayPendingOperations
Replay(c) ==
  [c EXCEPT !.model = @ \o [i \in DOMAIN c.queue |-> c.queue[i].id]]

\* The client after the first i deferred revisions.
Received(c) ==
  LET after[i \in 0 .. Len(c.deferred)] ==
        IF i = 0 THEN [c EXCEPT !.syncing = FALSE, !.deferred = << >>]
        ELSE Receive(after[i - 1], c.deferred[i])
  IN  after

ReceiveDeferred(c) == Received(c)[Len(c.deferred)]

-----------------------------------------------------------------------------
(* Sending: flushAll, flushQueue and the transport of the session. *)

Loading(k) == loads[k].stage # "idle"

\* The base moves to a revision past others that no unsent operation was
\* compared with.
PassesOver(revision) ==
  {kind \in {"passes"} :
     /\ client.base < revision
     /\ \E i \in DOMAIN client.queue : client.queue[i].status = "pending"}

CanSend(c) == c.queue # << >> /\ Head(c.queue).status # "rejected"

\* The loop of flushQueue from its condition to the await of the request.
SendHead(c) ==
  IF CanSend(c)
  THEN /\ client' = [c EXCEPT !.queue[1].status = "sent",
                              !.own = @ \cup {Head(c.queue).id}]
       /\ request' = [stage |-> "posting", id |-> Head(c.queue).id,
                      base |-> Head(c.queue).base, revision |-> 0]
  ELSE client' = c /\ request' = NoRequest

FlushAll(c) ==
  IF request = NoRequest THEN SendHead(c)
  ELSE client' = c /\ UNCHANGED request

Edit(id) ==
  /\ client.ready
  /\ id \notin {issued[i].id : i \in DOMAIN issued}
  /\ issued' = Append(issued, [id |-> id, seen |-> ToSet(client.model)])
  /\ FlushAll([client EXCEPT
       !.model = Append(@, id),
       !.queue = Append(@, [id |-> id, base |-> client.base,
                            status |-> "pending"]),
       !.own = @ \cup {id}])
  /\ UNCHANGED <<log, unsent, late, loads, opened, races>>

\* The user asks for the pending operations to be sent.
FlushPending ==
  /\ request = NoRequest
  /\ CanSend(client)
  /\ SendHead(client)
  /\ UNCHANGED <<log, unsent, late, loads, opened, issued, races>>

ServerHandles ==
  /\ request.stage = "posting"
  /\ IF Accepts(request.id, request.base)
     THEN /\ AppendToLog(request.id)
          /\ request' = [request EXCEPT !.stage = "committed",
                                        !.revision = Revision + 1]
     ELSE /\ request' = [request EXCEPT !.stage = "refused"]
          /\ UNCHANGED <<log, unsent>>
  /\ UNCHANGED <<client, late, loads, opened, issued, races>>

\* How an acknowledgement races the events and the loads: it skips revisions
\* whose events have not come; a load that has dropped the operation from the
\* document read the history before.
RacesOf(revision) ==
  {kind \in {"skips", "missed"} :
     \/ /\ kind = "skips"
        /\ revision > client.remote + 1
        /\ \A k \in Connections : ~Loading(k)
     \/ /\ kind = "missed"
        /\ \E k \in Connections :
             /\ loads[k].stage \in {"newer", "finishing"}
             /\ loads[k].history < revision}

\* The response and the journal's confirmation have arrived.
Acknowledged ==
  /\ request.stage = "committed"
  /\ client' = [Acknowledge(SetRemote(client, request.revision), request.id,
                            request.revision) EXCEPT !.own = @ \ {request.id}]
  /\ request' = [request EXCEPT !.stage = "acknowledged"]
  /\ races' = races \cup RacesOf(request.revision)
                   \cup PassesOver(request.revision - 1)
  /\ UNCHANGED <<log, unsent, late, loads, opened, issued>>

\* The local checkpoint is written and the loop goes on.
SendNext ==
  /\ request.stage = "acknowledged"
  /\ SendHead(client)
  /\ UNCHANGED <<log, unsent, late, loads, opened, issued, races>>

\* Any step of the transport fails: a refusal, the network, the journal.
SendFails ==
  /\ request # NoRequest
  /\ client' = [Reject(client, request.id) EXCEPT !.own = @ \ {request.id},
                                                  !.ready = FALSE]
  /\ late' = IF request.stage = "posting"
             THEN late \cup {[id |-> request.id, base |-> request.base]}
             ELSE late
  /\ request' = NoRequest
  /\ UNCHANGED <<log, unsent, loads, opened, issued, races>>

\* A request that the page believes failed reaches the server after all.
ServerHandlesLate ==
  \E r \in late :
    /\ Accepts(r.id, r.base)
    /\ AppendToLog(r.id)
    /\ late' = late \ {r}
    /\ UNCHANGED <<client, request, loads, opened, issued, races>>

OtherCommits(id) ==
  /\ ~InLog(id)
  /\ AppendToLog(id)
  /\ UNCHANGED <<client, request, late, loads, opened, issued, races>>

\* The event of a revision is broadcast: by the instance that committed it or,
\* later, through the outbox, in any order.  A page without a socket misses it,
\* as it does when the broadcast never comes.
Broadcast(r) ==
  /\ client.connected
  /\ unsent' = unsent \ {r}
  /\ client' = Receive(client, r)
  /\ UNCHANGED <<log, request, late, loads, opened, issued, races>>

-----------------------------------------------------------------------------
(* Connecting and synchronizing.  A load is not cancelled by a later one. *)

Disconnect ==
  /\ client.connected
  /\ client' = [client EXCEPT !.connected = FALSE, !.ready = FALSE]
  /\ UNCHANGED <<log, unsent, request, late, loads, opened, issued, races>>

Open ==
  /\ ~client.connected
  /\ opened < MaxConnections
  /\ opened' = opened + 1
  /\ client' = [client EXCEPT !.connected = TRUE, !.ready = FALSE,
                              !.syncing = TRUE, !.failed = FALSE]
  /\ loads' = [loads EXCEPT ![opened + 1].stage = "opened"]
  /\ races' = races \cup {kind \in {"overlap"} : \E k \in Connections : Loading(k)}
  /\ UNCHANGED <<log, unsent, request, late, issued>>

\* The server answers GET snapshot; the page has yet to receive it.
ReadSnapshot(k) ==
  /\ loads[k].stage = "opened"
  /\ loads' = [loads EXCEPT ![k].stage = "snapshot", ![k].hydrated = Revision]
  /\ UNCHANGED <<log, unsent, client, request, late, opened, issued, races>>

HydrateSnapshot(k) ==
  /\ loads[k].stage = "snapshot"
  /\ client' = Hydrate(client, loads[k].hydrated)
  /\ loads' = [loads EXCEPT ![k].stage = "results", ![k].todo = client.queue]
  /\ races' = races \cup PassesOver(loads[k].hydrated)
  /\ UNCHANGED <<log, unsent, request, late, opened, issued>>

\* One getOperationResult, and what is done with its answer.
CheckResult(k) ==
  /\ loads[k].stage = "results"
  /\ loads[k].todo # << >>
  /\ LET entry == Head(loads[k].todo)
     IN \/ /\ InLog(entry.id)
           /\ LET r == RevisionOf(entry.id)
              IN /\ client' = SetRemote(
                      [Acknowledge(client, entry.id, r) EXCEPT
                         !.own = @ \ {entry.id}], r)
                 /\ races' = races \cup PassesOver(r - 1)
        \/ /\ ~InLog(entry.id)
           /\ entry.base = client.remote
           /\ UNCHANGED <<client, races>>
  /\ loads' = [loads EXCEPT ![k].todo = Tail(@)]
  /\ UNCHANGED <<log, unsent, request, late, opened, issued>>

\* The server answers GET revisions.
ReadHistory(k) ==
  /\ loads[k].stage = "results"
  /\ loads[k].todo = << >>
  /\ loads' = [loads EXCEPT ![k].stage = "history", ![k].history = Revision]
  /\ UNCHANGED <<log, unsent, client, request, late, opened, issued, races>>

ReceiveHistory(k) ==
  /\ loads[k].stage = "history"
  /\ loads[k].history >= client.remote
  /\ loads' = [loads EXCEPT ![k].stage =
                 IF loads[k].history > loads[k].hydrated THEN "newer"
                 ELSE "finishing"]
  /\ UNCHANGED <<log, unsent, client, request, late, opened, issued, races>>

HydrateNewer(k) ==
  /\ loads[k].stage = "newer"
  /\ client' = Hydrate(client, loads[k].history)
  /\ loads' = [loads EXCEPT ![k].stage = "finishing"]
  /\ races' = races \cup PassesOver(loads[k].history)
  /\ UNCHANGED <<log, unsent, request, late, opened, issued>>

\* The journal is flushed: the rest runs without an await.
FinishLoad(k) ==
  /\ loads[k].stage = "finishing"
  /\ LET loaded   == LoadHistory(client, loads[k].history)
         replayed == ReceiveDeferred(Replay(loaded))
     IN /\ \A i \in DOMAIN loaded.queue : loaded.queue[i].base = loaded.remote
        /\ IF replayed.failed THEN client' = replayed /\ UNCHANGED request
           ELSE FlushAll([replayed EXCEPT !.ready = TRUE])
  /\ loads' = [loads EXCEPT ![k] = NotLoading]
  /\ races' = races \cup {kind \in {"closed"} : ~client.connected}
  /\ UNCHANGED <<log, unsent, late, opened, issued>>

\* A request of the load fails, or one of its checks throws.
LoadFails(k) ==
  /\ Loading(k)
  /\ client' = [client EXCEPT !.syncing = FALSE, !.failed = TRUE,
                              !.ready = FALSE]
  /\ loads' = [loads EXCEPT ![k] = NotLoading]
  /\ UNCHANGED <<log, unsent, request, late, opened, issued, races>>

Next ==
  \/ \E id \in OwnOperations : Edit(id)
  \/ FlushPending
  \/ ServerHandles
  \/ Acknowledged
  \/ SendNext
  \/ SendFails
  \/ ServerHandlesLate
  \/ \E id \in OtherOperations : OtherCommits(id)
  \/ \E r \in unsent : Broadcast(r)
  \/ Disconnect
  \/ Open
  \/ \E k \in Connections :
       \/ ReadSnapshot(k)
       \/ HydrateSnapshot(k)
       \/ CheckResult(k)
       \/ ReadHistory(k)
       \/ ReceiveHistory(k)
       \/ HydrateNewer(k)
       \/ FinishLoad(k)
       \/ LoadFails(k)

Spec == Init /\ [][Next]_vars

-----------------------------------------------------------------------------
(* Properties. *)

\* Every variable holds values of its type.
TypeOK ==
  /\ log \in Seq(Operations)
  /\ unsent \subseteq 1 .. Revision
  /\ client \in Client
  /\ request \in Request \cup {NoRequest}
  /\ late \subseteq [id : OwnOperations, base : Nat]
  /\ loads \in [Connections -> Load]
  /\ opened \in 0 .. MaxConnections
  /\ issued \in Seq([id : OwnOperations, seen : SUBSET Operations])
  /\ races \subseteq {"skips", "missed", "passes", "overlap", "closed"}

\* No local operation disappears: it stays in the queue until it is in the log,
\* whatever is lost, rejected or reloaded; and what the page holds to be
\* committed is committed at a revision it has counted.
NoSilentLoss ==
  /\ \A i \in DOMAIN issued :
       Pending(client, issued[i].id) \/ InLog(issued[i].id)
  /\ client.committed \subseteq Through(client.base)

\* Local operations are committed in the order in which they were issued, also
\* when a request is given up and handled late.
CommittedInOrder ==
  \A i, j \in DOMAIN issued :
    i < j /\ InLog(issued[j].id) =>
      InLog(issued[i].id) /\ RevisionOf(issued[i].id) < RevisionOf(issued[j].id)

\* Two documents have every cell in common: the same operations touched it, each
\* as often and in the same order.
SameDocument(left, right) ==
  \A cell \in Cells :
    Kept(left, {i \in DOMAIN left : cell \in Touches[left[i]]})
      = Kept(right, {i \in DOMAIN right : cell \in Touches[right[i]]})

\* The document of the page is that of the revision it is at, with its pending
\* operations applied.
InStep ==
  SameDocument(client.model,
    SubSeq(log, 1, client.remote) \o
      [i \in DOMAIN client.queue |-> client.queue[i].id])

\* While the page may be edited its document is in step, unless an
\* acknowledgement has skipped revisions or was missed by a load, or two
\* synchronizations have run into each other.
InStepUnlessRaced ==
  client.ready /\ races \subseteq {"passes", "closed"} => InStep

\* A local operation is committed only over changes of its cells that the user
\* had in the document when issuing it.
NothingUnseenOverwritten ==
  \A i \in DOMAIN issued :
    InLog(issued[i].id) =>
      \A r \in 1 .. RevisionOf(issued[i].id) - 1 :
        Overlap(issued[i].id, log[r]) => log[r] \in issued[i].seen

\* Rebasing never turns an operation that would be refused into one that
\* overwrites what its user has not seen, as long as no
\* base moves past revisions that the operation was not compared with.
NoUnseenOverwriteUnlessRaced ==
  races \subseteq {"closed"} => NothingUnseenOverwritten

\* The test "rejects a skipped remote revision before applying its mutations":
\* a page that never reconnected is in step whenever it may be edited.  The
\* acknowledgement of an operation skips revisions without a check.
NoRevisionSkipped ==
  client.ready /\ opened = 1 => InStep

\* "COLLABORATION_CONFLICT: ... the target was changed by another user, the
\* draft is kept" (collaboration-session.ts): no unsent operation overwrites
\* such a change.  On a page that synchronized once, undisturbed, it still does:
\* the acknowledgement of the operation before it lifts its base past a revision
\* whose event has not come and that it was not compared with.
DraftConflictDetected ==
  races \subseteq {"passes", "skips"} => NothingUnseenOverwritten
=============================================================================
