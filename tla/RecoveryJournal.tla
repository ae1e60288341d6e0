---------------------------- MODULE RecoveryJournal ----------------------------
(***************************************************************************)
(* The drafts of a user who opens one workbook in several pages, and what  *)
(* remains of them when pages crash.  A page keeps its unacknowledged      *)
(* operations, and the acknowledged ones that no checkpoint of the server  *)
(* covers yet, in a record of IndexedDB.  A page that starts takes over    *)
(* the records of the pages that are gone, asks the server about every     *)
(* operation in them, and replays the rest on the snapshot.                *)
(*                                                                         *)
(* A page synchronizes here once each time it starts.  Revision events and *)
(* later synchronizations are the subject of Collaboration.                *)
(***************************************************************************)
EXTENDS Integers, Sequences, FiniteSets, SequencesExt, Queues

CONSTANTS
  PageCount,      \* bound: pages, each with an identity of its own
  Restarting,     \* bound: pages started again, once unless drafts are discarded
  MaxDrafts,      \* bound: operations of the pages
  MaxFaults       \* bound: failed calls and writes, changes of access

ASSUME BoundsAssumption ==
  /\ PageCount \in Nat /\ MaxDrafts \in Nat /\ MaxFaults \in Nat
  /\ Restarting \subseteq Nat

Pages == 1 .. PageCount

\* An operation: clientSessionId and clientSequence, and what makes its identity unique.
Op == [session : Pages, sequence : 1 .. MaxDrafts, id : 1 .. MaxDrafts]
None == [session |-> 0, sequence |-> 0, id |-> 0]

VARIABLES
  log,            \* server: the committed operations
  saved,          \* server: the newest revision with a checkpoint
  network,        \* requests the server has not handled
  record,         \* IndexedDB: the record of each page
  tail,           \* writes of a page that are not done, oldest first
  phase,          \* what a page is at
  page,           \* its memory
  saver,          \* its checkpoint coordinator
  drafts, faults, \* counters
  durable,        \* history: the operations that were in a record
  sent,           \* history: the operations that were sent
  dropped,        \* history: the operations that were given up or purged
  purged          \* history: those of a purge that no page was still holding

server == <<log, saved>>
storage == <<record, tail, durable>>
history == <<drafts, faults, sent, dropped, purged>>
vars == <<server, network, storage, phase, page, saver, history>>

Idle == [requested |-> 0, covered |-> 0, timer |-> FALSE, target |-> 0, result |-> 0,
         failed |-> FALSE]

Empty == [queue     |-> <<>>,     \* pending; a fixed entry is never rewritten
          sequence  |-> 0,        \* clientSequence
          confirmed |-> {},       \* acknowledged, not covered by a checkpoint
          revision  |-> 0,        \* remoteRevision
          hydrated  |-> 0,        \* the snapshot the document was made from
          applied   |-> {},       \* the operations applied on top of it
          checked   |-> 0,        \* entries the server knew nothing of
          inFlight  |-> None,
          sentBase  |-> 0,        \* the base of what is in flight
          answer    |-> 0,        \* the revision an answer confirmed
          broken    |-> FALSE,    \* a write failed
          restarted |-> FALSE]    \* history: the page was started again

Init ==
  /\ log = <<>> /\ saved = 0 /\ network = {}
  /\ record = [p \in Pages |-> {}] /\ tail = [p \in Pages |-> <<>>] /\ durable = {}
  /\ phase = [p \in Pages |-> "new"] /\ page = [p \in Pages |-> Empty]
  /\ saver = [p \in Pages |-> Idle]
  /\ drafts = 0 /\ faults = 0 /\ sent = {} /\ dropped = {} /\ purged = {}

Committed(op) == \E k \in DOMAIN log : log[k] = op

RevisionOf(op) == CHOOSE k \in DOMAIN log : log[k] = op

\* The page holds the lock of its record: the browser gives it up when the page is gone.
Owned(p) == phase[p] \notin {"new", "closed", "crashed"}

Active(p) == phase[p] \in {"checking", "ready", "stopped"}      \* not disposed

Ops(entries) == {e.op : e \in entries}

Entry(e) == [op |-> e.op, base |-> e.base]

Fault == faults < MaxFaults /\ faults' = faults + 1

Stop(p) == phase' = [phase EXCEPT ![p] = "stopped"]

-----------------------------------------------------------------------------
(* The queue and the journal.                                              *)

\* acknowledge: the operations leave the queue, the unsent rest is numbered on.
Acknowledged(m, ops, revision) ==
  LET rest == Kept(m.queue, {i \in DOMAIN m.queue : m.queue[i].op \notin ops})
      latest == IF revision > m.revision THEN revision ELSE m.revision
  IN  [m EXCEPT !.revision = latest,
                !.queue = [i \in DOMAIN rest |->
                             IF rest[i].fixed THEN rest[i]
                             ELSE [rest[i] EXCEPT !.base = latest + i - 1]]]

\* Nothing is in flight any more.
Landed(m) == [m EXCEPT !.inFlight = None, !.sentBase = 0, !.answer = 0]

\* confirm: what is acknowledged stays in the journal, queued or not.
Confirmed(m, entries) ==
  [m EXCEPT !.confirmed = @ \cup {[op |-> e.op, base |-> e.base, revision |-> RevisionOf(e.op)] :
                                    e \in entries}]

\* Mutant: what is confirmed leaves the journal.
CapturedPending(m) == {Entry(m.queue[i]) : i \in DOMAIN m.queue}

\* What persist captures: the queue, and what is confirmed and not in it.
Captured(m) ==
  LET pending == {Entry(m.queue[i]) : i \in DOMAIN m.queue}
  IN  pending \cup {Entry(c) : c \in {d \in m.confirmed : d.op \notin Ops(pending)}}

\* persist queues a write behind the earlier ones; behind a failed one nothing runs.
Persisted(p, m) ==
  /\ page' = [page EXCEPT ![p] = m]
  /\ tail' = IF m.broken THEN tail ELSE [tail EXCEPT ![p] = Append(@, Captured(m))]
  /\ UNCHANGED <<record, durable>>

\* Mutant: nothing waits for the journal.
Unflushed(p) == TRUE

Flushed(p) == tail[p] = <<>> /\ ~page[p].broken

Write(p) ==
  /\ tail[p] # <<>>
  /\ record' = [record EXCEPT ![p] = Head(tail[p])]
  /\ durable' = durable \cup Ops(Head(tail[p]))
  /\ tail' = [tail EXCEPT ![p] = Tail(@)]
  /\ UNCHANGED <<server, network, phase, page, saver, history>>

WriteFails(p) ==
  /\ tail[p] # <<>>
  /\ Fault
  /\ tail' = [tail EXCEPT ![p] = <<>>]
  /\ page' = [page EXCEPT ![p].broken = TRUE]
  /\ UNCHANGED <<server, network, record, durable, phase, saver, drafts, sent, dropped, purged>>

\* Mutant: the locks of other pages are ignored.
ClaimedAll(p) == Pages

\* load: the record of the page and the records no live page owns.
Claimed(p) == {p} \cup {q \in Pages : ~Owned(q)}

Retired(p, claimed, merged) ==
  [q \in Pages |-> IF q = p THEN merged ELSE IF q \in claimed THEN {} ELSE record[q]]

\* The entries as they are written: each once, by session and sequence.
Sorted(entries) ==
  {s \in [1 .. Cardinality(entries) -> entries] :
     /\ \A e \in entries : \E i \in DOMAIN s : s[i] = e
     /\ \A i, j \in DOMAIN s : i < j =>
          /\ s[i] # s[j]
          /\ \/ s[i].op.session < s[j].op.session
             \/ /\ s[i].op.session = s[j].op.session
                /\ s[i].op.sequence <= s[j].op.sequence}

Restored(s) == [i \in DOMAIN s |-> [op |-> s[i].op, base |-> s[i].base, fixed |-> TRUE]]

LastSequence(entries) ==
  CHOOSE n \in 0 .. MaxDrafts :
    /\ \A e \in entries : e.op.sequence <= n
    /\ n = 0 \/ \E e \in entries : e.op.sequence = n

\* The queue refuses to be restored with a sequence twice.
SequencesDiffer(entries) ==
  \A e, f \in entries :
    <<e.op.session, e.op.sequence>> = <<f.op.session, f.op.sequence>> => e = f

\* start: load, then hydrate a snapshot that may be older than the log.  The
\* journal of a page outlives its runtime; a page of the model is opened after
\* the ones before it.
Opened(p, entries) ==
  /\ \E h \in 0 .. Len(log), s \in Sorted(entries) :
       page' = [page EXCEPT ![p] =
         [Empty EXCEPT !.queue = Restored(s), !.sequence = LastSequence(entries),
                       !.confirmed = page[p].confirmed, !.broken = page[p].broken,
                       !.revision = h, !.hydrated = h,
                       !.restarted = phase[p] = "closed"]]
  /\ saver' = [saver EXCEPT ![p] = Idle]
  /\ UNCHANGED <<server, network, tail, durable, history>>

Open(p) ==
  /\ phase[p] \in {"new", "closed"}
  /\ \A q \in Pages : q < p => phase[q] # "new"
  /\ LET merged == UNION {record[q] : q \in Claimed(p)}
     IN  IF \A q, r \in Claimed(p) : q # r => Ops(record[q]) \cap Ops(record[r]) = {}
         THEN /\ record' = Retired(p, Claimed(p), merged)
              /\ phase' = [phase EXCEPT ![p] =
                   IF SequencesDiffer(merged) THEN "checking" ELSE "stopped"]
              /\ Opened(p, merged)
         ELSE Stop(p) /\ Opened(p, {}) /\ UNCHANGED record

\* acknowledge of what is in flight: the queue is written if it was in it.
Answered(m) == Landed(Acknowledged(m, {m.inFlight}, m.answer))

Dequeued(p) ==
  IF page[p].inFlight \in Ops(ToSet(page[p].queue))
  THEN Persisted(p, Answered(page[p]))
  ELSE page' = [page EXCEPT ![p] = Answered(@)] /\ UNCHANGED storage

\* release: the lock is given up when the writes are done.  The transport
\* acknowledges what it has confirmed, and drops a later answer.
Close(p) ==
  /\ Active(p) /\ p \in Restarting /\ ~page[p].restarted
  /\ phase' = [phase EXCEPT ![p] = "closing"]
  /\ IF page[p].answer > 0
     THEN Dequeued(p)
     ELSE page' = [page EXCEPT ![p] = Landed(@)] /\ UNCHANGED storage
  /\ saver' = [saver EXCEPT ![p] = Idle]
  /\ UNCHANGED <<server, network, history>>

Release(p) ==
  /\ phase[p] = "closing" /\ tail[p] = <<>>
  /\ phase' = [phase EXCEPT ![p] = "closed"]
  /\ UNCHANGED <<server, network, storage, page, saver, history>>

Crash(p) ==
  /\ Owned(p)
  /\ phase' = [phase EXCEPT ![p] = "crashed"]
  /\ tail' = [tail EXCEPT ![p] = <<>>]
  /\ page' = [page EXCEPT ![p] = [Empty EXCEPT !.restarted = page[p].restarted]]
  /\ saver' = [saver EXCEPT ![p] = Idle]
  /\ UNCHANGED <<server, network, record, durable, history>>

\* discardRecoveryDraft; the retry that follows disposes the runtime.
Discard(p) ==
  /\ phase[p] = "stopped"
  /\ Persisted(p, [Landed(page[p]) EXCEPT !.queue = <<>>])
  /\ dropped' = dropped \cup Ops(record[p]) \cup Ops(ToSet(page[p].queue))
  /\ phase' = [phase EXCEPT ![p] = IF page[p].broken THEN "stopped" ELSE "closing"]
  /\ saver' = [saver EXCEPT ![p] = IF page[p].broken THEN @ ELSE Idle]
  /\ UNCHANGED <<server, network, drafts, faults, sent, purged>>

\* What the live pages other than p hold and will write.
Elsewhere(p) ==
  (UNION {Ops(ToSet(page[q].queue)) : q \in {r \in Pages \ {p} : Active(r)}})
    \cup (UNION {UNION {Ops(write) : write \in ToSet(tail[q])} : q \in Pages \ {p}})

\* A change of access drops every copy, those of other pages in storage too; the
\* answer to a request may still come.
Purge(p) ==
  /\ phase[p] = "ready" /\ Flushed(p)
  /\ Fault
  /\ LET kept == UNION {Ops(record[q]) : q \in Pages}
     IN  /\ dropped' = dropped \cup kept
         /\ purged' = purged \cup ((kept \cup Ops(ToSet(page[p].queue))) \ Elsewhere(p))
  /\ record' = [q \in Pages |-> {}]
  /\ page' = [page EXCEPT ![p].queue = <<>>, ![p].confirmed = {}]
  /\ Stop(p)
  /\ UNCHANGED <<server, network, tail, durable, saver, drafts, sent>>

-----------------------------------------------------------------------------
(* CheckpointCoordinator: one request at a time, a second after it is due.  *)

\* Mutant: a timer is started while a request is under way.
RequestedAlways(s, revision) ==
  LET requested == IF revision > s.requested THEN revision ELSE s.requested
  IN  [s EXCEPT !.requested = requested, !.timer = @ \/ (~s.failed /\ requested > s.covered)]

Requested(s, revision) ==
  LET requested == IF revision > s.requested THEN revision ELSE s.requested
  IN  [s EXCEPT !.requested = requested,
                !.timer = @ \/ (~s.failed /\ s.target = 0 /\ requested > s.covered)]

Request(p, revision) == saver' = [saver EXCEPT ![p] = Requested(@, revision)]

Due(s) == s.requested > s.covered

StartFlush(p) ==
  /\ saver[p].target = 0
  /\ saver' = [saver EXCEPT ![p].timer = FALSE,
                            ![p].target = IF Due(saver[p]) THEN saver[p].requested ELSE 0]
  /\ UNCHANGED <<server, network, storage, phase, page, history>>

TimerFires(p) == saver[p].timer /\ StartFlush(p)

\* The synchronization of a starting page waits for what its records requested.
Settling(p) == phase[p] = "checking" /\ page[p].checked = Len(page[p].queue)

\* saveWorkbook, and flushCheckpoint of a synchronization: they retry a failed save.
Save(p) ==
  /\ Due(saver[p])
  /\ Flushed(p)
  /\ \/ Settling(p)
     \/ phase[p] = "ready" /\ page[p].queue = <<>>
  /\ StartFlush(p)

\* The server answers; coverCheckpoint drops what the checkpoint covers.
Uncovered(m, revision) == {c \in m.confirmed : c.revision > revision}

CheckpointSaved(p) ==
  /\ saver[p].target > 0 /\ saver[p].result = 0
  /\ saved' = Len(log)
  /\ saver' = [saver EXCEPT ![p].result = Len(log)]
  /\ Persisted(p, [page[p] EXCEPT !.confirmed = Uncovered(page[p], Len(log))])
  /\ UNCHANGED <<log, network, phase, history>>

\* Mutant: what was requested meanwhile is not requested again.
FinishedOnce(s) == [s EXCEPT !.covered = s.result, !.target = 0, !.result = 0, !.failed = FALSE]

Finished(s) ==
  Requested([s EXCEPT !.covered = s.result, !.target = 0, !.result = 0, !.failed = FALSE],
            s.requested)

Covered(p) ==
  /\ saver[p].result > 0 /\ Flushed(p)
  /\ saver' = [saver EXCEPT ![p] = Finished(@)]
  /\ UNCHANGED <<server, network, storage, phase, page, history>>

\* A failure is latched until a save succeeds; it ends a synchronization.
Failed(p) ==
  /\ saver' = [saver EXCEPT ![p].target = 0, ![p].result = 0, ![p].failed = TRUE]
  /\ IF Settling(p) THEN Stop(p) ELSE UNCHANGED phase
  /\ UNCHANGED <<server, network, storage, page, drafts, sent, dropped, purged>>

CheckpointFails(p) == saver[p].target > 0 /\ saver[p].result = 0 /\ Fault /\ Failed(p)

CoverFails(p) == saver[p].result > 0 /\ page[p].broken /\ Failed(p) /\ UNCHANGED faults

-----------------------------------------------------------------------------
(* The server.                                                             *)

\* A repeated operation is answered again; a client sequence is used once.
SequenceUsed(op) ==
  \E k \in DOMAIN log : /\ log[k].id # op.id
                        /\ log[k].session = op.session /\ log[k].sequence = op.sequence

Handle(op) ==
  /\ op \in network
  /\ network' = network \ {op}
  /\ IF Committed(op) THEN UNCHANGED log ELSE ~SequenceUsed(op) /\ log' = Append(log, op)
  /\ UNCHANGED <<saved, storage, phase, page, saver, history>>

\* Refused: a used sequence, a base others wrote over, a lost right; or lost.
Refuse(op) ==
  /\ op \in network /\ ~Committed(op)
  /\ network' = network \ {op}
  /\ UNCHANGED <<server, storage, phase, page, saver, history>>

-----------------------------------------------------------------------------
(* The page.                                                               *)

\* loadHistoryAndReplayPending, one restored operation: committed, new on the
\* revision of the page, or in conflict.
Check(p) ==
  /\ phase[p] = "checking" /\ tail[p] = <<>>
  /\ page[p].checked < Len(page[p].queue)
  /\ LET m == page[p]
         e == m.queue[m.checked + 1]
     IN  IF Committed(e.op)
         THEN IF m.broken THEN Stop(p) /\ UNCHANGED <<page, tail, record, durable, saver>>
              ELSE /\ Persisted(p, Acknowledged(Confirmed(m, {e}), {e.op}, RevisionOf(e.op)))
                   /\ Request(p, RevisionOf(e.op))
                   /\ UNCHANGED phase
         ELSE /\ IF e.base = m.revision
                 THEN page' = [page EXCEPT ![p].checked = @ + 1] /\ UNCHANGED phase
                 ELSE Stop(p) /\ UNCHANGED page
              /\ UNCHANGED <<tail, record, durable, saver>>
  /\ UNCHANGED <<server, network, history>>

\* Mutant: a newer snapshot is not read.
LoadedOlder(m) ==
  LET known == {e \in ToSet(m.queue) : Committed(e.op)}
  IN  Acknowledged(Confirmed(m, known), Ops(known), Len(log))

\* Its end: the snapshot of the latest revision, what is committed by now
\* leaves the queue, the rest is replayed when it stands on that revision.
Loaded(m) ==
  LET known == {e \in ToSet(m.queue) : Committed(e.op)}
  IN  Acknowledged(Confirmed([m EXCEPT !.hydrated = Len(log)], known), Ops(known), Len(log))

Finish(p) ==
  /\ Settling(p)
  /\ tail[p] = <<>> /\ ~Due(saver[p]) /\ saver[p].target = 0
  /\ LET m == Loaded(page[p])
         ops == Ops(ToSet(m.queue))
         late == {c.revision : c \in m.confirmed \ page[p].confirmed}
     IN  IF \/ page[p].broken
            \/ Cardinality({op.session : op \in Ops(ToSet(page[p].queue))}) > 1
         THEN Stop(p) /\ UNCHANGED <<page, tail, record, durable, saver>>
         ELSE /\ IF late = {}
                 THEN /\ page' = [page EXCEPT ![p] = [m EXCEPT !.applied = ops]]
                      /\ UNCHANGED <<tail, record, durable, saver>>
                 ELSE /\ Persisted(p, [m EXCEPT !.applied = ops])
                      /\ Request(p, Max(late))
              /\ phase' = [phase EXCEPT ![p] =
                   IF \A e \in ToSet(m.queue) : e.base = m.revision THEN "ready" ELSE "stopped"]
  /\ UNCHANGED <<server, network, history>>

\* Mutant: the position in the queue.
QueuePosition(m) == Len(m.queue) + 1

NextSequence(m) == m.sequence + 1

\* submitChangeset: a draft on the revision of the page.
Draft(p) ==
  /\ phase[p] = "ready"
  /\ drafts < MaxDrafts
  /\ drafts' = drafts + 1
  /\ LET m == page[p]
         op == [session |-> p, sequence |-> NextSequence(m), id |-> drafts + 1]
     IN  Persisted(p, [m EXCEPT !.sequence = op.sequence, !.applied = @ \cup {op},
                                !.queue = Append(@, [op |-> op, base |-> m.revision, fixed |-> FALSE])])
  /\ UNCHANGED <<server, network, phase, saver, faults, sent, dropped, purged>>

\* The transport waits for the journal, then sends the oldest operation.
Send(p) ==
  /\ phase[p] = "ready"
  /\ page[p].queue # <<>> /\ page[p].inFlight = None
  /\ Flushed(p)
  /\ LET e == page[p].queue[1]
     IN  /\ page' = [page EXCEPT ![p].inFlight = e.op, ![p].sentBase = e.base,
                                 ![p].queue[1].fixed = TRUE]
         /\ network' = network \cup {e.op}
         /\ sent' = sent \cup {e.op}
  /\ UNCHANGED <<server, storage, phase, saver, drafts, faults, dropped, purged>>

\* The answer is confirmed in the journal before it is acknowledged; the queue
\* may have been purged by then.
Answer(p) ==
  /\ page[p].inFlight # None /\ page[p].answer = 0 /\ ~page[p].broken
  /\ Committed(page[p].inFlight) /\ page[p].inFlight \notin network
  /\ LET e == [op |-> page[p].inFlight, base |-> page[p].sentBase]
     IN  Persisted(p, [Confirmed(page[p], {e}) EXCEPT !.answer = RevisionOf(e.op)])
  /\ UNCHANGED <<server, network, phase, saver, history>>

Acknowledge(p) ==
  /\ page[p].answer > 0 /\ Flushed(p)
  /\ Dequeued(p)
  /\ Request(p, page[p].answer)
  /\ UNCHANGED <<server, network, phase, history>>

\* Refused, or no answer, or no journal: the operation stays, and nothing is sent.
Fails(p) ==
  /\ phase[p] = "ready"
  /\ \/ /\ page[p].inFlight \notin {None} \cup network /\ ~Committed(page[p].inFlight)
        /\ UNCHANGED faults
     \/ page[p].inFlight # None /\ page[p].answer = 0 /\ Fault
     \/ page[p].queue # <<>> /\ page[p].broken /\ UNCHANGED faults
  /\ page' = [page EXCEPT ![p] = Landed(@)]
  /\ Stop(p)
  /\ UNCHANGED <<server, network, storage, saver, drafts, sent, dropped, purged>>

Next ==
  \/ \E p \in Pages :
       \/ Open(p) \/ Close(p) \/ Release(p) \/ Crash(p) \/ Discard(p) \/ Purge(p)
       \/ Write(p) \/ WriteFails(p)
       \/ TimerFires(p) \/ Save(p) \/ CheckpointSaved(p) \/ Covered(p)
       \/ CheckpointFails(p) \/ CoverFails(p)
       \/ Check(p) \/ Finish(p) \/ Draft(p) \/ Send(p) \/ Answer(p) \/ Acknowledge(p) \/ Fails(p)
  \/ \E op \in network : Handle(op) \/ Refuse(op)

\* IndexedDB and the timers of a live page make progress, and a request for a
\* checkpoint has an end.
Fairness ==
  \A p \in Pages : /\ WF_vars(Write(p)) /\ WF_vars(TimerFires(p))
                   /\ WF_vars(CheckpointSaved(p)) /\ WF_vars(Covered(p)) /\ WF_vars(CoverFails(p))

Spec == Init /\ [][Next]_vars /\ Fairness

-----------------------------------------------------------------------------
(* Properties.                                                             *)

Entries == [op : Op, base : Nat]

\* The type of the state.
TypeOK ==
  /\ log \in Seq(Op) /\ saved \in 0 .. Len(log) /\ network \subseteq Op
  /\ \A p \in Pages :
       /\ record[p] \subseteq Entries
       /\ \A i \in DOMAIN tail[p] : tail[p][i] \subseteq Entries
       /\ phase[p] \in {"new", "checking", "ready", "stopped", "closing", "closed", "crashed"}
       /\ page[p].queue \in Seq([op : Op, base : Nat, fixed : BOOLEAN])
       /\ page[p].confirmed \subseteq [op : Op, base : Nat, revision : 1 .. Len(log)]
       /\ page[p].hydrated <= page[p].revision /\ page[p].revision <= Len(log)
       /\ page[p].inFlight \in Op \cup {None}
       /\ phase[p] = "checking" => page[p].checked <= Len(page[p].queue)
       /\ saver[p].covered <= saved /\ saver[p].target <= saver[p].requested
       /\ saver[p].timer => Due(saver[p]) /\ ~saver[p].failed /\ saver[p].target = 0
  /\ sent \cup durable \cup dropped \cup purged \subseteq Op

\* No operation reaches the network before it is in the journal, so that a
\* page which finds the record of a crashed one knows what may be committed.
SentWasDurable == sent \subseteq durable

\* What was in the journal and was not given up is still in it, whichever
\* page holds it now, until a checkpoint of the server covers its commit.
NoDraftLost ==
  \A op \in durable \ dropped :
    \/ \E p \in Pages : op \in Ops(record[p])
    \/ Committed(op) /\ RevisionOf(op) <= saved

\* What a purge removed does not come back, neither into the journal nor, by way
\* of a record, into the queue of a page, unless the server has committed it: a
\* late answer to the page that was purged confirms it in its record again.
PurgedReturnsCommitted ==
  \A op \in purged, p \in Pages :
    ~Committed(op) =>
      /\ op \notin Ops(record[p])
      /\ Active(p) => op \notin Ops(ToSet(page[p].queue))

\* What a page would load can be loaded, and no live page's draft is taken:
\* no operation is in two records or queues and no client sequence in a record
\* twice, unless some page was started again.  Such a page writes what it had
\* confirmed into a record, while another one may have taken its record over.
LoadableUnlessRestarted ==
  (\A r \in Pages : ~page[r].restarted) =>
    \A p, q \in Pages :
      /\ p # q => Ops(record[p]) \cap Ops(record[q]) = {}
      /\ p # q /\ Active(p) /\ Active(q) =>
           Ops(ToSet(page[p].queue)) \cap Ops(ToSet(page[q].queue)) = {}
      /\ SequencesDiffer(record[p])

\* A document contains each operation once: what was applied on a snapshot is
\* not in the snapshot, what the queue will send is applied, and what was
\* acknowledged is in the snapshot when it is not applied.
ReplayedOnce ==
  \A p \in Pages :
    phase[p] = "ready" =>
      /\ \A k \in 1 .. page[p].hydrated : log[k] \notin page[p].applied
      /\ Ops(ToSet(page[p].queue)) \subseteq page[p].applied
      /\ \A c \in page[p].confirmed : c.revision <= page[p].hydrated \/ c.op \in page[p].applied

\* An operation that waits for the server has a client sequence its session
\* has not committed, unless the page of that session was started again: its
\* counter restarts from the journal.
SequenceFreshUnlessRestarted ==
  \A p \in Pages :
    phase[p] = "ready" =>
      \A e \in ToSet(page[p].queue) : SequenceUsed(e.op) => page[e.op.session].restarted

\* A checkpoint does not stay due: what is confirmed is eventually covered by
\* one, or a failed save is on display, or the page is gone.
CheckpointsCatchUp ==
  \A p \in Pages :
    []<>(~Due(saver[p]) \/ saver[p].failed \/ page[p].broken \/ ~Active(p))

=============================================================================
