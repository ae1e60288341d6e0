-------------------------- MODULE CoordinationOutbox --------------------------
(***************************************************************************)
(* The outbox of a workbook: a row per revision, written in the            *)
(* transaction of the commit, and on each server instance a scheduled      *)
(* publisher that claims rows under a lease and sends them to Redis.       *)
(*                                                                         *)
(* Clocks are left out: a lease or a pause is over when some action says   *)
(* so.  Rows are claimed oldest first, and revisions are numbered in the   *)
(* order of their rows.                                                    *)
(***************************************************************************)
EXTENDS Integers, FiniteSets

CONSTANTS
  Instances,      \* the server processes
  MaxEvents,      \* bound: the revisions that are committed
  BatchSize,      \* luckysheet.coordination.outbox-batch-size
  MaxFaults       \* bound: crashes and failed calls

Events == 1 .. MaxEvents

ASSUME BoundsAssumption ==
  /\ MaxEvents \in Nat
  /\ BatchSize \in Nat \ {0}
  /\ MaxFaults \in Nat

VARIABLES
  outbox,         \* the row of each revision
  claimed,        \* the rows of an instance's running batch still to handle
  step,           \* where the loop body is for the oldest of them
  purged,         \* the workbook was purged
  faults,         \* the number of faults so far
  sent,           \* history: the events Redis accepted
  repeated,       \* history: the events it accepted more than once
  disturbed       \* history: the events a fault or a stall may have repeated

rowVars == <<outbox, purged>>
publisherVars == <<claimed, step>>
historyVars == <<sent, repeated, disturbed>>
vars == <<rowVars, publisherVars, historyVars, faults>>

\* "cleaned" and "purged" are deleted rows: published or not when it happened.
Row ==
  [status : {"none", "pending", "published", "cleaned", "purged"},
   lease  : {"free", "held", "lapsed"},
   due    : BOOLEAN]

NoRow == [status |-> "none", lease |-> "free", due |-> TRUE]

Init ==
  /\ outbox = [e \in Events |-> NoRow]
  /\ claimed = [i \in Instances |-> {}]
  /\ step = [i \in Instances |-> "publish"]
  /\ purged = FALSE
  /\ faults = 0
  /\ sent = {}
  /\ repeated = {}
  /\ disturbed = {}

Pending(e) == outbox[e].status = "pending"

\* The row the loop of an instance is at: its batch is ordered by age.
Oldest(rows) == CHOOSE e \in rows : \A f \in rows : e <= f

Current(i) == Oldest(claimed[i])

At(i, place) == claimed[i] # {} /\ step[i] = place

Fault ==
  /\ faults < MaxFaults
  /\ faults' = faults + 1

-----------------------------------------------------------------------------
(* The commit, and the purge of the workbook.                              *)

\* enqueueRevisionEvent, in the transaction of the commit.
Commit(e) ==
  /\ ~purged
  /\ outbox[e].status = "none"
  /\ \A f \in Events : f < e => outbox[f].status # "none"
  /\ outbox' = [outbox EXCEPT ![e].status = "pending"]
  /\ UNCHANGED <<purged, publisherVars, historyVars, faults>>

\* Deletes the rows of the workbook, published or not.
Purge ==
  /\ ~purged
  /\ purged' = TRUE
  /\ outbox' = [e \in Events |->
                  [outbox[e] EXCEPT !.status = CASE @ = "pending" -> "purged"
                                                 [] @ = "published" -> "cleaned"
                                                 [] OTHER -> @]]
  /\ UNCHANGED <<publisherVars, historyVars, faults>>

-----------------------------------------------------------------------------
(* The publisher: publishPending, one call of it at a time per instance.   *)

\* Mutant: a lease is not looked at.
ClaimableLeased == {e \in Events : Pending(e) /\ outbox[e].due}

\* Mutant: only a lease that was given back counts as over.
ClaimableReleased ==
  {e \in Events : Pending(e) /\ outbox[e].due /\ outbox[e].lease = "free"}

Claimable ==
  {e \in Events : Pending(e) /\ outbox[e].due /\ outbox[e].lease # "held"}

\* The oldest claimable rows, at most BatchSize of them.
Batch == {e \in Claimable : Cardinality({f \in Claimable : f <= e}) <= BatchSize}

\* Mutant: the leases are set on the entities and not saved.
ClaimUnsaved(i) ==
  /\ claimed[i] = {}
  /\ Claimable # {}
  /\ claimed' = [claimed EXCEPT ![i] = Batch]
  /\ UNCHANGED <<rowVars, step, historyVars, faults>>

\* claimOutbox: two instances that claim at once wait for each other's locks.
Claim(i) ==
  /\ claimed[i] = {}
  /\ Claimable # {}
  /\ claimed' = [claimed EXCEPT ![i] = Batch]
  /\ outbox' = [e \in Events |->
                  IF e \in Batch THEN [outbox[e] EXCEPT !.lease = "held"]
                  ELSE outbox[e]]
  /\ UNCHANGED <<purged, step, historyVars, faults>>

\* Redis accepts an event.
Sent(e) ==
  /\ sent' = sent \cup {e}
  /\ repeated' = repeated \cup ({e} \cap sent)

Publish(i) ==
  /\ At(i, "publish")
  /\ Sent(Current(i))
  /\ step' = [step EXCEPT ![i] = "mark"]
  /\ UNCHANGED <<rowVars, claimed, disturbed, faults>>

\* publishRevision throws, before Redis has the message or after.
PublishFails(i) ==
  /\ Fault
  /\ At(i, "publish")
  /\ step' = [step EXCEPT ![i] = "release"]
  /\ \/ /\ Sent(Current(i))
        /\ disturbed' = disturbed \cup {Current(i)}
     \/ UNCHANGED historyVars
  /\ UNCHANGED <<rowVars, claimed>>

\* Go on with the next row of the batch.
Handled(i) ==
  /\ claimed' = [claimed EXCEPT ![i] = @ \ {Current(i)}]
  /\ step' = [step EXCEPT ![i] = "publish"]

\* Mutant: a row that was marked keeps its lease.
MarkedLeased(e) ==
  IF Pending(e) THEN [outbox EXCEPT ![e].status = "published"] ELSE outbox

\* markOutboxPublished and releaseOutbox look at no lease, only at whether the
\* row is there and not published yet.
MarkedPublished(e) ==
  IF Pending(e)
  THEN [outbox EXCEPT ![e].status = "published", ![e].lease = "free"]
  ELSE outbox

Released(e) ==
  IF Pending(e)
  THEN [outbox EXCEPT ![e].lease = "free", ![e].due = FALSE]
  ELSE outbox

Mark(i) ==
  /\ At(i, "mark")
  /\ outbox' = MarkedPublished(Current(i))
  /\ Handled(i)
  /\ UNCHANGED <<purged, historyVars, faults>>

\* The transaction is lost, or only its answer is.
MarkFails(i) ==
  /\ Fault
  /\ At(i, "mark")
  /\ step' = [step EXCEPT ![i] = "release"]
  /\ outbox' \in {outbox, MarkedPublished(Current(i))}
  /\ disturbed' = disturbed \cup {Current(i)}
  /\ UNCHANGED <<purged, claimed, sent, repeated>>

\* The catch block: releaseOutbox with the pause of backoff.
Release(i) ==
  /\ At(i, "release")
  /\ outbox' = Released(Current(i))
  /\ Handled(i)
  /\ UNCHANGED <<purged, historyVars, faults>>

\* The rest of the batch is given up, and its rows keep their leases.
Abandoned(i) ==
  /\ claimed' = [claimed EXCEPT ![i] = {}]
  /\ step' = [step EXCEPT ![i] = "publish"]

\* An exception of the catch block ends the call.
ReleaseFails(i) ==
  /\ Fault
  /\ At(i, "release")
  /\ Abandoned(i)
  /\ UNCHANGED <<rowVars, historyVars>>

\* The process ends and is started again.
Crash(i) ==
  /\ Fault
  /\ claimed[i] # {}
  /\ Abandoned(i)
  /\ disturbed' = IF step[i] = "mark" THEN disturbed \cup {Current(i)}
                  ELSE disturbed
  /\ UNCHANGED <<rowVars, sent, repeated>>

\* After the loop, once an hour: deletePublishedOutboxBefore.
Cleanup(i) ==
  /\ claimed[i] = {}
  /\ \E old \in SUBSET {e \in Events : outbox[e].status = "published"} :
       /\ old # {}
       /\ outbox' = [e \in Events |->
                       IF e \in old THEN [outbox[e] EXCEPT !.status = "cleaned"]
                       ELSE outbox[e]]
  /\ UNCHANGED <<purged, publisherVars, historyVars, faults>>

-----------------------------------------------------------------------------
(* The clock.                                                              *)

BackoffEnds(e) ==
  /\ Pending(e)
  /\ ~outbox[e].due
  /\ outbox' = [outbox EXCEPT ![e].due = TRUE]
  /\ UNCHANGED <<purged, publisherVars, historyVars, faults>>

\* A lease ends whether or not the publisher is done with the row.
LeaseLapses(e) ==
  /\ Pending(e)
  /\ outbox[e].lease = "held"
  /\ outbox' = [outbox EXCEPT ![e].lease = "lapsed"]
  /\ disturbed' = IF \E i \in Instances : e \in claimed[i]
                  THEN disturbed \cup {e} ELSE disturbed
  /\ UNCHANGED <<purged, publisherVars, sent, repeated, faults>>

Next ==
  \/ Purge
  \/ \E e \in Events : Commit(e) \/ BackoffEnds(e) \/ LeaseLapses(e)
  \/ \E i \in Instances :
       \/ Claim(i) \/ Publish(i) \/ PublishFails(i) \/ Mark(i) \/ MarkFails(i)
       \/ Release(i) \/ ReleaseFails(i) \/ Crash(i) \/ Cleanup(i)

Safety == Init /\ [][Next]_vars

\* The scheduler calls publishPending again and again and its calls return;
\* leases and pauses are finite.  Faults may come at any time, but not forever.
Fairness ==
  /\ \A e \in Events : WF_vars(BackoffEnds(e)) /\ WF_vars(LeaseLapses(e))
  /\ \A i \in Instances : /\ WF_vars(Claim(i)) /\ WF_vars(Publish(i))
                          /\ WF_vars(Mark(i)) /\ WF_vars(Release(i))

Spec == Safety /\ Fairness

-----------------------------------------------------------------------------
(* What is checked.                                                        *)

\* Every variable keeps its type, an idle publisher is where the next batch
\* starts, and a row that was published is under no lease.
TypeOK ==
  /\ outbox \in [Events -> Row]
  /\ claimed \in [Instances -> SUBSET Events]
  /\ step \in [Instances -> {"publish", "mark", "release"}]
  /\ \A i \in Instances : claimed[i] = {} => step[i] = "publish"
  /\ \A e \in Events : outbox[e].status = "published" => outbox[e].lease = "free"
  /\ purged \in BOOLEAN
  /\ faults \in 0 .. MaxFaults
  /\ sent \subseteq Events
  /\ repeated \subseteq sent
  /\ disturbed \subseteq Events

\* The leases keep publishers apart: an event is sent to Redis twice only after
\* a call about it failed, or its publisher crashed or outlived the lease,
\* although the release of a publisher that lost its lease frees the next one's.
RepeatedOnlyIfDisturbed == repeated \subseteq disturbed

\* Two instances have the same row in their batches only if one of them
\* outlived its lease.
BatchesApartUnlessDisturbed ==
  \A i, j \in Instances : i # j => claimed[i] \cap claimed[j] \subseteq disturbed

\* Rows are marked, and deleted by the hourly cleanup, only once Redis had the
\* event, and every row of a workbook that is not purged gets there: the outbox
\* implements EventDelivery, whatever crashes, failures, stalls and late
\* releases come between.
Delivery == INSTANCE EventDelivery WITH
  committed <- {e \in Events : outbox[e].status # "none"},
  announced <- sent,
  settled   <- {e \in Events : outbox[e].status \in {"published", "cleaned"}},
  withdrawn <- purged

DeliversEvents == Delivery!Spec
=============================================================================
