---------------------------- MODULE EventDelivery ----------------------------
(***************************************************************************)
(* What the outbox promises for the revisions of one workbook: each is     *)
(* announced to the other servers at least once, and it is put aside only  *)
(* after it was.  Nothing more is promised once the workbook is purged.    *)
(* CoordinationOutbox implements this.                                     *)
(***************************************************************************)
CONSTANT Events         \* the revisions of the workbook

VARIABLES
  committed,            \* the revisions that exist
  announced,            \* those that were announced at least once
  settled,              \* those that need no further announcement
  withdrawn             \* the workbook was purged

vars == <<committed, announced, settled, withdrawn>>

Init ==
  /\ committed = {}
  /\ announced = {}
  /\ settled = {}
  /\ withdrawn = FALSE

Commit(e) ==
  /\ ~withdrawn
  /\ e \notin committed
  /\ committed' = committed \cup {e}
  /\ UNCHANGED <<announced, settled, withdrawn>>

\* An announcement may be repeated, and may come too late for a withdrawal.
Announce(e) ==
  /\ e \in committed
  /\ announced' = announced \cup {e}
  /\ UNCHANGED <<committed, settled, withdrawn>>

Settle(e) ==
  /\ e \in announced \ settled
  /\ ~withdrawn
  /\ settled' = settled \cup {e}
  /\ UNCHANGED <<committed, announced, withdrawn>>

Withdraw ==
  /\ withdrawn' = TRUE
  /\ UNCHANGED <<committed, announced, settled>>

Next ==
  \/ \E e \in Events : Commit(e) \/ Announce(e) \/ Settle(e)
  \/ Withdraw

Safety == Init /\ [][Next]_vars

Spec ==
  /\ Safety
  /\ \A e \in Events : WF_vars(~withdrawn /\ Announce(e)) /\ WF_vars(Settle(e))
=============================================================================
