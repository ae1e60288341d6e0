---------------------- MODULE CoordinationOutbox_proofs ----------------------
(***************************************************************************)
(* Proofs about CoordinationOutbox, for any number of instances, rows,     *)
(* faults and any batch size.  That no event is sent twice without a fault *)
(* rests on what happened to a row between its claim and its mark: a row   *)
(* in a batch is leased and was not sent, but for the one that is about to *)
(* be marked, unless a fault or a stall disturbed it.  IInv says so.       *)
(***************************************************************************)
EXTENDS CoordinationOutbox, FiniteSetTheorems, WellFoundedInduction, TLAPS

ClaimedWasCommitted ==
  \A i \in Instances : \A e \in claimed[i] : outbox[e].status # "none"

SentWasCommitted == \A e \in sent : outbox[e].status # "none"

PurgedIsEmpty ==
  purged => \A e \in Events : outbox[e].status \notin {"pending", "published"}

MarkedWasSent == \A i \in Instances : At(i, "mark") => Current(i) \in sent

LeasedUnlessDisturbed ==
  \A i \in Instances : \A e \in claimed[i] :
    e \notin disturbed /\ Pending(e) => outbox[e].lease = "held"

AboutToBeMarked(e) == \E i \in Instances : At(i, "mark") /\ e = Current(i)

SentIsAboutToBeMarked ==
  \A e \in sent : e \notin disturbed /\ Pending(e) => AboutToBeMarked(e)

UnsentUntilMarked ==
  \A i \in Instances : \A e \in claimed[i] :
    e \notin disturbed /\ ~ (step[i] = "mark" /\ e = Current(i)) => e \notin sent

IInv ==
  /\ TypeOK
  /\ ClaimedWasCommitted
  /\ SentWasCommitted
  /\ PurgedIsEmpty
  /\ MarkedWasSent
  /\ LeasedUnlessDisturbed
  /\ BatchesApartUnlessDisturbed
  /\ SentIsAboutToBeMarked
  /\ UnsentUntilMarked
  /\ RepeatedOnlyIfDisturbed

-----------------------------------------------------------------------------
(* The row a batch is at. *)

\* The intervals 1 .. e of a set of rows have one that holds no other strictly.
LEMMA OldestExists ==
  ASSUME NEW S \in SUBSET Events, S # {}
  PROVE  \E e \in S : \A f \in S : e <= f
<1> DEFINE Up(e) == 1 .. e
           Ups == {Up(e) : e \in S}
<1>1. S \subseteq Nat \ {0}
  BY BoundsAssumption DEF Events
<1>2. Ups \subseteq FiniteSubsetsOf(Nat)
  BY <1>1, FS_Interval DEF FiniteSubsetsOf
<1>3. PICK U \in Ups : \A V \in Ups : ~ (<<V, U>> \in StrictSubsetOrdering(Nat))
  <2>1. Ups # {}
    OBVIOUS
  <2> HIDE DEF Ups
  <2>2. IsWellFoundedOn(StrictSubsetOrdering(Nat), FiniteSubsetsOf(Nat))
    BY FS_StrictSubsetOrderingWellFounded
  <2> QED
    BY <1>2, <2>1, <2>2, WFMin
<1>4. PICK e \in S : U = Up(e)
  OBVIOUS
<1>5. ASSUME NEW f \in S, f < e PROVE FALSE
  <2>1. Up(f) \subseteq Up(e) /\ Up(f) # Up(e)
    BY <1>1, <1>5
  <2>2. <<Up(f), Up(e)>> \in StrictSubsetOrdering(Nat)
    BY <1>1, <2>1 DEF StrictSubsetOrdering
  <2> QED
    BY <1>3, <1>4, <2>2
<1> QED
  BY <1>1, <1>5

LEMMA CurrentIsClaimed ==
  ASSUME TypeOK, NEW i \in Instances, claimed[i] # {}
  PROVE  Current(i) \in claimed[i] /\ Current(i) \in Events
<1>1. claimed[i] \in SUBSET Events
  BY DEF TypeOK
<1>2. Current(i) \in claimed[i]
  BY <1>1, OldestExists DEF Current, Oldest
<1> QED
  BY <1>1, <1>2

\* What Handled and Abandoned do to the batches.
LEMMA OtherBatchesKept ==
  ASSUME TypeOK, NEW i \in Instances, Handled(i) \/ Abandoned(i)
  PROVE  /\ claimed' \in [Instances -> SUBSET Events]
         /\ step' \in [Instances -> {"publish", "mark", "release"}]
         /\ claimed'[i] \subseteq claimed[i] \ {Current(i)}
         /\ step'[i] = "publish"
         /\ \A j \in Instances \ {i} :
              /\ claimed'[j] = claimed[j]
              /\ step'[j] = step[j]
              /\ Current(j)' = Current(j)
  BY DEF TypeOK, Handled, Abandoned, Current

-----------------------------------------------------------------------------
(* Each action preserves the invariant. *)

\* A commit adds a row that is in no batch and was not sent.
LEMMA CommitKeepsInv ==
  ASSUME IInv, NEW e \in Events, Commit(e)
  PROVE  IInv'
<1> USE DEF IInv
<1>1. /\ outbox' = [outbox EXCEPT ![e].status = "pending"]
      /\ outbox[e].status = "none"
      /\ UNCHANGED <<claimed, step, purged, sent, repeated, disturbed, faults>>
  BY DEF Commit, publisherVars, historyVars
<1>2. TypeOK'
  BY <1>1 DEF TypeOK, Row
<1>3. ClaimedWasCommitted' /\ SentWasCommitted'
  BY <1>1 DEF TypeOK, ClaimedWasCommitted, SentWasCommitted, Row
<1>4. PurgedIsEmpty'
  BY <1>1 DEF Commit, PurgedIsEmpty
<1>5. MarkedWasSent' /\ BatchesApartUnlessDisturbed' /\ UnsentUntilMarked'
  BY <1>1 DEF MarkedWasSent, BatchesApartUnlessDisturbed, UnsentUntilMarked, At, Current
<1>6. LeasedUnlessDisturbed'
  BY <1>1 DEF LeasedUnlessDisturbed, ClaimedWasCommitted, Pending, TypeOK, Row
<1>7. SentIsAboutToBeMarked'
  BY <1>1 DEF SentIsAboutToBeMarked, AboutToBeMarked, SentWasCommitted, Pending,
              TypeOK, Row, At, Current
<1>8. RepeatedOnlyIfDisturbed'
  BY <1>1 DEF RepeatedOnlyIfDisturbed
<1> QED
  BY <1>2, <1>3, <1>4, <1>5, <1>6, <1>7, <1>8

\* No row is pending after a purge.
LEMMA PurgeKeepsInv ==
  ASSUME IInv, Purge
  PROVE  IInv'
<1> USE DEF IInv
<1>1. UNCHANGED <<claimed, step, sent, repeated, disturbed, faults>>
  BY DEF Purge, publisherVars, historyVars
<1>2. outbox' \in [Events -> Row] /\ purged' \in BOOLEAN
  BY DEF Purge, TypeOK, Row
<1>3. \A e \in Events :
        /\ outbox'[e].status \notin {"pending", "published"}
        /\ outbox[e].status # "none" => outbox'[e].status # "none"
  BY DEF Purge, TypeOK, Row
<1>4. TypeOK' /\ PurgedIsEmpty'
  BY <1>1, <1>2, <1>3 DEF TypeOK, PurgedIsEmpty
<1>5. ClaimedWasCommitted' /\ SentWasCommitted'
  BY <1>1, <1>3 DEF ClaimedWasCommitted, SentWasCommitted, TypeOK
<1>6. MarkedWasSent' /\ BatchesApartUnlessDisturbed' /\ UnsentUntilMarked'
  BY <1>1 DEF MarkedWasSent, BatchesApartUnlessDisturbed, UnsentUntilMarked, At, Current
<1>7. LeasedUnlessDisturbed' /\ SentIsAboutToBeMarked'
  BY <1>1, <1>3 DEF LeasedUnlessDisturbed, SentIsAboutToBeMarked, Pending, TypeOK
<1>8. RepeatedOnlyIfDisturbed'
  BY <1>1 DEF RepeatedOnlyIfDisturbed
<1> QED
  BY <1>4, <1>5, <1>6, <1>7, <1>8

\* A claimable row is under no lease: it is in no batch, and was not sent.
LEMMA ClaimableWasLeftAlone ==
  ASSUME IInv, NEW e \in Claimable, e \notin disturbed
  PROVE  e \notin sent /\ \A i \in Instances : e \notin claimed[i]
<1>1. e \in Events /\ Pending(e) /\ outbox[e].lease # "held"
  BY DEF Claimable
<1>2. ASSUME NEW i \in Instances, e \in claimed[i] PROVE FALSE
  BY <1>1, <1>2 DEF IInv, LeasedUnlessDisturbed
<1>3. ASSUME e \in sent PROVE FALSE
  <2>1. PICK i \in Instances : claimed[i] # {} /\ e = Current(i)
    BY <1>1, <1>3 DEF IInv, SentIsAboutToBeMarked, AboutToBeMarked, At
  <2> QED
    BY <1>2, <2>1, CurrentIsClaimed DEF IInv
<1> QED
  BY <1>2, <1>3

LEMMA ClaimKeepsInv ==
  ASSUME IInv, NEW i \in Instances, Claim(i)
  PROVE  IInv'
<1> USE DEF IInv
<1>1. /\ claimed[i] = {} /\ Claimable # {}
      /\ claimed' = [claimed EXCEPT ![i] = Batch]
      /\ UNCHANGED <<step, purged, sent, repeated, disturbed, faults>>
  BY DEF Claim, historyVars
<1>2. Batch \subseteq Claimable /\ Claimable \subseteq Events
  BY DEF Batch, Claimable
<1>3. \A e \in Events :
        /\ outbox'[e].status = outbox[e].status
        /\ outbox'[e].lease = IF e \in Batch THEN "held" ELSE outbox[e].lease
  BY DEF Claim, TypeOK, Row
<1>4. step[i] = "publish" /\ step'[i] = "publish"
  BY <1>1 DEF TypeOK
<1>5. \A j \in Instances \ {i} :
        claimed'[j] = claimed[j] /\ Current(j)' = Current(j)
  BY <1>1 DEF TypeOK, Current
<1>6. claimed'[i] = Batch
  BY <1>1 DEF TypeOK
<1>7. TypeOK'
  <2>1. outbox' \in [Events -> Row]
    BY DEF Claim, TypeOK, Row
  <2>2. claimed' \in [Instances -> SUBSET Events]
    BY <1>1, <1>2 DEF TypeOK
  <2>3. \A j \in Instances : claimed'[j] = {} => step'[j] = "publish"
    BY <1>1, <1>4, <1>5 DEF TypeOK
  <2>4. \A e \in Events : outbox'[e].status = "published" => outbox'[e].lease = "free"
    BY <1>2, <1>3 DEF TypeOK, Claimable, Pending
  <2> QED
    BY <1>1, <2>1, <2>2, <2>3, <2>4 DEF TypeOK
<1>8. ClaimedWasCommitted'
  BY <1>2, <1>3, <1>5, <1>6 DEF ClaimedWasCommitted, TypeOK, Claimable, Pending
<1>9. SentWasCommitted' /\ PurgedIsEmpty' /\ RepeatedOnlyIfDisturbed'
  BY <1>1, <1>3 DEF SentWasCommitted, PurgedIsEmpty, RepeatedOnlyIfDisturbed, TypeOK
<1>10. MarkedWasSent'
  BY <1>1, <1>4, <1>5 DEF MarkedWasSent, At
<1>11. LeasedUnlessDisturbed'
  BY <1>1, <1>2, <1>3, <1>5, <1>6 DEF LeasedUnlessDisturbed, Pending, TypeOK
<1>12. BatchesApartUnlessDisturbed'
  BY <1>1, <1>2, <1>5, <1>6, ClaimableWasLeftAlone DEF BatchesApartUnlessDisturbed
<1>13. SentIsAboutToBeMarked'
  BY <1>1, <1>3, <1>5
     DEF SentIsAboutToBeMarked, AboutToBeMarked, At, Pending, TypeOK
<1>14. UnsentUntilMarked'
  BY <1>1, <1>2, <1>5, <1>6, ClaimableWasLeftAlone DEF UnsentUntilMarked
<1> QED
  BY <1>7, <1>8, <1>9, <1>10, <1>11, <1>12, <1>13, <1>14

\* The row that is published was not sent before, unless it was disturbed.
LEMMA PublishKeepsInv ==
  ASSUME IInv, NEW i \in Instances, Publish(i)
  PROVE  IInv'
<1> USE DEF IInv
<1> DEFINE c == Current(i)
<1>1. /\ claimed[i] # {} /\ step[i] = "publish"
      /\ sent' = sent \cup {c}
      /\ repeated' = repeated \cup ({c} \cap sent)
      /\ UNCHANGED <<outbox, purged, claimed, disturbed, faults>>
  BY DEF Publish, At, Sent, rowVars
<1>2. c \in claimed[i] /\ c \in Events
  BY <1>1, CurrentIsClaimed
<1>3. /\ step' \in [Instances -> {"publish", "mark", "release"}]
      /\ step'[i] = "mark"
      /\ \A j \in Instances \ {i} : step'[j] = step[j]
  BY DEF Publish, TypeOK
<1>4. \A j \in Instances : Current(j)' = Current(j)
  BY <1>1 DEF Current
<1>5. c \notin disturbed => c \notin sent
  BY <1>1, <1>2 DEF UnsentUntilMarked
<1> HIDE DEF c
<1>6. TypeOK'
  BY <1>1, <1>2, <1>3 DEF TypeOK
<1>7. ClaimedWasCommitted' /\ SentWasCommitted' /\ PurgedIsEmpty'
  BY <1>1, <1>2 DEF ClaimedWasCommitted, SentWasCommitted, PurgedIsEmpty
<1>8. MarkedWasSent'
  BY <1>1, <1>3, <1>4 DEF MarkedWasSent, At, c
<1>9. LeasedUnlessDisturbed' /\ BatchesApartUnlessDisturbed'
  BY <1>1 DEF LeasedUnlessDisturbed, BatchesApartUnlessDisturbed, Pending
<1>10. SentIsAboutToBeMarked'
  <2> SUFFICES ASSUME NEW e \in sent', e \notin disturbed, Pending(e)
               PROVE  AboutToBeMarked(e)'
    BY <1>1 DEF SentIsAboutToBeMarked, Pending
  <2>1. CASE e = c
    BY <1>1, <1>3, <1>4, <2>1 DEF AboutToBeMarked, At, c
  <2>2. CASE e # c
    <3>1. PICK j \in Instances : At(j, "mark") /\ e = Current(j)
      BY <1>1, <2>2 DEF SentIsAboutToBeMarked, AboutToBeMarked
    <3> QED
      BY <1>1, <1>3, <1>4, <3>1 DEF AboutToBeMarked, At
  <2> QED
    BY <2>1, <2>2
<1>11. UnsentUntilMarked'
  <2> SUFFICES ASSUME NEW j \in Instances, NEW e \in claimed[j], e \notin disturbed,
                      ~ (step'[j] = "mark" /\ e = Current(j)')
               PROVE  e \notin sent'
    BY <1>1 DEF UnsentUntilMarked
  <2>1. ~ (step[j] = "mark" /\ e = Current(j))
    BY <1>1, <1>3, <1>4
  <2>2. e # c
    <3>1. CASE j = i
      BY <1>3, <1>4, <3>1 DEF c
    <3>2. CASE j # i
      BY <1>2, <3>2 DEF BatchesApartUnlessDisturbed
    <3> QED
      BY <3>1, <3>2
  <2> QED
    BY <1>1, <2>1, <2>2 DEF UnsentUntilMarked
<1>12. RepeatedOnlyIfDisturbed'
  BY <1>1, <1>5 DEF RepeatedOnlyIfDisturbed
<1> QED
  BY <1>6, <1>7, <1>8, <1>9, <1>10, <1>11, <1>12

\* A failed publish disturbs the row if Redis had it.
LEMMA PublishFailsKeepsInv ==
  ASSUME IInv, NEW i \in Instances, PublishFails(i)
  PROVE  IInv'
<1> USE DEF IInv
<1> DEFINE c == Current(i)
<1>1. /\ claimed[i] # {} /\ step[i] = "publish"
      /\ UNCHANGED <<outbox, purged, claimed>>
      /\ faults' \in 0 .. MaxFaults
  BY BoundsAssumption DEF PublishFails, At, rowVars, Fault, TypeOK
<1>2. c \in claimed[i] /\ c \in Events
  BY <1>1, CurrentIsClaimed
<1>3. \/ UNCHANGED <<sent, repeated, disturbed>>
      \/ /\ sent' = sent \cup {c}
         /\ repeated' = repeated \cup ({c} \cap sent)
         /\ disturbed' = disturbed \cup {c}
  BY DEF PublishFails, Sent, historyVars
<1>4. /\ step' \in [Instances -> {"publish", "mark", "release"}]
      /\ step'[i] = "release"
      /\ \A j \in Instances \ {i} : step'[j] = step[j]
  BY DEF PublishFails, TypeOK
<1>5. \A j \in Instances : Current(j)' = Current(j)
  BY <1>1 DEF Current
<1> HIDE DEF c
<1>6. TypeOK'
  BY <1>1, <1>2, <1>3, <1>4 DEF TypeOK
<1>7. ClaimedWasCommitted' /\ SentWasCommitted' /\ PurgedIsEmpty'
  BY <1>1, <1>2, <1>3 DEF ClaimedWasCommitted, SentWasCommitted, PurgedIsEmpty
<1>8. MarkedWasSent'
  BY <1>1, <1>3, <1>4, <1>5 DEF MarkedWasSent, At
<1>9. LeasedUnlessDisturbed' /\ BatchesApartUnlessDisturbed'
  BY <1>1, <1>3 DEF LeasedUnlessDisturbed, BatchesApartUnlessDisturbed, Pending
<1>10. SentIsAboutToBeMarked'
  <2> SUFFICES ASSUME NEW e \in sent', e \notin disturbed', Pending(e)
               PROVE  AboutToBeMarked(e)'
    BY <1>1 DEF SentIsAboutToBeMarked, Pending
  <2>1. PICK j \in Instances : At(j, "mark") /\ e = Current(j)
    BY <1>3 DEF SentIsAboutToBeMarked, AboutToBeMarked
  <2> QED
    BY <1>1, <1>4, <1>5, <2>1 DEF AboutToBeMarked, At
<1>11. UnsentUntilMarked'
  BY <1>1, <1>3, <1>4, <1>5 DEF UnsentUntilMarked
<1>12. RepeatedOnlyIfDisturbed'
  BY <1>3 DEF RepeatedOnlyIfDisturbed
<1> QED
  BY <1>6, <1>7, <1>8, <1>9, <1>10, <1>11, <1>12

\* A row that was sent leaves the batch as published, or was it already.
LEMMA MarkKeepsInv ==
  ASSUME IInv, NEW i \in Instances, Mark(i)
  PROVE  IInv'
<1> USE DEF IInv
<1> DEFINE c == Current(i)
<1>1. /\ claimed[i] # {} /\ step[i] = "mark"
      /\ Handled(i)
      /\ UNCHANGED <<purged, sent, repeated, disturbed, faults>>
  BY DEF Mark, At, historyVars
<1>2. c \in claimed[i] /\ c \in Events
  BY <1>1, CurrentIsClaimed
<1>3. /\ outbox' \in [Events -> Row]
      /\ \A e \in Events : e # c => outbox'[e] = outbox[e]
      /\ outbox'[c].status # "pending"
      /\ outbox[c].status # "none" => outbox'[c].status # "none"
      /\ outbox'[c].status = "published" => outbox'[c].lease = "free"
      /\ outbox'[c].status = "published" => outbox[c].status \in {"pending", "published"}
  BY <1>2 DEF Mark, MarkedPublished, Pending, TypeOK, Row
<1> HIDE DEF c
<1>4. TypeOK'
  BY <1>1, <1>3, OtherBatchesKept DEF TypeOK
<1>5. ClaimedWasCommitted'
  BY <1>1, <1>3, OtherBatchesKept DEF ClaimedWasCommitted, TypeOK
<1>6. SentWasCommitted' /\ PurgedIsEmpty' /\ RepeatedOnlyIfDisturbed'
  BY <1>1, <1>3
     DEF SentWasCommitted, PurgedIsEmpty, RepeatedOnlyIfDisturbed, TypeOK, Pending
<1>7. MarkedWasSent'
  BY <1>1, OtherBatchesKept DEF MarkedWasSent, At
<1>8. LeasedUnlessDisturbed'
  BY <1>1, <1>3, OtherBatchesKept DEF LeasedUnlessDisturbed, Pending, TypeOK
<1>9. BatchesApartUnlessDisturbed'
  BY <1>1, OtherBatchesKept DEF BatchesApartUnlessDisturbed
<1>10. SentIsAboutToBeMarked'
  <2> SUFFICES ASSUME NEW e \in sent, e \notin disturbed, Pending(e)'
               PROVE  AboutToBeMarked(e)'
    BY <1>1 DEF SentIsAboutToBeMarked
  <2>1. e # c /\ Pending(e)
    BY <1>3 DEF Pending, TypeOK
  <2>2. PICK j \in Instances : At(j, "mark") /\ e = Current(j)
    BY <2>1 DEF SentIsAboutToBeMarked, AboutToBeMarked
  <2> QED
    BY <1>1, <2>1, <2>2, OtherBatchesKept DEF AboutToBeMarked, At, c
<1>11. UnsentUntilMarked'
  BY <1>1, OtherBatchesKept DEF UnsentUntilMarked
<1> QED
  BY <1>4, <1>5, <1>6, <1>7, <1>8, <1>9, <1>10, <1>11

\* The row is disturbed whether or not the transaction came through.
LEMMA MarkFailsKeepsInv ==
  ASSUME IInv, NEW i \in Instances, MarkFails(i)
  PROVE  IInv'
<1> USE DEF IInv
<1> DEFINE c == Current(i)
<1>1. /\ claimed[i] # {} /\ step[i] = "mark"
      /\ disturbed' = disturbed \cup {c}
      /\ UNCHANGED <<purged, claimed, sent, repeated>>
      /\ faults' \in 0 .. MaxFaults
  BY BoundsAssumption DEF MarkFails, At, Fault, TypeOK
<1>2. c \in claimed[i] /\ c \in Events
  BY <1>1, CurrentIsClaimed
<1>3. /\ step' \in [Instances -> {"publish", "mark", "release"}]
      /\ step'[i] = "release"
      /\ \A j \in Instances \ {i} : step'[j] = step[j]
  BY DEF MarkFails, TypeOK
<1>4. \A j \in Instances : Current(j)' = Current(j)
  BY <1>1 DEF Current
<1>5. /\ outbox' \in [Events -> Row]
      /\ \A e \in Events : e # c => outbox'[e] = outbox[e]
      /\ outbox[c].status # "none" => outbox'[c].status # "none"
      /\ outbox'[c].status = "published" => outbox'[c].lease = "free"
      /\ outbox'[c].status = "published" => outbox[c].status \in {"pending", "published"}
      /\ outbox'[c].status = "pending" => outbox[c].status = "pending"
  BY <1>2 DEF MarkFails, MarkedPublished, Pending, TypeOK, Row
<1> HIDE DEF c
<1>6. TypeOK'
  BY <1>1, <1>2, <1>3, <1>5 DEF TypeOK
<1>7. ClaimedWasCommitted' /\ SentWasCommitted' /\ PurgedIsEmpty'
  BY <1>1, <1>5
     DEF ClaimedWasCommitted, SentWasCommitted, PurgedIsEmpty, TypeOK
<1>8. MarkedWasSent'
  BY <1>1, <1>3, <1>4 DEF MarkedWasSent, At
<1>9. LeasedUnlessDisturbed' /\ BatchesApartUnlessDisturbed'
  BY <1>1, <1>5 DEF LeasedUnlessDisturbed, BatchesApartUnlessDisturbed, Pending, TypeOK
<1>10. SentIsAboutToBeMarked'
  <2> SUFFICES ASSUME NEW e \in sent, e \notin disturbed, e # c, Pending(e)'
               PROVE  AboutToBeMarked(e)'
    BY <1>1 DEF SentIsAboutToBeMarked
  <2>1. Pending(e)
    BY <1>5 DEF Pending, TypeOK
  <2>2. PICK j \in Instances : At(j, "mark") /\ e = Current(j)
    BY <2>1 DEF SentIsAboutToBeMarked, AboutToBeMarked
  <2> QED
    BY <1>1, <1>3, <1>4, <2>2 DEF AboutToBeMarked, At, c
<1>11. UnsentUntilMarked'
  BY <1>1, <1>3, <1>4 DEF UnsentUntilMarked, c
<1>12. RepeatedOnlyIfDisturbed'
  BY <1>1 DEF RepeatedOnlyIfDisturbed
<1> QED
  BY <1>6, <1>7, <1>8, <1>9, <1>10, <1>11, <1>12

\* The lease that is given back may be another publisher's: the row is
\* disturbed then.
LEMMA ReleaseKeepsInv ==
  ASSUME IInv, NEW i \in Instances, Release(i)
  PROVE  IInv'
<1> USE DEF IInv
<1> DEFINE c == Current(i)
<1>1. /\ claimed[i] # {} /\ step[i] = "release"
      /\ Handled(i)
      /\ UNCHANGED <<purged, sent, repeated, disturbed, faults>>
  BY DEF Release, At, historyVars
<1>2. c \in claimed[i] /\ c \in Events
  BY <1>1, CurrentIsClaimed
<1>3. /\ outbox' \in [Events -> Row]
      /\ \A e \in Events : e # c => outbox'[e] = outbox[e]
      /\ outbox'[c].status = outbox[c].status
      /\ outbox'[c].status = "published" => outbox'[c].lease = "free"
  BY <1>2 DEF Release, Released, Pending, TypeOK, Row
<1> HIDE DEF c
<1>4. TypeOK'
  BY <1>1, <1>3, OtherBatchesKept DEF TypeOK
<1>5. ClaimedWasCommitted'
  BY <1>1, <1>3, OtherBatchesKept DEF ClaimedWasCommitted, TypeOK
<1>6. SentWasCommitted' /\ PurgedIsEmpty' /\ RepeatedOnlyIfDisturbed'
  BY <1>1, <1>3 DEF SentWasCommitted, PurgedIsEmpty, RepeatedOnlyIfDisturbed, TypeOK
<1>7. MarkedWasSent'
  BY <1>1, OtherBatchesKept DEF MarkedWasSent, At
<1>8. LeasedUnlessDisturbed'
  <2> SUFFICES ASSUME NEW j \in Instances, NEW e \in claimed'[j],
                      e \notin disturbed, Pending(e)'
               PROVE  outbox'[e].lease = "held"
    BY <1>1 DEF LeasedUnlessDisturbed
  <2>1. e \in claimed[j] /\ e # c /\ e \in Events
    BY <1>1, <1>2, OtherBatchesKept DEF BatchesApartUnlessDisturbed, TypeOK, c
  <2> QED
    BY <1>3, <2>1 DEF LeasedUnlessDisturbed, Pending
<1>9. BatchesApartUnlessDisturbed'
  BY <1>1, OtherBatchesKept DEF BatchesApartUnlessDisturbed
<1>10. SentIsAboutToBeMarked'
  <2> SUFFICES ASSUME NEW e \in sent, e \notin disturbed, Pending(e)'
               PROVE  AboutToBeMarked(e)'
    BY <1>1 DEF SentIsAboutToBeMarked
  <2>1. Pending(e)
    BY <1>3 DEF Pending, TypeOK
  <2>2. PICK j \in Instances : At(j, "mark") /\ e = Current(j)
    BY <2>1 DEF SentIsAboutToBeMarked, AboutToBeMarked
  <2> QED
    BY <1>1, <2>2, OtherBatchesKept DEF AboutToBeMarked, At
<1>11. UnsentUntilMarked'
  BY <1>1, OtherBatchesKept DEF UnsentUntilMarked
<1> QED
  BY <1>4, <1>5, <1>6, <1>7, <1>8, <1>9, <1>10, <1>11

\* A batch that is given up between a publish and its mark disturbs the row.
LEMMA AbandonKeepsInv ==
  ASSUME IInv, NEW i \in Instances, ReleaseFails(i) \/ Crash(i)
  PROVE  IInv'
<1> USE DEF IInv
<1>1. /\ Abandoned(i)
      /\ claimed[i] # {}
      /\ UNCHANGED <<outbox, purged, sent, repeated>>
      /\ faults' \in 0 .. MaxFaults
  BY BoundsAssumption DEF ReleaseFails, Crash, Fault, At, rowVars, historyVars, TypeOK
<1>2. /\ disturbed \subseteq disturbed' /\ disturbed' \subseteq Events
      /\ step[i] = "mark" => Current(i) \in disturbed'
  BY <1>1, CurrentIsClaimed DEF ReleaseFails, Crash, At, historyVars, TypeOK
<1>3. TypeOK'
  BY <1>1, <1>2, OtherBatchesKept DEF TypeOK, Abandoned
<1>4. ClaimedWasCommitted' /\ SentWasCommitted' /\ PurgedIsEmpty'
  BY <1>1, OtherBatchesKept DEF ClaimedWasCommitted, SentWasCommitted, PurgedIsEmpty
<1>5. MarkedWasSent'
  BY <1>1, OtherBatchesKept DEF MarkedWasSent, At
<1>6. LeasedUnlessDisturbed' /\ BatchesApartUnlessDisturbed'
  BY <1>1, <1>2, OtherBatchesKept
     DEF LeasedUnlessDisturbed, BatchesApartUnlessDisturbed, Pending
<1>7. SentIsAboutToBeMarked'
  <2> SUFFICES ASSUME NEW e \in sent, e \notin disturbed', Pending(e)
               PROVE  AboutToBeMarked(e)'
    BY <1>1 DEF SentIsAboutToBeMarked, Pending
  <2>1. PICK j \in Instances : At(j, "mark") /\ e = Current(j)
    BY <1>2 DEF SentIsAboutToBeMarked, AboutToBeMarked
  <2> QED
    BY <1>1, <1>2, <2>1, OtherBatchesKept DEF AboutToBeMarked, At
<1>8. UnsentUntilMarked'
  BY <1>1, <1>2, OtherBatchesKept DEF UnsentUntilMarked
<1>9. RepeatedOnlyIfDisturbed'
  BY <1>1, <1>2 DEF RepeatedOnlyIfDisturbed
<1> QED
  BY <1>3, <1>4, <1>5, <1>6, <1>7, <1>8, <1>9

\* The cleanup and the clock touch no batch.
LEMMA RowStepKeepsInv ==
  ASSUME IInv,
         \/ \E i \in Instances : Cleanup(i)
         \/ \E e \in Events : BackoffEnds(e) \/ LeaseLapses(e)
  PROVE  IInv'
<1> USE DEF IInv
<1>1. UNCHANGED <<purged, claimed, step, sent, repeated, faults>>
  BY DEF Cleanup, BackoffEnds, LeaseLapses, publisherVars, historyVars
<1>2. disturbed \subseteq disturbed' /\ disturbed' \subseteq Events
  BY DEF Cleanup, BackoffEnds, LeaseLapses, historyVars, TypeOK
<1>3. outbox' \in [Events -> Row]
  <2> outbox \in [Events -> Row]
    BY DEF TypeOK
  <2>1. ASSUME NEW i \in Instances, Cleanup(i) PROVE outbox' \in [Events -> Row]
    BY <2>1 DEF Cleanup, Row
  <2>2. ASSUME NEW e \in Events, BackoffEnds(e) PROVE outbox' \in [Events -> Row]
    BY <2>2 DEF BackoffEnds, Row
  <2>3. ASSUME NEW e \in Events, LeaseLapses(e) PROVE outbox' \in [Events -> Row]
    BY <2>3 DEF LeaseLapses, Row
  <2> QED
    BY <2>1, <2>2, <2>3
<1>4. \A e \in Events :
        /\ outbox'[e].status # "none" <=> outbox[e].status # "none"
        /\ outbox'[e].status = "pending" <=> outbox[e].status = "pending"
        /\ outbox'[e].status = "published" =>
             outbox[e].status = "published" /\ outbox'[e].lease = outbox[e].lease
  BY DEF Cleanup, BackoffEnds, LeaseLapses, Pending, TypeOK, Row
<1>5. \A i \in Instances : \A e \in claimed[i] :
        e \notin disturbed' => outbox'[e].lease = outbox[e].lease
  BY DEF Cleanup, BackoffEnds, LeaseLapses, TypeOK, Row
<1>6. TypeOK'
  BY <1>1, <1>2, <1>3, <1>4 DEF TypeOK
<1>7. ClaimedWasCommitted' /\ SentWasCommitted' /\ PurgedIsEmpty'
  BY <1>1, <1>4 DEF ClaimedWasCommitted, SentWasCommitted, PurgedIsEmpty, TypeOK
<1>8. MarkedWasSent' /\ BatchesApartUnlessDisturbed' /\ UnsentUntilMarked'
  BY <1>1, <1>2
     DEF MarkedWasSent, BatchesApartUnlessDisturbed, UnsentUntilMarked, At, Current
<1>9. LeasedUnlessDisturbed'
  BY <1>1, <1>2, <1>4, <1>5 DEF LeasedUnlessDisturbed, Pending, TypeOK
<1>10. SentIsAboutToBeMarked'
  BY <1>1, <1>2, <1>4
     DEF SentIsAboutToBeMarked, AboutToBeMarked, At, Current, Pending, TypeOK
<1>11. RepeatedOnlyIfDisturbed'
  BY <1>1, <1>2 DEF RepeatedOnlyIfDisturbed
<1> QED
  BY <1>6, <1>7, <1>8, <1>9, <1>10, <1>11

-----------------------------------------------------------------------------
(* The theorems. *)

LEMMA InitInv ==
  ASSUME Init
  PROVE  IInv
<1>1. outbox \in [Events -> Row] /\ \A e \in Events : outbox[e].status = "none"
  BY DEF Init, NoRow, Row
<1>2. TypeOK
  <2>1. purged \in BOOLEAN
    BY DEF Init
  <2>2. faults \in 0 .. MaxFaults
    BY BoundsAssumption DEF Init
  <2>3. /\ claimed \in [Instances -> SUBSET Events]
        /\ step \in [Instances -> {"publish", "mark", "release"}]
        /\ \A i \in Instances : claimed[i] = {} => step[i] = "publish"
    BY DEF Init
  <2> QED
    BY <1>1, <2>1, <2>2, <2>3 DEF Init, TypeOK
<1> QED
  BY <1>1, <1>2 DEF Init, IInv, ClaimedWasCommitted, SentWasCommitted, PurgedIsEmpty,
       MarkedWasSent, LeasedUnlessDisturbed, BatchesApartUnlessDisturbed,
       SentIsAboutToBeMarked, UnsentUntilMarked, RepeatedOnlyIfDisturbed, At

LEMMA StutterKeepsInv ==
  ASSUME IInv, UNCHANGED vars
  PROVE  IInv'
  BY DEF vars, rowVars, publisherVars, historyVars, IInv, TypeOK, ClaimedWasCommitted,
         SentWasCommitted, PurgedIsEmpty, MarkedWasSent, LeasedUnlessDisturbed,
         BatchesApartUnlessDisturbed, SentIsAboutToBeMarked, UnsentUntilMarked,
         RepeatedOnlyIfDisturbed, At, Pending, AboutToBeMarked, Current

LEMMA NextKeepsInv ==
  ASSUME IInv, [Next]_vars
  PROVE  IInv'
  BY CommitKeepsInv, PurgeKeepsInv, ClaimKeepsInv, PublishKeepsInv,
     PublishFailsKeepsInv, MarkKeepsInv, MarkFailsKeepsInv, ReleaseKeepsInv,
     AbandonKeepsInv, RowStepKeepsInv, StutterKeepsInv DEF Next

\* The publishers' rows and batches stay what claimOutbox, markOutboxPublished
\* and releaseOutbox leave: IInv is inductive.
THEOREM OutboxInvariant == Safety => []IInv
<1>1. IInv /\ [Next]_vars => IInv'
  BY NextKeepsInv
<1> QED
  BY <1>1, InitInv, PTL DEF Safety

\* Every variable of the outbox keeps its type, with any number of instances.
THEOREM OutboxTypeCorrect == Safety => []TypeOK
<1>1. IInv => TypeOK
  BY DEF IInv
<1> QED
  BY <1>1, OutboxInvariant, PTL

\* An event is sent to Redis twice only after a fault or a stall disturbed it.
THEOREM OutboxRepeatsOnlyDisturbed == Safety => []RepeatedOnlyIfDisturbed
<1>1. IInv => RepeatedOnlyIfDisturbed
  BY DEF IInv
<1> QED
  BY <1>1, OutboxInvariant, PTL

\* Two instances hold the same row only if one of them outlived its lease.
THEOREM OutboxBatchesApart == Safety => []BatchesApartUnlessDisturbed
<1>1. IInv => BatchesApartUnlessDisturbed
  BY DEF IInv
<1> QED
  BY <1>1, OutboxInvariant, PTL

-----------------------------------------------------------------------------
(* The outbox implements EventDelivery: its safety, for every instance. *)

Committed == {e \in Events : outbox[e].status # "none"}
Settled == {e \in Events : outbox[e].status \in {"published", "cleaned"}}

LEMMA CommitIsACommit ==
  ASSUME IInv, NEW e \in Events, Commit(e)
  PROVE  Delivery!Commit(e)
<1>1. Committed' = Committed \cup {e} /\ Settled' = Settled
  BY DEF Commit, Committed, Settled, IInv, TypeOK, Row
<1> QED
  BY <1>1 DEF Commit, Committed, Settled, historyVars, Delivery!Commit

LEMMA PurgeIsAWithdrawal ==
  ASSUME IInv, Purge
  PROVE  Delivery!Withdraw
<1>1. Committed' = Committed /\ Settled' = Settled
  BY DEF Purge, Committed, Settled, IInv, TypeOK, Row
<1> QED
  BY <1>1 DEF Purge, Committed, Settled, historyVars, Delivery!Withdraw

LEMMA PublishIsAnAnnouncement ==
  ASSUME IInv, NEW i \in Instances, Publish(i) \/ PublishFails(i)
  PROVE  \/ \E e \in Events : Delivery!Announce(e)
         \/ UNCHANGED Delivery!vars
<1>1. Current(i) \in Events /\ outbox[Current(i)].status # "none"
  BY CurrentIsClaimed DEF IInv, ClaimedWasCommitted, Publish, PublishFails, At
<1>2. UNCHANGED <<outbox, purged>>
  BY DEF Publish, PublishFails, rowVars
<1>3. sent' = sent \cup {Current(i)} \/ UNCHANGED sent
  BY DEF Publish, PublishFails, Sent, historyVars
<1> QED
  BY <1>1, <1>2, <1>3 DEF Delivery!Announce, Delivery!vars

\* A row that is marked was sent, and is settled unless it is gone.
LEMMA MarkSettles ==
  ASSUME IInv, NEW i \in Instances, Mark(i) \/ MarkFails(i)
  PROVE  \/ \E e \in Events : Delivery!Settle(e)
         \/ UNCHANGED Delivery!vars
<1> DEFINE c == Current(i)
<1>1. c \in Events /\ c \in sent
  BY CurrentIsClaimed DEF IInv, MarkedWasSent, Mark, MarkFails, At
<1>2. UNCHANGED <<purged, sent>>
  BY DEF Mark, MarkFails, historyVars
<1>3. outbox' = outbox \/ outbox' = MarkedPublished(c)
  BY DEF Mark, MarkFails
<1>4. CASE Pending(c) /\ outbox' = MarkedPublished(c)
  <2>1. Committed' = Committed /\ Settled' = Settled \cup {c} /\ c \notin Settled
    BY <1>1, <1>4 DEF MarkedPublished, Pending, Committed, Settled, IInv, TypeOK, Row
  <2>2. ~ purged
    BY <1>1, <1>4 DEF Pending, IInv, PurgedIsEmpty
  <2> QED
    BY <1>1, <1>2, <2>1, <2>2 DEF Committed, Settled, Delivery!Settle
<1>5. CASE outbox' = outbox
  BY <1>2, <1>5 DEF Delivery!vars
<1> QED
  BY <1>3, <1>4, <1>5 DEF MarkedPublished

LEMMA OtherStepsStutter ==
  ASSUME IInv,
         \/ UNCHANGED vars
         \/ \E e \in Events : BackoffEnds(e) \/ LeaseLapses(e)
         \/ \E i \in Instances :
              Claim(i) \/ Release(i) \/ ReleaseFails(i) \/ Crash(i) \/ Cleanup(i)
  PROVE  UNCHANGED Delivery!vars
<1>1. UNCHANGED <<purged, sent>>
  BY DEF vars, rowVars, historyVars, BackoffEnds, LeaseLapses, Claim, Release,
         ReleaseFails, Crash, Cleanup
<1>2. \A e \in Events :
        \/ outbox'[e].status = outbox[e].status
        \/ outbox[e].status = "published" /\ outbox'[e].status = "cleaned"
  <2> outbox \in [Events -> Row]
    BY DEF IInv, TypeOK
  <2>1. CASE UNCHANGED outbox
    BY <2>1
  <2>2. CASE \E e \in Events : BackoffEnds(e) \/ LeaseLapses(e)
    BY <2>2 DEF BackoffEnds, LeaseLapses, Row
  <2>3. CASE \E i \in Instances : Claim(i) \/ Cleanup(i)
    BY <2>3 DEF Claim, Cleanup, Row
  <2>4. CASE \E i \in Instances : Release(i)
    BY <2>4, CurrentIsClaimed DEF Release, Released, At, IInv, Row
  <2> QED
    BY <2>1, <2>2, <2>3, <2>4 DEF vars, rowVars, ReleaseFails, Crash
<1>3. Committed' = Committed /\ Settled' = Settled
  BY <1>2 DEF Committed, Settled
<1> QED
  BY <1>1, <1>3 DEF Committed, Settled, Delivery!vars

\* Rows are marked and cleaned up only once Redis had the event, and a purge
\* ends it: every step of the outbox is a step of EventDelivery or a stutter.
THEOREM OutboxImplementsDelivery == Safety => Delivery!Safety
<1>1. Init => Delivery!Init
  <2> SUFFICES ASSUME Init PROVE Delivery!Init
    OBVIOUS
  <2>1. \A e \in Events : outbox[e].status = "none"
    BY DEF Init, NoRow
  <2> QED
    BY <2>1 DEF Init, Delivery!Init
<1>2. IInv /\ [Next]_vars => [Delivery!Next]_(Delivery!vars)
  BY CommitIsACommit, PurgeIsAWithdrawal, PublishIsAnAnnouncement, MarkSettles,
     OtherStepsStutter DEF Next, Delivery!Next
<1> QED
  BY <1>1, <1>2, OutboxInvariant, PTL DEF Safety, Delivery!Safety
=============================================================================
