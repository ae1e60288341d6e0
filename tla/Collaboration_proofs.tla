------------------------- MODULE Collaboration_proofs -------------------------
(***************************************************************************)
(* Proofs about Collaboration, for any operations, cells and number of     *)
(* connections.  That no local operation disappears rests on the queue     *)
(* losing an operation only when the log has it; that they are committed   *)
(* in the order in which they were issued rests on the queue keeping that  *)
(* order, and on everything before an operation that was ever sent being   *)
(* in the log.  IInv says so.  That nothing unseen is overwritten rests on *)
(* what every operation that waits was compared with.  CareInv says so.    *)
(* That the document is in step rests on the place of every operation in   *)
(* it, and on how far each load has brought it.  PlaceInv says so.         *)
(***************************************************************************)
EXTENDS Collaboration, Queues_proofs

\* The operations of the first revisions, and those of a log.
Prefix(l, r) == {l[i] : i \in 1 .. r}
OperationsOf(l) == Prefix(l, Len(l))

\* A queue holds issued operations, in the order in which they were issued.
InIssueOrder(queue, s) ==
  /\ \A m \in DOMAIN queue : \E i \in DOMAIN s : s[i].id = queue[m].id
  /\ \A m, n \in DOMAIN queue :
       m < n => \E i, j \in DOMAIN s :
                  i < j /\ s[i].id = queue[m].id /\ s[j].id = queue[n].id

\* What holds of the client between any two of its functions.
Sound(c, l, s) ==
  /\ c \in Client
  /\ c.base <= Len(l) /\ c.remote <= Len(l)
  /\ \A i \in DOMAIN c.deferred : c.deferred[i] \in 1 .. Len(l)
  /\ c.committed \subseteq Prefix(l, c.base)
  /\ \A i \in DOMAIN s : s[i].id \in IdsOf(c.queue) \cup Prefix(l, c.base)
  /\ InIssueOrder(c.queue, s)

CommittedOnce == \A i, j \in DOMAIN log : log[i] = log[j] => i = j

Distinct(s) == \A i, j \in DOMAIN s : s[i].id = s[j].id => i = j

AnswerIsCommitted ==
  request.stage \in {"committed", "acknowledged"} =>
    request.revision \in DOMAIN log /\ log[request.revision] = request.id

LoadsReadThePast ==
  \A k \in Connections : loads[k].hydrated <= Revision /\ loads[k].history <= Revision

\* The operations the server may still commit.
Sent == {r.id : r \in late} \cup {r.id : r \in {request} \ {NoRequest}}

EarlierIn(id, l, s) ==
  \A j \in DOMAIN s : s[j].id = id => \A i \in 1 .. j - 1 : s[i].id \in OperationsOf(l)

SentAfter(id, l, s) == (\E j \in DOMAIN s : s[j].id = id) /\ EarlierIn(id, l, s)

SentInOrder == \A id \in Sent : SentAfter(id, log, issued)

\* An operation of this page in the log was issued by it.
OwnWereIssued(l, s) ==
  \A r \in DOMAIN l : l[r] \in OwnOperations => \E j \in DOMAIN s : s[j].id = l[r]

IInv ==
  /\ TypeOK
  /\ CommittedOnce
  /\ Distinct(issued)
  /\ Sound(client, log, issued)
  /\ AnswerIsCommitted
  /\ LoadsReadThePast
  /\ SentInOrder
  /\ OwnWereIssued(log, issued)
  /\ CommittedInOrder

-----------------------------------------------------------------------------
(* Logs and queues. *)

LEMMA MaxOfTwo ==
  ASSUME NEW a \in Nat, NEW b \in Nat
  PROVE  Max({a, b}) \in Nat /\ Max({a, b}) >= a /\ Max({a, b}) >= b /\ Max({a, b}) \in {a, b}
<1>1. \E x \in {a, b} : \A y \in {a, b} : x >= y
  OBVIOUS
<1> QED
  BY <1>1 DEF Max

LEMMA MinOfTwo ==
  ASSUME NEW a \in Nat, NEW b \in Nat
  PROVE  Min({a, b}) \in Nat /\ Min({a, b}) <= a /\ Min({a, b}) <= b /\ Min({a, b}) \in {a, b}
<1>1. \E x \in {a, b} : \A y \in {a, b} : x <= y
  OBVIOUS
<1> QED
  BY <1>1 DEF Min

\* An operation more leaves the revisions as they were.
LEMMA PrefixOfAppend ==
  ASSUME NEW S, NEW l \in Seq(S), NEW id \in S, NEW r \in Nat, r <= Len(l)
  PROVE  /\ Prefix(Append(l, id), r) = Prefix(l, r)
         /\ OperationsOf(Append(l, id)) = OperationsOf(l) \cup {id}
<1>1. /\ Len(Append(l, id)) = Len(l) + 1 /\ Len(l) \in Nat
      /\ \A i \in 1 .. Len(l) : Append(l, id)[i] = l[i]
      /\ Append(l, id)[Len(l) + 1] = id
  BY AppendProperties, LenProperties
<1>2. Prefix(Append(l, id), r) = Prefix(l, r)
  BY <1>1 DEF Prefix
<1>3. OperationsOf(Append(l, id)) = OperationsOf(l) \cup {id}
  <2>1. 1 .. Len(Append(l, id)) = (1 .. Len(l)) \cup {Len(l) + 1}
    BY <1>1
  <2> QED
    BY <1>1, <2>1 DEF Prefix, OperationsOf
<1> QED
  BY <1>2, <1>3

LEMMA PrefixIncreases ==
  ASSUME NEW l, NEW q \in Nat, NEW r \in Nat, q <= r
  PROVE  Prefix(l, q) \subseteq Prefix(l, r)
  BY DEF Prefix

LEMMA LogAsPrefix ==
  ASSUME TypeOK
  PROVE  /\ log \in Seq(Operations) /\ Revision \in Nat /\ Revision = Len(log)
         /\ DOMAIN log = 1 .. Len(log)
         /\ \A r : Through(r) = Prefix(log, r)
         /\ \A id : InLog(id) <=> id \in OperationsOf(log)
         /\ \A id : InLog(id) => RevisionOf(id) \in 1 .. Revision /\ log[RevisionOf(id)] = id
<1>1. log \in Seq(Operations) /\ Revision = Len(log) /\ Revision \in Nat /\ DOMAIN log = 1 .. Len(log)
  BY LenProperties DEF TypeOK, Revision
<1>2. \A r : Through(r) = Prefix(log, r)
  BY DEF Through, Prefix
<1>3. \A id : InLog(id) <=> id \in OperationsOf(log)
  BY <1>1, <1>2 DEF InLog, OperationsOf
<1>4. ASSUME NEW id, InLog(id)
      PROVE  RevisionOf(id) \in 1 .. Revision /\ log[RevisionOf(id)] = id
  <2>1. \E r \in 1 .. Revision : log[r] = id
    BY <1>4 DEF InLog, Through
  <2> QED
    BY <2>1 DEF RevisionOf
<1> QED
  BY <1>1, <1>2, <1>3, <1>4

\* An entry changes its base or its status, and remains what it is.
LEMMA SameIdsSameOrder ==
  ASSUME NEW q \in Seq(Entry), NEW p \in Seq(Entry), DOMAIN p = DOMAIN q,
         \A i \in DOMAIN q : p[i].id = q[i].id
  PROVE  /\ IdsOf(p) = IdsOf(q)
         /\ \A s : InIssueOrder(q, s) => InIssueOrder(p, s)
  BY DEF IdsOf, InIssueOrder

LEMMA WithoutProperties ==
  ASSUME NEW q \in Seq(Entry), NEW ids
  PROVE  /\ Without(q, ids) \in Seq(Entry)
         /\ IdsOf(Without(q, ids)) = IdsOf(q) \ ids
         /\ \A s : InIssueOrder(q, s) => InIssueOrder(Without(q, ids), s)
<1> DEFINE K == {i \in DOMAIN q : q[i].id \notin ids}
           w == Kept(q, K)
<1>1. K \in SUBSET DOMAIN q
  OBVIOUS
<1>2. Without(q, ids) = w
  BY DEF Without
<1>3. \A k \in DOMAIN q : k \in K <=> q[k].id \notin ids
  OBVIOUS
<1> HIDE DEF K
<1>4. /\ w \in Seq(Entry)
      /\ DOMAIN w = 1 .. Cardinality(K)
      /\ \A i \in 1 .. Cardinality(K) : Nth(K, i) \in K /\ w[i] = q[Nth(K, i)]
      /\ \A i, j \in 1 .. Cardinality(K) : i < j => Nth(K, i) < Nth(K, j)
  BY <1>1, KeptProperties
<1>5. /\ \A i \in DOMAIN w : \E k \in K : w[i] = q[k]
      /\ \A k \in K : \E i \in DOMAIN w : w[i] = q[k]
  BY <1>1, KeptElements
<1> HIDE DEF w
<1>6. IdsOf(w) = IdsOf(q) \ ids
  BY <1>1, <1>3, <1>5 DEF IdsOf
<1>7. ASSUME NEW s, InIssueOrder(q, s) PROVE InIssueOrder(w, s)
  BY <1>1, <1>4, <1>7 DEF InIssueOrder
<1> QED
  BY <1>2, <1>4, <1>6, <1>7

LEMMA RebaseProperties ==
  ASSUME NEW q \in Seq(Entry), NEW r \in Nat
  PROVE  /\ Rebase(q, r) \in Seq(Entry)
         /\ DOMAIN Rebase(q, r) = DOMAIN q
         /\ IdsOf(Rebase(q, r)) = IdsOf(q)
         /\ \A s : InIssueOrder(q, s) => InIssueOrder(Rebase(q, r), s)
<1>1. DOMAIN q = 1 .. Len(q) /\ Len(q) \in Nat /\ \A i \in 1 .. Len(q) : q[i] \in Entry
  BY LenProperties, ElementOfSeq
<1>2. ASSUME NEW i \in 1 .. Len(q)
      PROVE  Rebase(q, r)[i] \in Entry /\ Rebase(q, r)[i].id = q[i].id
  BY <1>1, <1>2 DEF Rebase, Entry
<1>3. DOMAIN Rebase(q, r) = 1 .. Len(q)
  BY <1>1 DEF Rebase
<1>4. Rebase(q, r) \in [1 .. Len(q) -> Entry]
  BY <1>1, <1>2 DEF Rebase
<1>5. Rebase(q, r) \in Seq(Entry)
  BY <1>1, <1>4, SeqDef
<1> QED
  BY <1>1, <1>2, <1>3, <1>5, SameIdsSameOrder
-----------------------------------------------------------------------------
(* The functions of the client keep it sound. *)

\* Fields that no part of Sound speaks of.
LEMMA FlagsKeepSound ==
  ASSUME NEW c, NEW l, NEW s, Sound(c, l, s), NEW d \in Client,
         d.base = c.base, d.remote = c.remote, d.deferred = c.deferred,
         d.committed = c.committed, d.queue = c.queue
  PROVE  Sound(d, l, s)
  BY DEF Sound

LEMMA AcknowledgeSound ==
  ASSUME NEW l \in Seq(Operations), NEW s, NEW c, Sound(c, l, s),
         NEW r \in 1 .. Len(l)
  PROVE  Sound(Acknowledge(c, l[r], r), l, s)
<1> DEFINE id == l[r]
           base == Max({c.base, r})
           rest == Without(c.queue, {id})
<1>1. /\ c \in Client /\ c.base \in Nat /\ r \in Nat /\ Len(l) \in Nat
      /\ id \in Operations /\ c.queue \in Seq(Entry)
  BY LenProperties, ElementOfSeq DEF Sound, Client
<1>2. base \in Nat /\ base >= c.base /\ base >= r /\ base <= Len(l)
  BY <1>1, MaxOfTwo DEF Sound
<1>3. /\ c.committed \subseteq Prefix(l, base)
      /\ id \in Prefix(l, base) /\ Prefix(l, c.base) \subseteq Prefix(l, base)
  <2> HIDE DEF base
  <2>1. c.committed \subseteq Prefix(l, base) /\ Prefix(l, c.base) \subseteq Prefix(l, base)
    BY <1>1, <1>2, PrefixIncreases DEF Sound
  <2>2. r \in 1 .. base
    BY <1>2
  <2> QED
    BY <2>1, <2>2 DEF Prefix
<1>4. /\ Rebase(rest, base) \in Seq(Entry)
      /\ IdsOf(Rebase(rest, base)) = IdsOf(c.queue) \ {id}
      /\ InIssueOrder(Rebase(rest, base), s)
  BY <1>1, <1>2, WithoutProperties, RebaseProperties DEF Sound
<1>5. CASE id \in c.committed \/ ~Pending(c, id)
  <2> DEFINE d == [c EXCEPT !.base = IF id \in c.committed THEN base ELSE @]
  <2>1. Acknowledge(c, id, r) = d
    BY <1>5 DEF Acknowledge
  <2>2. d \in Client
    BY <1>1, <1>2 DEF Client
  <2>3. /\ d.base = (IF id \in c.committed THEN base ELSE c.base)
        /\ d.remote = c.remote /\ d.deferred = c.deferred
        /\ d.committed = c.committed /\ d.queue = c.queue
    BY <1>1 DEF Client
  <2> HIDE DEF d, base
  <2>4. /\ d.base <= Len(l) /\ d.committed \subseteq Prefix(l, d.base)
        /\ Prefix(l, c.base) \subseteq Prefix(l, d.base)
    BY <1>2, <1>3, <2>3 DEF Sound
  <2>5. Sound(d, l, s)
    BY <2>2, <2>3, <2>4 DEF Sound
  <2> QED
    BY <2>1, <2>5
<1>6. CASE ~(id \in c.committed \/ ~Pending(c, id))
  <2> DEFINE q == Rebase(rest, base)
             d == [c EXCEPT !.base = base, !.committed = @ \cup {id}, !.queue = q]
  <2>1. Acknowledge(c, id, r) = d
    BY <1>6 DEF Acknowledge
  <2> HIDE DEF q, base, rest, id
  <2>2. d \in Client
    BY <1>1, <1>2, <1>4 DEF Client, q
  <2>3. /\ d.base = base /\ d.remote = c.remote /\ d.deferred = c.deferred
        /\ d.committed = c.committed \cup {id} /\ d.queue = q
    BY <1>1 DEF Client
  <2> HIDE DEF d
  <2>4. \A i \in DOMAIN s : s[i].id \in IdsOf(q) \cup Prefix(l, base)
    BY <1>3, <1>4 DEF Sound, q
  <2>5. Sound(d, l, s)
    BY <1>2, <1>3, <1>4, <2>2, <2>3, <2>4 DEF Sound, q
  <2> QED
    BY <2>1, <2>5 DEF id
<1> QED
  BY <1>5, <1>6

LEMMA SetRemoteSound ==
  ASSUME NEW l \in Seq(Operations), NEW s, NEW c, Sound(c, l, s),
         NEW r \in 0 .. Len(l)
  PROVE  Sound(SetRemote(c, r), l, s)
<1> DEFINE remote == Max({c.remote, r})
           d == SetRemote(c, r)
<1>1. c \in Client /\ c.remote \in Nat /\ Len(l) \in Nat
  BY LenProperties DEF Sound, Client
<1>2. remote \in Nat /\ remote <= Len(l)
  BY <1>1, MaxOfTwo DEF Sound
<1> HIDE DEF remote
<1>3. d = [c EXCEPT !.remote = remote]
  BY DEF SetRemote, remote
<1>4. /\ d \in Client /\ d.base = c.base /\ d.remote = remote
      /\ d.deferred = c.deferred /\ d.committed = c.committed /\ d.queue = c.queue
  BY <1>1, <1>2, <1>3 DEF Client
<1> HIDE DEF d
<1>5. Sound(d, l, s)
  BY <1>2, <1>4 DEF Sound
<1> QED
  BY <1>5 DEF d

LEMMA HydrateSound ==
  ASSUME TypeOK, NEW s, NEW c, Sound(c, log, s), NEW r \in 0 .. Revision
  PROVE  Sound(Hydrate(c, r), log, s)
<1> DEFINE model == SubSeq(log, 1, r)
           base == Max({c.base, r})
           d == Hydrate(c, r)
<1>1. c \in Client /\ c.base \in Nat /\ r \in Nat /\ Revision \in Nat /\ Revision = Len(log)
  BY LogAsPrefix DEF Sound, Client
<1>2. base \in Nat /\ base >= c.base /\ base <= Len(log)
  BY <1>1, MaxOfTwo DEF Sound
<1>3. model \in Seq(Operations)
  <2>1. \A i \in 1 .. r : log[i] \in Operations
    BY <1>1, LogAsPrefix, ElementOfSeq
  <2> QED
    BY <1>1, <2>1, SubSeqProperties
<1>4. c.committed \subseteq Prefix(log, base) /\ Prefix(log, c.base) \subseteq Prefix(log, base)
  <2> HIDE DEF base
  <2>1. c.base \in Nat /\ base \in Nat /\ c.base <= base
    BY ONLY <1>1, <1>2
  <2>2. Prefix(log, c.base) \subseteq Prefix(log, base)
    BY ONLY <2>1, PrefixIncreases
  <2>3. c.committed \subseteq Prefix(log, c.base)
    BY DEF Sound
  <2> QED
    BY ONLY <2>2, <2>3
<1> HIDE DEF model, base
<1>5. d = [c EXCEPT !.model = model, !.remote = r, !.base = base]
  BY DEF Hydrate, model, base
<1>6. /\ d \in Client /\ d.base = base /\ d.remote = r
      /\ d.deferred = c.deferred /\ d.committed = c.committed /\ d.queue = c.queue
  BY <1>1, <1>2, <1>3, <1>5 DEF Client
<1> HIDE DEF d
<1>7. Sound(d, log, s)
  BY <1>1, <1>2, <1>4, <1>6 DEF Sound
<1> QED
  BY <1>7 DEF d

LEMMA ResynchronizeSound ==
  ASSUME NEW l, NEW s, NEW c, Sound(c, l, s)
  PROVE  Sound(Resynchronize(c), l, s)
<1> DEFINE d == Resynchronize(c)
<1>1. c \in Client
  BY DEF Sound
<1>2. /\ d \in Client /\ d.base = c.base /\ d.remote = c.remote
      /\ d.deferred = c.deferred /\ d.committed = c.committed /\ d.queue = c.queue
  BY <1>1 DEF Resynchronize, Client
<1> HIDE DEF d
<1>3. Sound(d, l, s)
  BY <1>2, FlagsKeepSound
<1> QED
  BY <1>3 DEF d

LEMMA ApplyOtherSound ==
  ASSUME NEW l \in Seq(Operations), NEW s, NEW c, Sound(c, l, s),
         NEW r \in 1 .. Len(l), c.base <= r
  PROVE  Sound(ApplyOther(c, l[r], r), l, s)
<1> DEFINE model == Append(c.model, l[r])
           q == Rebase(c.queue, r)
           committed == c.committed \cup {l[r]}
           d == ApplyOther(c, l[r], r)
<1>1. /\ c \in Client /\ c.base \in Nat /\ r \in Nat /\ Len(l) \in Nat /\ r <= Len(l)
      /\ l[r] \in Operations /\ c.queue \in Seq(Entry) /\ c.model \in Seq(Operations)
  BY LenProperties, ElementOfSeq DEF Sound, Client
<1>2. model \in Seq(Operations)
  BY <1>1, AppendProperties
<1>3. q \in Seq(Entry) /\ IdsOf(q) = IdsOf(c.queue) /\ InIssueOrder(q, s)
  BY <1>1, RebaseProperties DEF Sound
<1>4. /\ committed \subseteq Prefix(l, r) /\ committed \in SUBSET Operations
      /\ Prefix(l, c.base) \subseteq Prefix(l, r)
  BY <1>1, PrefixIncreases DEF Sound, Prefix, Client
<1> HIDE DEF model, q, committed
<1>5. d = [c EXCEPT !.model = model, !.committed = committed, !.base = r, !.queue = q]
  BY DEF ApplyOther, model, q, committed
<1>6. /\ d \in Client /\ d.base = r /\ d.remote = c.remote
      /\ d.deferred = c.deferred /\ d.committed = committed /\ d.queue = q
  BY <1>1, <1>2, <1>3, <1>4, <1>5 DEF Client
<1> HIDE DEF d
<1>7. Sound(d, l, s)
  BY <1>1, <1>3, <1>4, <1>6 DEF Sound
<1> QED
  BY <1>7 DEF d
LEMMA ApplyRevisionSound ==
  ASSUME TypeOK, NEW s, NEW c, Sound(c, log, s), NEW r \in 1 .. Revision
  PROVE  Sound(ApplyRevision(c, r), log, s)
<1> DEFINE id == log[r]
<1>1. log \in Seq(Operations) /\ r \in 1 .. Len(log) /\ r \in 0 .. Len(log)
  BY LogAsPrefix
<1>2. Sound(Resynchronize(c), log, s)
  BY ResynchronizeSound
<1>3. Sound(SetRemote(Acknowledge(c, id, r), r), log, s)
  BY <1>1, AcknowledgeSound, SetRemoteSound
<1>4. CASE r # c.base + 1
  BY <1>2, <1>4 DEF ApplyRevision
<1>5. CASE r = c.base + 1
  <2>1. c.base <= r
    BY <1>1, <1>5 DEF Sound, Client
  <2>2. Sound(SetRemote(ApplyOther(c, id, r), r), log, s)
    BY <1>1, <2>1, ApplyOtherSound, SetRemoteSound
  <2> HIDE DEF id
  <2>3. ApplyRevision(c, r) = CASE r # c.base + 1 -> Resynchronize(c)
       [] r = c.base + 1 /\ id \in c.own -> c
       [] r = c.base + 1 /\ id \notin c.own /\ Pending(c, id) ->
            SetRemote(Acknowledge(c, id, r), r)
       [] OTHER ->
            IF ConflictsWithPending(c, id) THEN Resynchronize(c)
            ELSE SetRemote(ApplyOther(c, id, r), r)
    BY DEF ApplyRevision, id
  <2>4. CASE id \in c.own
    BY <1>5, <2>3, <2>4
  <2>5. CASE id \notin c.own /\ Pending(c, id)
    BY <1>3, <1>5, <2>3, <2>5
  <2>6. CASE id \notin c.own /\ ~Pending(c, id)
    BY <1>2, <1>5, <2>2, <2>3, <2>6
  <2> QED
    BY <2>4, <2>5, <2>6
<1> QED
  BY <1>4, <1>5

LEMMA ReceiveSound ==
  ASSUME TypeOK, NEW s, NEW c, Sound(c, log, s), NEW r \in 1 .. Revision
  PROVE  Sound(Receive(c, r), log, s)
<1>1. CASE c.syncing
  <2> DEFINE deferred == Append(c.deferred, r)
             d == [c EXCEPT !.deferred = deferred]
  <2>1. /\ c \in Client /\ r \in Nat /\ c.deferred \in Seq(Nat) /\ Revision = Len(log)
    BY LogAsPrefix DEF Sound, Client
  <2>2. /\ deferred \in Seq(Nat) /\ Len(deferred) = Len(c.deferred) + 1
        /\ DOMAIN deferred = 1 .. Len(c.deferred) + 1
        /\ \A i \in 1 .. Len(c.deferred) : deferred[i] = c.deferred[i]
        /\ deferred[Len(c.deferred) + 1] = r
        /\ DOMAIN c.deferred = 1 .. Len(c.deferred) /\ Len(c.deferred) \in Nat
    BY <2>1, AppendProperties, LenProperties
  <2> HIDE DEF deferred
  <2>3. \A i \in DOMAIN deferred : deferred[i] \in 1 .. Len(log)
    <3>1. \A i \in 1 .. Len(c.deferred) : c.deferred[i] \in 1 .. Len(log)
      BY <2>2 DEF Sound
    <3>2. r \in 1 .. Len(log)
      BY ONLY r \in 1 .. Revision, <2>1
    <3>3. \A i \in DOMAIN deferred : i \in 1 .. Len(c.deferred) \/ i = Len(c.deferred) + 1
      BY ONLY <2>2
    <3> QED
      BY ONLY <2>2, <3>1, <3>2, <3>3
  <2>4. /\ d \in Client /\ d.base = c.base /\ d.remote = c.remote
        /\ d.deferred = deferred /\ d.committed = c.committed /\ d.queue = c.queue
    BY <2>1, <2>2 DEF Client
  <2> HIDE DEF d
  <2>5. Sound(d, log, s)
    BY <2>3, <2>4 DEF Sound
  <2> QED
    BY <1>1, <2>5 DEF Receive, d, deferred
<1>2. CASE ~c.syncing
  BY <1>2, ApplyRevisionSound DEF Receive
<1> QED
  BY <1>1, <1>2

LEMMA LoadHistorySound ==
  ASSUME TypeOK, NEW s, NEW c, Sound(c, log, s), NEW h \in 0 .. Revision
  PROVE  Sound(LoadHistory(c, h), log, s)
<1> DEFINE applied == Min({h, c.remote})
           q == Without(c.queue, Through(applied))
           base == Max({c.base, applied})
           committed == c.committed \cup Through(applied)
           own == c.own \ (IdsOf(c.queue) \cap Through(h))
           d == LoadHistory(c, h)
<1>1. /\ c \in Client /\ c.base \in Nat /\ c.remote \in Nat /\ h \in Nat
      /\ Revision = Len(log) /\ Revision \in Nat /\ c.queue \in Seq(Entry)
      /\ log \in Seq(Operations)
  BY LogAsPrefix DEF Sound, Client
<1>2. applied \in Nat /\ applied <= Len(log)
  BY <1>1, MinOfTwo
<1> HIDE DEF applied
<1>3. base \in Nat /\ base >= c.base /\ base >= applied /\ base <= Len(log)
  BY <1>1, <1>2, MaxOfTwo DEF Sound
<1> HIDE DEF base
<1>4. /\ q \in Seq(Entry) /\ IdsOf(q) = IdsOf(c.queue) \ Through(applied)
      /\ InIssueOrder(q, s)
  BY <1>1, WithoutProperties DEF Sound
<1>5. Through(applied) = Prefix(log, applied)
  BY LogAsPrefix
<1>6. /\ Prefix(log, applied) \subseteq Prefix(log, base)
      /\ Prefix(log, applied) \subseteq OperationsOf(log)
      /\ Prefix(log, c.base) \subseteq Prefix(log, base)
  BY <1>1, <1>2, <1>3, PrefixIncreases DEF OperationsOf
<1>7. committed \subseteq Prefix(log, base)
  BY <1>5, <1>6 DEF Sound
<1>8. OperationsOf(log) \subseteq Operations
  BY <1>1, ElementOfSeq DEF OperationsOf, Prefix
<1>9. committed \in SUBSET Operations /\ own \in SUBSET OwnOperations
  BY <1>1, <1>5, <1>6, <1>8 DEF Client
<1>10. \A i \in DOMAIN s : s[i].id \in IdsOf(q) \cup Prefix(log, base)
  BY <1>4, <1>5, <1>6 DEF Sound
<1> HIDE DEF q, committed, own
<1>11. d = [c EXCEPT !.queue = q, !.committed = committed, !.base = base, !.own = own]
  BY DEF LoadHistory, q, committed, base, own, applied
<1>12. /\ d \in Client /\ d.base = base /\ d.remote = c.remote
       /\ d.deferred = c.deferred /\ d.committed = committed /\ d.queue = q
  BY <1>1, <1>3, <1>4, <1>9, <1>11 DEF Client
<1> HIDE DEF d
<1>13. Sound(d, log, s)
  BY <1>3, <1>4, <1>7, <1>10, <1>12 DEF Sound
<1> QED
  BY <1>13 DEF d

LEMMA ReplaySound ==
  ASSUME NEW l, NEW s, NEW c, Sound(c, l, s)
  PROVE  Sound(Replay(c), l, s)
<1> DEFINE ids == [i \in DOMAIN c.queue |-> c.queue[i].id]
           model == c.model \o ids
           d == Replay(c)
<1>1. c \in Client /\ c.queue \in Seq(Entry) /\ c.model \in Seq(Operations)
  BY DEF Sound, Client
<1>2. DOMAIN c.queue = 1 .. Len(c.queue) /\ Len(c.queue) \in Nat
  BY <1>1, LenProperties
<1>3. \A i \in 1 .. Len(c.queue) : c.queue[i].id \in Operations
  <2>1. \A i \in 1 .. Len(c.queue) : c.queue[i] \in Entry
    BY <1>1, ElementOfSeq
  <2> QED
    BY <2>1 DEF Entry, Operations
<1>4. ids \in [1 .. Len(c.queue) -> Operations]
  BY <1>2, <1>3
<1>5. ids \in Seq(Operations)
  BY <1>2, <1>4, SeqDef
<1> HIDE DEF ids
<1>6. model \in Seq(Operations)
  BY <1>1, <1>5, ConcatProperties
<1> HIDE DEF model
<1>7. d = [c EXCEPT !.model = model]
  BY DEF Replay, model, ids
<1>8. /\ d \in Client /\ d.base = c.base /\ d.remote = c.remote
      /\ d.deferred = c.deferred /\ d.committed = c.committed /\ d.queue = c.queue
  BY <1>1, <1>6, <1>7 DEF Client
<1> HIDE DEF d
<1>9. Sound(d, l, s)
  BY <1>8, FlagsKeepSound
<1> QED
  BY <1>9 DEF d

LEMMA RejectSound ==
  ASSUME NEW l, NEW s, NEW c, Sound(c, l, s), NEW id
  PROVE  Sound(Reject(c, id), l, s)
<1> DEFINE q == [i \in DOMAIN c.queue |-> IF c.queue[i].id = id
                                          THEN [c.queue[i] EXCEPT !.status = "rejected"]
                                          ELSE c.queue[i]]
           d == Reject(c, id)
<1>1. c \in Client /\ c.queue \in Seq(Entry)
  BY DEF Sound, Client
<1>2. DOMAIN c.queue = 1 .. Len(c.queue) /\ Len(c.queue) \in Nat
  BY <1>1, LenProperties
<1>3. \A i \in 1 .. Len(c.queue) : c.queue[i] \in Entry
  BY <1>1, ElementOfSeq
<1>4. \A i \in 1 .. Len(c.queue) : q[i] \in Entry /\ q[i].id = c.queue[i].id
  BY <1>2, <1>3 DEF Entry
<1>5. q \in [1 .. Len(c.queue) -> Entry] /\ DOMAIN q = DOMAIN c.queue
  BY <1>2, <1>4
<1>6. q \in Seq(Entry)
  BY <1>2, <1>5, SeqDef
<1> HIDE DEF q
<1>7. IdsOf(q) = IdsOf(c.queue) /\ InIssueOrder(q, s)
  BY <1>1, <1>2, <1>4, <1>5, <1>6, SameIdsSameOrder DEF Sound
<1>8. d = [c EXCEPT !.queue = q]
  BY DEF Reject, q
<1>9. /\ d \in Client /\ d.base = c.base /\ d.remote = c.remote
      /\ d.deferred = c.deferred /\ d.committed = c.committed /\ d.queue = q
  BY <1>1, <1>6, <1>8 DEF Client
<1> HIDE DEF d
<1>10. Sound(d, l, s)
  BY <1>7, <1>9 DEF Sound
<1> QED
  BY <1>10 DEF d
-----------------------------------------------------------------------------
(* The revisions that were deferred. *)

\* What Received is defined by, for the first n deferred revisions.
Unfolds(f, c, n) ==
  f = [i \in 0 .. n |->
         IF i = 0 THEN [c EXCEPT !.syncing = FALSE, !.deferred = << >>]
         ELSE Receive(f[i - 1], c.deferred[i])]

LEMMA UnfoldingExists ==
  ASSUME NEW c, NEW n \in Nat
  PROVE  \E f : Unfolds(f, c, n)
<1> DEFINE T == {m \in Nat : ~ \E f : Unfolds(f, c, m)}
           first == [c EXCEPT !.syncing = FALSE, !.deferred = << >>]
<1> SUFFICES ASSUME T # {} PROVE FALSE
  OBVIOUS
<1>1. PICK m \in T : \A k \in T : m <= k
  BY LeastExists
<1>2. m # 0
  <2> HIDE DEF first
  <2> DEFINE f == [i \in 0 .. 0 |-> first]
  <2>1. f = [i \in 0 .. 0 |-> IF i = 0 THEN first ELSE Receive(f[i - 1], c.deferred[i])]
    OBVIOUS
  <2>2. Unfolds(f, c, 0)
    BY <2>1 DEF Unfolds, first
  <2> QED
    BY <2>2
<1>3. PICK g : Unfolds(g, c, m - 1)
  BY <1>1, <1>2
<1> HIDE DEF first
<1> DEFINE f == [i \in 0 .. m |-> IF i = m THEN Receive(g[m - 1], c.deferred[m]) ELSE g[i]]
<1>4. g = [i \in 0 .. m - 1 |-> IF i = 0 THEN first ELSE Receive(g[i - 1], c.deferred[i])]
  BY <1>3 DEF Unfolds, first
<1>5. ASSUME NEW i \in 0 .. m
      PROVE  f[i] = IF i = 0 THEN first ELSE Receive(f[i - 1], c.deferred[i])
  <2>1. CASE i = 0
    BY <1>1, <1>2, <1>4, <2>1
  <2>2. CASE i = m
    <3>1. f[m - 1] = g[m - 1]
      BY <1>1, <1>2
    <3> QED
      BY <1>1, <1>2, <2>2, <3>1
  <2>3. CASE i # 0 /\ i # m
    <3>1. f[i] = g[i] /\ f[i - 1] = g[i - 1]
      BY <1>1, <2>3
    <3>2. g[i] = Receive(g[i - 1], c.deferred[i])
      BY <1>1, <1>4, <2>3
    <3> QED
      BY <2>3, <3>1, <3>2
  <2> QED
    BY <2>1, <2>2, <2>3
<1>6. f = [i \in 0 .. m |-> IF i = 0 THEN first ELSE Receive(f[i - 1], c.deferred[i])]
  BY <1>5
<1>7. Unfolds(f, c, m)
  BY <1>6 DEF Unfolds, first
<1> QED
  BY <1>1, <1>7

LEMMA ReceivedUnfolds ==
  ASSUME NEW c, Len(c.deferred) \in Nat
  PROVE  Unfolds(Received(c), c, Len(c.deferred))
<1>1. \E f : Unfolds(f, c, Len(c.deferred))
  BY UnfoldingExists
<1>2. \E f : f = [i \in 0 .. Len(c.deferred) |->
         IF i = 0 THEN [c EXCEPT !.syncing = FALSE, !.deferred = << >>]
         ELSE Receive(f[i - 1], c.deferred[i])]
  BY <1>1 DEF Unfolds
<1> QED
  BY <1>2 DEF Received, Unfolds

LEMMA ReceiveDeferredSound ==
  ASSUME TypeOK, NEW s, NEW c, Sound(c, log, s)
  PROVE  Sound(ReceiveDeferred(c), log, s)
<1> DEFINE first == [c EXCEPT !.syncing = FALSE, !.deferred = << >>]
           n == Len(c.deferred)
           f == Received(c)
           T == {m \in 0 .. n : ~ Sound(f[m], log, s)}
<1>1. /\ c \in Client /\ c.deferred \in Seq(Nat)
      /\ n \in Nat /\ DOMAIN c.deferred = 1 .. n
      /\ \A i \in 1 .. n : c.deferred[i] \in 1 .. Revision
  BY LogAsPrefix, LenProperties DEF Sound, Client
<1>2. f = [i \in 0 .. n |-> IF i = 0 THEN first ELSE Receive(f[i - 1], c.deferred[i])]
  BY <1>1, ReceivedUnfolds DEF Unfolds
<1>3. Sound(first, log, s)
  <2>1. << >> \in Seq(Nat) /\ DOMAIN << >> = {}
    OBVIOUS
  <2>2. /\ first \in Client /\ first.base = c.base /\ first.remote = c.remote
        /\ first.deferred = << >> /\ first.committed = c.committed /\ first.queue = c.queue
    BY <1>1, <2>1 DEF Client
  <2> HIDE DEF first
  <2> QED
    BY <2>1, <2>2 DEF Sound
<1>4. ASSUME T # {} PROVE FALSE
  <2> HIDE DEF f, first, n
  <2>1. PICK m \in T : \A k \in T : m <= k
    <3>1. T \in SUBSET Nat
      BY <1>1
    <3> HIDE DEF T
    <3> QED
      BY <1>4, <3>1, LeastExists
  <2>2. CASE m = 0
    BY <1>1, <1>2, <1>3, <2>1, <2>2
  <2>3. CASE m # 0
    <3>1. m - 1 \in 0 .. n /\ m - 1 \notin T /\ m \in 1 .. n
      BY <1>1, <2>1, <2>3
    <3>2. Sound(f[m - 1], log, s)
      BY <3>1
    <3>3. Sound(Receive(f[m - 1], c.deferred[m]), log, s)
      BY <1>1, <3>1, <3>2, ReceiveSound
    <3> QED
      BY <1>1, <1>2, <2>1, <2>3, <3>3
  <2> QED
    BY <2>2, <2>3
<1>5. Sound(f[n], log, s)
  BY <1>1, <1>4
<1> QED
  BY <1>5 DEF ReceiveDeferred
-----------------------------------------------------------------------------
(* Sending, and committing. *)

Issue == [id : OwnOperations, seen : SUBSET Operations]

\* What is sent is the oldest operation that is not in the log.
LEMMA SendHeadInOrder ==
  ASSUME NEW l \in Seq(Operations), NEW s \in Seq(Issue), Distinct(s),
         NEW c, Sound(c, l, s), SendHead(c)
  PROVE  /\ Sound(client', l, s)
         /\ request' \in Request \cup {NoRequest}
         /\ request'.stage \in {"posting", "none"}
         /\ request' # NoRequest => SentAfter(request'.id, l, s)
<1> DEFINE q == c.queue
<1>1. /\ c \in Client /\ q \in Seq(Entry) /\ DOMAIN q = 1 .. Len(q) /\ Len(q) \in Nat
      /\ DOMAIN s = 1 .. Len(s) /\ Len(s) \in Nat
  BY LenProperties DEF Sound, Client
<1>2. CASE ~CanSend(c)
  BY <1>2 DEF SendHead, NoRequest
<1>3. CASE CanSend(c)
  <2> DEFINE h == q[1]
             p == [q EXCEPT ![1].status = "sent"]
             own == c.own \cup {h.id}
  <2>1. q # << >> /\ Len(q) >= 1 /\ 1 \in DOMAIN q /\ Head(q) = h /\ h \in Entry
    <3>1. q # << >>
      BY <1>3 DEF CanSend
    <3>2. Len(q) >= 1
      BY <1>1, <3>1, EmptySeq
    <3> QED
      BY <1>1, <3>1, <3>2, ElementOfSeq
  <2>2. /\ client' = [c EXCEPT !.queue[1].status = "sent", !.own = @ \cup {Head(q).id}]
        /\ request' = [stage |-> "posting", id |-> h.id, base |-> h.base, revision |-> 0]
    BY <1>3, <2>1 DEF SendHead
  <2>3. p \in Seq(Entry) /\ DOMAIN p = DOMAIN q /\ \A i \in DOMAIN q : p[i].id = q[i].id
    <3> DEFINE e == [h EXCEPT !.status = "sent"]
    <3>1. e \in Entry /\ e.id = h.id
      BY <2>1 DEF Entry
    <3>2. p = [q EXCEPT ![1] = e]
      BY <1>1, <2>1
    <3> HIDE DEF e, p
    <3> QED
      BY <1>1, <2>1, <3>1, <3>2, ExceptSeq, LenProperties
  <2>4. IdsOf(p) = IdsOf(q) /\ InIssueOrder(p, s)
    BY <1>1, <2>3, SameIdsSameOrder DEF Sound
  <2>5. own \in SUBSET OwnOperations
    BY <1>1, <2>1 DEF Client, Entry
  <2>6. client' = [c EXCEPT !.queue = p, !.own = own]
    BY <1>1, <2>1, <2>2 DEF Client
  <2> HIDE DEF p, own
  <2>7. /\ client' \in Client /\ client'.base = c.base /\ client'.remote = c.remote
        /\ client'.deferred = c.deferred /\ client'.committed = c.committed
        /\ client'.queue = p
    BY <1>1, <2>3, <2>5, <2>6 DEF Client
  <2>8. Sound(client', l, s)
    BY <2>4, <2>7 DEF Sound
  <2>9. request' \in Request /\ request'.stage = "posting" /\ request'.id = h.id
    BY <2>1, <2>2 DEF Entry, Request
  <2>10. EarlierIn(h.id, l, s)
    <3> SUFFICES ASSUME NEW j \in DOMAIN s, s[j].id = h.id, NEW i \in 1 .. j - 1,
                        s[i].id \notin OperationsOf(l)
                 PROVE  FALSE
      BY DEF EarlierIn
    <3>1. i \in DOMAIN s /\ i < j
      BY <1>1
    <3>2. PICK m \in DOMAIN q : q[m].id = s[i].id
      <4>1. c.base \in Nat /\ c.base <= Len(l) /\ Len(l) \in Nat
        BY <1>1, LenProperties DEF Sound, Client
      <4>2. Prefix(l, c.base) \subseteq OperationsOf(l)
        BY <4>1, PrefixIncreases DEF OperationsOf
      <4> QED
        BY <3>1, <4>2 DEF Sound, IdsOf
    <3>3. m # 1
      BY <3>1, <3>2 DEF Distinct
    <3>4. PICK a, b \in DOMAIN s : a < b /\ s[a].id = h.id /\ s[b].id = q[m].id
      <4>1. 1 < m
        BY <1>1, <3>2, <3>3
      <4>2. InIssueOrder(q, s)
        BY DEF Sound
      <4> QED
        BY <2>1, <3>2, <4>1, <4>2 DEF InIssueOrder
    <3>5. a = j /\ b = i
      BY <3>1, <3>2, <3>4 DEF Distinct
    <3> QED
      BY <1>1, <3>1, <3>4, <3>5
  <2>11. \E j \in DOMAIN s : s[j].id = h.id
    BY <2>1 DEF Sound, InIssueOrder
  <2> QED
    BY <2>8, <2>9, <2>10, <2>11 DEF SentAfter
<1> QED
  BY <1>2, <1>3

LEMMA FlushAllInOrder ==
  ASSUME NEW l \in Seq(Operations), NEW s \in Seq(Issue), Distinct(s),
         request \in Request \cup {NoRequest},
         NEW c, Sound(c, l, s), FlushAll(c)
  PROVE  /\ Sound(client', l, s)
         /\ \/ request' = request
            \/ /\ request' \in Request \cup {NoRequest}
               /\ request'.stage \in {"posting", "none"}
               /\ request' # NoRequest => SentAfter(request'.id, l, s)
  BY SendHeadInOrder DEF FlushAll

\* A log with one operation more: everything said of the one before remains true.
LEMMA SoundOfAppend ==
  ASSUME NEW l \in Seq(Operations), NEW id \in Operations, NEW s, NEW c, Sound(c, l, s)
  PROVE  Sound(c, Append(l, id), s)
<1>1. /\ c.base \in Nat /\ Len(l) \in Nat /\ Len(Append(l, id)) = Len(l) + 1 /\ c.remote \in Nat
  BY LenProperties, AppendProperties DEF Sound, Client
<1>2. /\ Prefix(Append(l, id), c.base) = Prefix(l, c.base)
      /\ OperationsOf(Append(l, id)) = OperationsOf(l) \cup {id}
  BY <1>1, PrefixOfAppend DEF Sound
<1> QED
  BY <1>1, <1>2 DEF Sound

LEMMA EarlierOfAppend ==
  ASSUME NEW l \in Seq(Operations), NEW id \in Operations, NEW s, NEW x, SentAfter(x, l, s)
  PROVE  SentAfter(x, Append(l, id), s)
<1>1. 0 \in Nat /\ 0 <= Len(l)
  BY LenProperties
<1>2. OperationsOf(Append(l, id)) = OperationsOf(l) \cup {id}
  BY <1>1, PrefixOfAppend
<1> QED
  BY <1>2 DEF SentAfter, EarlierIn

\* A commit after those of the operations issued earlier.
LEMMA CommitKeepsOrder ==
  ASSUME IInv, NEW id \in Operations, ~InLog(id), AppendToLog(id),
         id \in OwnOperations => SentAfter(id, log, issued),
         UNCHANGED <<client, issued, loads>>
  PROVE  /\ log' = Append(log, id) /\ log' \in Seq(Operations)
         /\ Len(log') = Len(log) + 1 /\ Len(log) \in Nat
         /\ \A r \in 1 .. Len(log) : log'[r] = log[r]
         /\ log'[Len(log) + 1] = id
         /\ unsent' \subseteq 1 .. Revision'
         /\ CommittedOnce'
         /\ Sound(client', log', issued')
         /\ LoadsReadThePast'
         /\ CommittedInOrder'
         /\ OwnWereIssued(log', issued')
         /\ \A x : SentAfter(x, log, issued) => SentAfter(x, log', issued')
<1> USE DEF IInv
<1>1. /\ log \in Seq(Operations) /\ Revision \in Nat /\ Revision = Len(log)
      /\ DOMAIN log = 1 .. Len(log)
      /\ \A x : InLog(x) <=> x \in OperationsOf(log)
      /\ \A x : InLog(x) => RevisionOf(x) \in 1 .. Revision /\ log[RevisionOf(x)] = x
  BY LogAsPrefix
<1>2. log' = Append(log, id) /\ unsent' = unsent \cup {Revision + 1}
  BY DEF AppendToLog
<1>3. /\ log' \in Seq(Operations) /\ Len(log') = Len(log) + 1
      /\ \A r \in 1 .. Len(log) : log'[r] = log[r]
      /\ log'[Len(log) + 1] = id /\ DOMAIN log' = 1 .. Len(log) + 1 /\ Revision' = Len(log) + 1
  BY <1>1, <1>2, AppendProperties, LenProperties DEF Revision
<1>4. unsent' \subseteq 1 .. Revision'
  <2>1. unsent \subseteq 1 .. Revision
    BY DEF TypeOK
  <2>2. 1 .. Revision \subseteq 1 .. Len(log) + 1 /\ Revision + 1 \in 1 .. Len(log) + 1
    BY <1>1
  <2>3. unsent' = unsent \cup {Revision + 1} /\ Revision' = Len(log) + 1
    BY <1>2, <1>3
  <2> HIDE DEF IInv
  <2> QED
    BY <2>1, <2>2, <2>3
<1>5. \A r \in 1 .. Len(log) : log[r] # id
  BY <1>1 DEF OperationsOf, Prefix
<1>6. CommittedOnce'
  <2> SUFFICES ASSUME NEW i \in DOMAIN log', NEW j \in DOMAIN log', log'[i] = log'[j]
               PROVE  i = j
    BY DEF CommittedOnce
  <2>1. CASE i \in 1 .. Len(log) /\ j \in 1 .. Len(log)
    BY <1>1, <1>3, <2>1 DEF CommittedOnce
  <2>2. CASE i = Len(log) + 1 /\ j = Len(log) + 1
    BY <2>2
  <2>3. CASE i \in 1 .. Len(log) /\ j = Len(log) + 1
    BY <1>3, <1>5, <2>3
  <2>4. CASE i = Len(log) + 1 /\ j \in 1 .. Len(log)
    BY <1>3, <1>5, <2>4
  <2> QED
    BY <1>1, <1>3, <2>1, <2>2, <2>3, <2>4
<1>7. Sound(client', log', issued')
  BY <1>1, <1>2, SoundOfAppend
<1>8. LoadsReadThePast'
  BY <1>1, <1>3 DEF LoadsReadThePast, TypeOK, Load
<1>9. \A x : SentAfter(x, log, issued) => SentAfter(x, log', issued')
  BY <1>1, <1>2, EarlierOfAppend
<1>10. \A x : InLog(x)' <=> InLog(x) \/ x = id
  BY <1>1, <1>3 DEF InLog, Through, OperationsOf, Prefix
<1>11. ASSUME NEW x, InLog(x) PROVE RevisionOf(x)' = RevisionOf(x) /\ RevisionOf(x) \in 1 .. Len(log)
  <2>1. RevisionOf(x) \in 1 .. Len(log) /\ log[RevisionOf(x)] = x
    BY <1>1, <1>11
  <2>2. RevisionOf(x) \in 1 .. Revision' /\ log'[RevisionOf(x)] = x
    BY <1>1, <1>3, <2>1
  <2>3. RevisionOf(x)' \in 1 .. Revision' /\ log'[RevisionOf(x)'] = x
    <3>1. \E r \in 1 .. Revision' : log'[r] = x
      BY <2>2
    <3> QED
      BY <3>1 DEF RevisionOf
  <2> QED
    BY <1>3, <1>6, <2>1, <2>2, <2>3 DEF CommittedOnce
<1>12. RevisionOf(id)' = Len(log) + 1
  <2>1. \E r \in 1 .. Revision' : log'[r] = id
    BY <1>1, <1>3
  <2>2. RevisionOf(id)' \in 1 .. Revision' /\ log'[RevisionOf(id)'] = id
    BY <2>1 DEF RevisionOf
  <2> QED
    BY <1>1, <1>3, <1>5, <2>2
<1>13. CommittedInOrder'
  <2> SUFFICES ASSUME NEW i \in DOMAIN issued, NEW j \in DOMAIN issued, i < j, InLog(issued[j].id)'
               PROVE  InLog(issued[i].id)' /\ RevisionOf(issued[i].id)' < RevisionOf(issued[j].id)'
    BY DEF CommittedInOrder
  <2>1. CASE InLog(issued[j].id)
    <3>1. InLog(issued[i].id) /\ RevisionOf(issued[i].id) < RevisionOf(issued[j].id)
      BY <2>1 DEF CommittedInOrder
    <3> QED
      BY <1>10, <1>11, <2>1, <3>1
  <2>2. CASE issued[j].id = id
    <3>1. DOMAIN issued = 1 .. Len(issued) /\ Len(issued) \in Nat
      BY LenProperties DEF TypeOK
    <3>2. InLog(issued[i].id)
      <4>1. issued[j] \in [id : OwnOperations, seen : SUBSET Operations]
        BY ElementOfSeq, <3>1 DEF TypeOK
      <4> QED
        BY <1>1, <2>2, <3>1, <4>1 DEF SentAfter, EarlierIn
    <3> QED
      BY <1>1, <1>10, <1>11, <1>12, <2>2, <3>2
  <2> QED
    BY <1>10, <2>1, <2>2
<1>14. OwnWereIssued(log', issued')
  BY <1>1, <1>3 DEF OwnWereIssued, SentAfter
<1> QED
  BY <1>1, <1>2, <1>3, <1>4, <1>6, <1>7, <1>8, <1>9, <1>13, <1>14
-----------------------------------------------------------------------------
(* The steps that neither commit nor issue an operation. *)

GoodRequest(r) ==
  /\ r \in Request \cup {NoRequest}
  /\ r.stage \in {"committed", "acknowledged"} =>
       r.revision \in DOMAIN log /\ log[r.revision] = r.id
  /\ r # NoRequest => SentAfter(r.id, log, issued)

GoodLate(r) == r \in [id : OwnOperations, base : Nat] /\ SentAfter(r.id, log, issued)

GoodLoad(x) == x \in Load /\ x.hydrated <= Revision /\ x.history <= Revision

LEMMA PartsAreGood ==
  ASSUME IInv
  PROVE  /\ GoodRequest(request)
         /\ \A r \in late : GoodLate(r)
         /\ loads \in [Connections -> Load] /\ \A k \in Connections : GoodLoad(loads[k])
<1> USE DEF IInv
<1>1. GoodRequest(request)
  <2>1. request # NoRequest => request.id \in Sent
    BY DEF Sent
  <2> QED
    BY <2>1 DEF GoodRequest, TypeOK, AnswerIsCommitted, SentInOrder
<1>2. \A r \in late : GoodLate(r)
  <2>1. \A r \in late : r.id \in Sent
    BY DEF Sent
  <2> QED
    BY <2>1 DEF GoodLate, TypeOK, SentInOrder
<1>3. loads \in [Connections -> Load] /\ \A k \in Connections : GoodLoad(loads[k])
  BY DEF GoodLoad, TypeOK, LoadsReadThePast
<1> QED
  BY <1>1, <1>2, <1>3

LEMMA QuietStep ==
  ASSUME IInv, log' = log, issued' = issued, unsent' \subseteq unsent,
         Sound(client', log, issued),
         GoodRequest(request'),
         \A r \in late' : GoodLate(r),
         loads' \in [Connections -> Load], \A k \in Connections : GoodLoad(loads'[k]),
         opened' \in 0 .. MaxConnections,
         races' \subseteq {"skips", "missed", "passes", "overlap", "closed"}
  PROVE  IInv'
<1>1. TypeOK'
  BY DEF IInv, TypeOK, Revision, Sound, GoodRequest, GoodLate
<1>2. CommittedOnce' /\ Distinct(issued)' /\ OwnWereIssued(log, issued)'
  BY DEF IInv, CommittedOnce
<1>7. CommittedInOrder'
  BY DEF IInv, CommittedInOrder, InLog, Through, Revision, RevisionOf
<1>3. Sound(client, log, issued)'
  OBVIOUS
<1>4. AnswerIsCommitted'
  BY DEF GoodRequest, AnswerIsCommitted
<1>5. LoadsReadThePast'
  BY DEF GoodLoad, LoadsReadThePast, Revision
<1>6. SentInOrder'
  BY DEF SentInOrder, Sent, GoodRequest, GoodLate
<1> QED
  BY <1>1, <1>2, <1>3, <1>4, <1>5, <1>6, <1>7 DEF IInv

\* Where the client alone changes.
LEMMA ClientStep ==
  ASSUME IInv, UNCHANGED <<log, unsent, request, late, loads, opened, issued>>,
         Sound(client', log, issued),
         races' \subseteq {"skips", "missed", "passes", "overlap", "closed"}
  PROVE  IInv'
<1>1. /\ GoodRequest(request') /\ \A r \in late' : GoodLate(r)
      /\ loads' \in [Connections -> Load] /\ \A k \in Connections : GoodLoad(loads'[k])
  BY PartsAreGood
<1>2. opened' \in 0 .. MaxConnections
  BY DEF IInv, TypeOK
<1> QED
  BY <1>1, <1>2, QuietStep

\* Where it changes with one load.
LEMMA LoadStep ==
  ASSUME IInv, UNCHANGED <<log, unsent, request, late, opened, issued>>,
         Sound(client', log, issued),
         NEW k \in Connections, NEW x, GoodLoad(x), loads' = [loads EXCEPT ![k] = x],
         races' \subseteq {"skips", "missed", "passes", "overlap", "closed"}
  PROVE  IInv'
<1>1. GoodRequest(request') /\ \A r \in late' : GoodLate(r)
  BY PartsAreGood
<1>2. loads' \in [Connections -> Load] /\ \A j \in Connections : GoodLoad(loads'[j])
  BY PartsAreGood DEF GoodLoad
<1>3. opened' \in 0 .. MaxConnections
  BY DEF IInv, TypeOK
<1> QED
  BY <1>1, <1>2, <1>3, QuietStep

LEMMA RacesTyped ==
  ASSUME TypeOK
  PROVE  /\ races \subseteq {"skips", "missed", "passes", "overlap", "closed"}
         /\ \A r : RacesOf(r) \cup PassesOver(r - 1) \cup PassesOver(r) \subseteq
                     {"skips", "missed", "passes", "overlap", "closed"}
  BY DEF TypeOK, RacesOf, PassesOver

\* What the page no longer counts as its own is not part of Sound.
LEMMA DisownSound ==
  ASSUME NEW l, NEW s, NEW c, Sound(c, l, s), NEW id
  PROVE  Sound([c EXCEPT !.own = @ \ {id}], l, s)
<1> DEFINE d == [c EXCEPT !.own = @ \ {id}]
<1>1. c \in Client
  BY DEF Sound
<1>2. /\ d \in Client /\ d.base = c.base /\ d.remote = c.remote
      /\ d.deferred = c.deferred /\ d.committed = c.committed /\ d.queue = c.queue
  BY <1>1 DEF Client
<1> HIDE DEF d
<1>3. Sound(d, l, s)
  BY <1>2, FlagsKeepSound
<1> QED
  BY <1>3 DEF d

-----------------------------------------------------------------------------
(* Each action preserves the invariant. *)

LEMMA EditKeepsInv ==
  ASSUME IInv, NEW id \in OwnOperations, Edit(id)
  PROVE  IInv'
<1> DEFINE e == [id |-> id, seen |-> ToSet(client.model)]
           s == Append(issued, e)
           entry == [id |-> id, base |-> client.base, status |-> "pending"]
           q == Append(client.queue, entry)
           model == Append(client.model, id)
           own == client.own \cup {id}
           c == [client EXCEPT !.model = model, !.queue = q, !.own = own]
<1>1. /\ log' = log /\ unsent' = unsent /\ late' = late /\ loads' = loads
      /\ opened' = opened /\ races' = races /\ issued' = s
      /\ id \notin {issued[i].id : i \in DOMAIN issued}
      /\ FlushAll(c)
  BY DEF Edit
<1>2. /\ client \in Client /\ Sound(client, log, issued) /\ log \in Seq(Operations)
      /\ issued \in Seq(Issue) /\ Distinct(issued) /\ id \in Operations
      /\ request \in Request \cup {NoRequest}
  BY DEF IInv, TypeOK, Issue, Operations
<1>3. client.queue \in Seq(Entry) /\ client.model \in Seq(Operations) /\ client.base \in Nat
  BY <1>2 DEF Client
<1>4. e \in Issue
  <2>1. ToSet(client.model) \subseteq Operations
    BY <1>3, ElementOfSeq, LenProperties DEF ToSet
  <2> QED
    BY <2>1 DEF Issue
<1>5. entry \in Entry
  BY <1>3 DEF Entry
<1>6. /\ s \in Seq(Issue) /\ DOMAIN s = 1 .. Len(issued) + 1
      /\ \A i \in 1 .. Len(issued) : s[i] = issued[i]
      /\ s[Len(issued) + 1].id = id
      /\ DOMAIN issued = 1 .. Len(issued) /\ Len(issued) \in Nat
  <2>1. s[Len(issued) + 1] = e /\ e.id = id
    BY <1>2, <1>4, AppendProperties
  <2> HIDE DEF e
  <2> QED
    BY <1>2, <1>4, <2>1, AppendProperties, LenProperties
<1>7. /\ q \in Seq(Entry) /\ DOMAIN q = 1 .. Len(client.queue) + 1
      /\ \A i \in 1 .. Len(client.queue) : q[i] = client.queue[i]
      /\ q[Len(client.queue) + 1].id = id
      /\ DOMAIN client.queue = 1 .. Len(client.queue) /\ Len(client.queue) \in Nat
  <2>1. q[Len(client.queue) + 1] = entry /\ entry.id = id
    BY <1>3, <1>5, AppendProperties
  <2> HIDE DEF entry
  <2> QED
    BY <1>3, <1>5, <2>1, AppendProperties, LenProperties
<1>8. model \in Seq(Operations)
  BY <1>2, <1>3, AppendProperties
<1>9. own \in SUBSET OwnOperations
  BY <1>2 DEF Client
<1> HIDE DEF s, q, model, own
<1>10. Distinct(s)
  BY <1>1, <1>2, <1>6 DEF Distinct
<1>11. InIssueOrder(q, s)
  <2>1. InIssueOrder(client.queue, issued)
    BY <1>2 DEF Sound
  <2>2. ASSUME NEW m \in DOMAIN q PROVE \E i \in DOMAIN s : s[i].id = q[m].id
    <3>1. CASE m \in DOMAIN client.queue
      <4>1. PICK i \in DOMAIN issued : issued[i].id = client.queue[m].id
        BY <2>1, <3>1 DEF InIssueOrder
      <4> QED
        BY <1>6, <1>7, <3>1, <4>1
    <3>2. CASE m = Len(client.queue) + 1
      BY <1>6, <1>7, <3>2
    <3> QED
      BY <1>7, <3>1, <3>2
  <2>3. ASSUME NEW m \in DOMAIN q, NEW n \in DOMAIN q, m < n
        PROVE  \E i, j \in DOMAIN s : i < j /\ s[i].id = q[m].id /\ s[j].id = q[n].id
    <3>1. m \in DOMAIN client.queue /\ q[m] = client.queue[m]
      BY <1>7, <2>3
    <3>2. CASE n \in DOMAIN client.queue
      <4>1. PICK i, j \in DOMAIN issued :
              i < j /\ issued[i].id = client.queue[m].id /\ issued[j].id = client.queue[n].id
        BY <2>1, <2>3, <3>1, <3>2 DEF InIssueOrder
      <4>2. i \in DOMAIN s /\ j \in DOMAIN s /\ s[i] = issued[i] /\ s[j] = issued[j]
        BY <1>6
      <4> QED
        BY <1>7, <3>1, <3>2, <4>1, <4>2
    <3>3. CASE n = Len(client.queue) + 1
      <4>1. PICK i \in DOMAIN issued : issued[i].id = client.queue[m].id
        BY <2>1, <3>1 DEF InIssueOrder
      <4>2. i \in DOMAIN s /\ s[i] = issued[i] /\ i < Len(issued) + 1
            /\ Len(issued) + 1 \in DOMAIN s
        BY <1>6
      <4> QED
        BY <1>6, <1>7, <3>1, <3>3, <4>1, <4>2
    <3> QED
      BY <1>7, <3>2, <3>3
  <2> QED
    BY <2>2, <2>3 DEF InIssueOrder
<1>12. \A i \in DOMAIN s : s[i].id \in IdsOf(q) \cup Prefix(log, client.base)
  <2>1. IdsOf(q) = IdsOf(client.queue) \cup {id}
    BY <1>7 DEF IdsOf
  <2> QED
    BY <1>2, <1>6, <2>1 DEF Sound
<1>13. /\ c \in Client /\ c.base = client.base /\ c.remote = client.remote
       /\ c.deferred = client.deferred /\ c.committed = client.committed /\ c.queue = q
  BY <1>2, <1>7, <1>8, <1>9 DEF Client
<1> HIDE DEF c
<1>14. Sound(c, log, s)
  BY <1>2, <1>11, <1>12, <1>13 DEF Sound
<1>15. /\ Sound(client', log, s)
       /\ \/ request' = request
          \/ /\ request' \in Request \cup {NoRequest}
             /\ request'.stage \in {"posting", "none"}
             /\ request' # NoRequest => SentAfter(request'.id, log, s)
  BY <1>1, <1>2, <1>6, <1>10, <1>14, FlushAllInOrder
<1>16. ASSUME NEW x, SentAfter(x, log, issued) PROVE SentAfter(x, log, s)
  <2>1. PICK j \in DOMAIN issued : issued[j].id = x
    BY <1>16 DEF SentAfter
  <2>2. j \in DOMAIN s /\ s[j].id = x /\ x # id
    BY <1>1, <1>6, <2>1
  <2>3. EarlierIn(x, log, s)
    BY <1>6, <1>16, <2>2 DEF SentAfter, EarlierIn
  <2> QED
    BY <2>2, <2>3 DEF SentAfter
<1>17. TypeOK'
  BY <1>1, <1>2, <1>6, <1>15 DEF IInv, TypeOK, Revision, Sound, Issue
<1>18. SentInOrder'
  <2>1. \A x \in Sent : SentAfter(x, log, s)
    BY <1>16 DEF IInv, SentInOrder
  <2>2. \A x \in Sent' : SentAfter(x, log, s)
    BY <1>1, <1>15, <2>1 DEF Sent
  <2> QED
    BY <1>1, <2>2 DEF SentInOrder
<1>19. CommittedOnce' /\ AnswerIsCommitted' /\ LoadsReadThePast'
  BY <1>1, <1>15 DEF IInv, CommittedOnce, AnswerIsCommitted, LoadsReadThePast, Revision
<1>20. ~InLog(id)
  <2>1. \A r \in DOMAIN log : log[r] # id
    BY <1>1 DEF IInv, OwnWereIssued
  <2> QED
    BY <2>1, LogAsPrefix DEF IInv, OperationsOf, Prefix
<1>21. CommittedInOrder'
  <2> SUFFICES ASSUME NEW i \in DOMAIN s, NEW j \in DOMAIN s, i < j, InLog(s[j].id)
               PROVE  InLog(s[i].id) /\ RevisionOf(s[i].id) < RevisionOf(s[j].id)
    BY <1>1 DEF CommittedInOrder, InLog, RevisionOf, Through, Revision
  <2>1. j # Len(issued) + 1
    BY <1>6, <1>20
  <2>2. i \in DOMAIN issued /\ j \in DOMAIN issued /\ s[i] = issued[i] /\ s[j] = issued[j]
    BY <1>6, <2>1
  <2> QED
    BY <2>2 DEF IInv, CommittedInOrder
<1>22. OwnWereIssued(log, s)
  <2>1. \A j \in DOMAIN issued : j \in DOMAIN s /\ s[j] = issued[j]
    BY <1>6
  <2> QED
    BY <2>1 DEF IInv, OwnWereIssued
<1> QED
  BY <1>1, <1>10, <1>15, <1>17, <1>18, <1>19, <1>21, <1>22 DEF IInv
\* Where a request may be sent.
LEMMA SendingStep ==
  ASSUME IInv, UNCHANGED <<log, unsent, late, opened, issued>>,
         Sound(client', log, issued),
         \/ request' = request
         \/ /\ request' \in Request \cup {NoRequest}
            /\ request'.stage \in {"posting", "none"}
            /\ request' # NoRequest => SentAfter(request'.id, log, issued),
         loads' \in [Connections -> Load], \A k \in Connections : GoodLoad(loads'[k]),
         races' \subseteq {"skips", "missed", "passes", "overlap", "closed"}
  PROVE  IInv'
<1>1. GoodRequest(request') /\ \A r \in late' : GoodLate(r)
  BY PartsAreGood DEF GoodRequest
<1>2. opened' \in 0 .. MaxConnections
  BY DEF IInv, TypeOK
<1> QED
  BY <1>1, <1>2, QuietStep

LEMMA FlushPendingKeepsInv ==
  ASSUME IInv, FlushPending \/ SendNext
  PROVE  IInv'
<1>1. /\ SendHead(client) /\ UNCHANGED <<log, unsent, late, loads, opened, issued, races>>
  BY DEF FlushPending, SendNext
<1>2. /\ log \in Seq(Operations) /\ issued \in Seq(Issue) /\ Distinct(issued)
      /\ Sound(client, log, issued)
  BY DEF IInv, TypeOK, Issue
<1>3. /\ Sound(client', log, issued)
      /\ request' \in Request \cup {NoRequest}
      /\ request'.stage \in {"posting", "none"}
      /\ request' # NoRequest => SentAfter(request'.id, log, issued)
  BY <1>1, <1>2, SendHeadInOrder
<1>4. races' \subseteq {"skips", "missed", "passes", "overlap", "closed"}
  BY <1>1, RacesTyped DEF IInv
<1> QED
  BY <1>1, <1>3, <1>4, PartsAreGood, SendingStep

LEMMA ServerHandlesKeepsInv ==
  ASSUME IInv, ServerHandles
  PROVE  IInv'
<1>1. /\ request \in Request /\ request.stage = "posting"
      /\ UNCHANGED <<client, late, loads, opened, issued, races>>
      /\ SentAfter(request.id, log, issued) /\ request.id \in OwnOperations
      /\ Revision \in Nat /\ Revision = Len(log)
  <2>1. request.stage = "posting"
    BY DEF ServerHandles
  <2>2. request # NoRequest
    BY <2>1 DEF NoRequest
  <2> QED
    BY <2>1, <2>2, PartsAreGood, LogAsPrefix DEF ServerHandles, GoodRequest, IInv, Request
<1>2. CASE ~Accepts(request.id, request.base)
  <2>1. request' = [request EXCEPT !.stage = "refused"] /\ log' = log /\ unsent' = unsent
    BY <1>2 DEF ServerHandles
  <2>2. GoodRequest(request')
    BY <1>1, <2>1 DEF GoodRequest, Request
  <2>3. Sound(client', log, issued) /\ opened' \in 0 .. MaxConnections
    BY <1>1 DEF IInv, TypeOK
  <2> QED
    BY <1>1, <2>1, <2>2, <2>3, PartsAreGood, RacesTyped, QuietStep DEF IInv
<1>3. CASE Accepts(request.id, request.base)
  <2>1. /\ AppendToLog(request.id) /\ ~InLog(request.id)
        /\ request' = [request EXCEPT !.stage = "committed", !.revision = Revision + 1]
    BY <1>3 DEF ServerHandles, Accepts
  <2>2. /\ log' \in Seq(Operations) /\ Len(log') = Len(log) + 1 /\ Len(log) \in Nat
        /\ log'[Len(log) + 1] = request.id /\ unsent' \subseteq 1 .. Revision'
        /\ CommittedOnce' /\ Sound(client', log', issued') /\ LoadsReadThePast'
        /\ CommittedInOrder' /\ OwnWereIssued(log', issued')
        /\ \A x : SentAfter(x, log, issued) => SentAfter(x, log', issued')
    BY <1>1, <2>1, CommitKeepsOrder DEF Operations
  <2>3. /\ request' \in Request /\ request'.id = request.id
        /\ request'.revision = Len(log) + 1
    <3> DEFINE next == Revision + 1
    <3>1. next \in Nat /\ next = Len(log) + 1
      BY <1>1
    <3> HIDE DEF next
    <3>2. request' = [request EXCEPT !.stage = "committed", !.revision = next]
      BY <2>1 DEF next
    <3> QED
      BY <1>1, <3>1, <3>2 DEF Request
  <2>4. AnswerIsCommitted'
    <3>1. Len(log) + 1 \in DOMAIN log'
      BY <2>2, LenProperties
    <3> QED
      BY <2>2, <2>3, <3>1 DEF AnswerIsCommitted
  <2>5. SentInOrder'
    <3>1. Sent' \subseteq Sent
      BY <1>1, <2>3 DEF Sent, NoRequest, Request
    <3> QED
      BY <2>2, <3>1 DEF SentInOrder, IInv
  <2>6. TypeOK'
    BY <1>1, <2>2, <2>3 DEF TypeOK, IInv
  <2> QED
    BY <1>1, <2>2, <2>4, <2>5, <2>6 DEF IInv
<1> QED
  BY <1>2, <1>3

LEMMA ServerHandlesLateKeepsInv ==
  ASSUME IInv, ServerHandlesLate
  PROVE  IInv'
<1>1. PICK r \in late :
        /\ Accepts(r.id, r.base) /\ AppendToLog(r.id) /\ late' = late \ {r}
        /\ UNCHANGED <<client, request, loads, opened, issued, races>>
  BY DEF ServerHandlesLate
<1>2. SentAfter(r.id, log, issued) /\ r.id \in OwnOperations /\ ~InLog(r.id)
  BY <1>1, PartsAreGood DEF GoodLate, Accepts
<1>3. /\ log' \in Seq(Operations) /\ Len(log') = Len(log) + 1 /\ Len(log) \in Nat
      /\ \A i \in 1 .. Len(log) : log'[i] = log[i]
      /\ unsent' \subseteq 1 .. Revision'
      /\ CommittedOnce' /\ Sound(client', log', issued') /\ LoadsReadThePast'
      /\ CommittedInOrder' /\ OwnWereIssued(log', issued')
      /\ \A x : SentAfter(x, log, issued) => SentAfter(x, log', issued')
  BY <1>1, <1>2, CommitKeepsOrder DEF Operations
<1>4. AnswerIsCommitted'
  BY <1>1, <1>3, LenProperties DEF IInv, TypeOK, AnswerIsCommitted
<1>5. SentInOrder'
  <2>1. Sent' \subseteq Sent
    BY <1>1 DEF Sent
  <2> QED
    BY <1>3, <2>1 DEF SentInOrder, IInv
<1>6. TypeOK'
  BY <1>1, <1>3 DEF TypeOK, IInv
<1> QED
  BY <1>1, <1>3, <1>4, <1>5, <1>6 DEF IInv

LEMMA OtherCommitsKeepsInv ==
  ASSUME IInv, NEW id \in OtherOperations, OtherCommits(id)
  PROVE  IInv'
<1>1. /\ ~InLog(id) /\ AppendToLog(id)
      /\ UNCHANGED <<client, request, late, loads, opened, issued, races>>
  BY DEF OtherCommits
<1>2. id \in Operations /\ id \notin OwnOperations
  BY OperationsAssumption DEF Operations
<1>3. /\ log' \in Seq(Operations) /\ Len(log') = Len(log) + 1 /\ Len(log) \in Nat
      /\ \A i \in 1 .. Len(log) : log'[i] = log[i]
      /\ unsent' \subseteq 1 .. Revision'
      /\ CommittedOnce' /\ Sound(client', log', issued') /\ LoadsReadThePast'
      /\ CommittedInOrder' /\ OwnWereIssued(log', issued')
      /\ \A x : SentAfter(x, log, issued) => SentAfter(x, log', issued')
  BY <1>1, <1>2, CommitKeepsOrder
<1>4. AnswerIsCommitted'
  BY <1>1, <1>3, LenProperties DEF IInv, TypeOK, AnswerIsCommitted
<1>5. SentInOrder'
  BY <1>1, <1>3 DEF SentInOrder, Sent, IInv
<1>6. TypeOK'
  BY <1>1, <1>3 DEF TypeOK, IInv
<1> QED
  BY <1>1, <1>3, <1>4, <1>5, <1>6 DEF IInv

LEMMA AcknowledgedKeepsInv ==
  ASSUME IInv, Acknowledged
  PROVE  IInv'
<1> DEFINE r == request.revision
           c == Acknowledge(SetRemote(client, r), request.id, r)
<1>1. /\ request.stage = "committed" /\ client' = [c EXCEPT !.own = @ \ {request.id}]
      /\ request' = [request EXCEPT !.stage = "acknowledged"]
      /\ races' = races \cup RacesOf(r) \cup PassesOver(r - 1)
      /\ UNCHANGED <<log, unsent, late, loads, opened, issued>>
  BY DEF Acknowledged
<1>2. /\ request \in Request /\ r \in DOMAIN log /\ log[r] = request.id
      /\ SentAfter(request.id, log, issued)
  <2>1. request # NoRequest
    BY <1>1 DEF NoRequest
  <2> QED
    BY <1>1, <2>1, PartsAreGood DEF GoodRequest
<1>3. Sound(client', log, issued)
  <2>1. log \in Seq(Operations) /\ r \in 1 .. Len(log) /\ r \in 0 .. Len(log)
    BY <1>2, LogAsPrefix DEF IInv
  <2>2. Sound(c, log, issued)
    BY <1>2, <2>1, SetRemoteSound, AcknowledgeSound DEF IInv
  <2> HIDE DEF c
  <2> QED
    BY <1>1, <2>2, DisownSound
<1>4. GoodRequest(request')
  BY <1>1, <1>2 DEF GoodRequest, Request
<1>5. opened' \in 0 .. MaxConnections
  BY <1>1 DEF IInv, TypeOK
<1>6. races' \subseteq {"skips", "missed", "passes", "overlap", "closed"}
  BY <1>1, RacesTyped DEF IInv
<1> QED
  BY <1>1, <1>3, <1>4, <1>5, <1>6, PartsAreGood, QuietStep

LEMMA SendFailsKeepsInv ==
  ASSUME IInv, SendFails
  PROVE  IInv'
<1> DEFINE c == Reject(client, request.id)
           d == [c EXCEPT !.own = @ \ {request.id}]
           e == [c EXCEPT !.own = @ \ {request.id}, !.ready = FALSE]
<1>1. /\ request # NoRequest /\ client' = e
      /\ late' = IF request.stage = "posting"
                 THEN late \cup {[id |-> request.id, base |-> request.base]} ELSE late
      /\ request' = NoRequest
      /\ UNCHANGED <<log, unsent, loads, opened, issued, races>>
  BY DEF SendFails
<1>2. Sound(c, log, issued)
  BY RejectSound DEF IInv
<1> HIDE DEF c
<1>3. Sound(d, log, issued)
  BY <1>2, DisownSound
<1>4. Sound(client', log, issued)
  <2>1. d \in Client /\ c \in Client
    BY <1>2, <1>3 DEF Sound
  <2>2. /\ e \in Client /\ e.base = d.base /\ e.remote = d.remote
        /\ e.deferred = d.deferred /\ e.committed = d.committed /\ e.queue = d.queue
    BY <2>1 DEF Client
  <2> HIDE DEF d, e
  <2> QED
    BY <1>1, <1>3, <2>2, FlagsKeepSound
<1>5. GoodRequest(request')
  BY <1>1 DEF GoodRequest, NoRequest
<1>6. \A x \in late' : GoodLate(x)
  <2>1. GoodLate([id |-> request.id, base |-> request.base])
    BY <1>1, PartsAreGood DEF GoodLate, GoodRequest, Request
  <2> QED
    BY <1>1, <2>1, PartsAreGood
<1>7. opened' \in 0 .. MaxConnections
  BY <1>1 DEF IInv, TypeOK
<1> QED
  BY <1>1, <1>4, <1>5, <1>6, <1>7, PartsAreGood, RacesTyped, QuietStep DEF IInv
LEMMA BroadcastKeepsInv ==
  ASSUME IInv, NEW r \in unsent, Broadcast(r)
  PROVE  IInv'
<1>1. /\ unsent' = unsent \ {r} /\ client' = Receive(client, r)
      /\ UNCHANGED <<log, request, late, loads, opened, issued, races>>
  BY DEF Broadcast
<1>2. Sound(client', log, issued)
  BY <1>1, ReceiveSound DEF IInv, TypeOK
<1>3. opened' \in 0 .. MaxConnections
  BY <1>1 DEF IInv, TypeOK
<1> QED
  BY <1>1, <1>2, <1>3, PartsAreGood, RacesTyped, QuietStep DEF IInv

LEMMA DisconnectKeepsInv ==
  ASSUME IInv, Disconnect
  PROVE  IInv'
<1> DEFINE c == [client EXCEPT !.connected = FALSE, !.ready = FALSE]
<1>1. /\ client' = c
      /\ UNCHANGED <<log, unsent, request, late, loads, opened, issued, races>>
  BY DEF Disconnect
<1>2. client \in Client
  BY DEF IInv, TypeOK
<1>3. /\ c \in Client /\ c.base = client.base /\ c.remote = client.remote
      /\ c.deferred = client.deferred /\ c.committed = client.committed
      /\ c.queue = client.queue
  BY <1>2 DEF Client
<1> HIDE DEF c
<1>4. Sound(client', log, issued)
  BY <1>1, <1>3, FlagsKeepSound DEF IInv
<1> QED
  BY <1>1, <1>4, RacesTyped, ClientStep DEF IInv

LEMMA OpenKeepsInv ==
  ASSUME IInv, Open
  PROVE  IInv'
<1> DEFINE c == [client EXCEPT !.connected = TRUE, !.ready = FALSE,
                               !.syncing = TRUE, !.failed = FALSE]
<1>1. /\ opened < MaxConnections /\ opened' = opened + 1 /\ client' = c
      /\ loads' = [loads EXCEPT ![opened + 1].stage = "opened"]
      /\ races' = races \cup {kind \in {"overlap"} : \E k \in Connections : Loading(k)}
      /\ UNCHANGED <<log, unsent, request, late, issued>>
  BY DEF Open
<1>2. client \in Client /\ opened \in 0 .. MaxConnections /\ MaxConnections \in Nat
  BY OperationsAssumption DEF IInv, TypeOK
<1>3. /\ c \in Client /\ c.base = client.base /\ c.remote = client.remote
      /\ c.deferred = client.deferred /\ c.committed = client.committed
      /\ c.queue = client.queue
  BY <1>2 DEF Client
<1> HIDE DEF c
<1>4. Sound(client', log, issued)
  BY <1>1, <1>3, FlagsKeepSound DEF IInv
<1>5. opened' \in 0 .. MaxConnections /\ opened + 1 \in Connections
  BY <1>1, <1>2 DEF Connections
<1>6. loads' \in [Connections -> Load] /\ \A k \in Connections : GoodLoad(loads'[k])
  <2> DEFINE x == [loads[opened + 1] EXCEPT !.stage = "opened"]
  <2>1. GoodLoad(x)
    BY <1>5, PartsAreGood DEF GoodLoad, Load
  <2>2. loads' = [loads EXCEPT ![opened + 1] = x]
    BY <1>1, <1>5, PartsAreGood
  <2> HIDE DEF x
  <2> QED
    BY <1>5, <2>1, <2>2, PartsAreGood DEF GoodLoad
<1>7. races' \subseteq {"skips", "missed", "passes", "overlap", "closed"}
  BY <1>1, RacesTyped DEF IInv
<1> QED
  BY <1>1, <1>4, <1>5, <1>6, <1>7, PartsAreGood, QuietStep

\* The synchronization's steps that only ask the server.
LEMMA ReadingKeepsInv ==
  ASSUME IInv, NEW k \in Connections,
         ReadSnapshot(k) \/ ReadHistory(k) \/ ReceiveHistory(k)
  PROVE  IInv'
<1> DEFINE x == loads'[k]
<1>1. loads[k] \in Load /\ GoodLoad(loads[k]) /\ loads \in [Connections -> Load]
  BY PartsAreGood
<1>2. Revision \in Nat
  BY LogAsPrefix DEF IInv
<1>3. UNCHANGED <<log, unsent, client, request, late, opened, issued, races>>
  BY DEF ReadSnapshot, ReadHistory, ReceiveHistory
<1>4. GoodLoad(x) /\ loads' = [loads EXCEPT ![k] = x]
  <2>1. CASE ReadSnapshot(k)
    <3> DEFINE now == Revision
               y == [loads[k] EXCEPT !.stage = "snapshot", !.hydrated = now]
    <3>1. loads' = [loads EXCEPT ![k] = y]
      BY <1>1, <2>1 DEF ReadSnapshot
    <3> HIDE DEF now
    <3>2. y \in Load /\ y.hydrated = now /\ y.history = loads[k].history
      BY <1>1, <1>2 DEF Load, now
    <3>3. GoodLoad(y)
      <4> HIDE DEF y
      <4> QED
        BY <1>1, <1>2, <3>2 DEF GoodLoad, now
    <3> HIDE DEF y
    <3> QED
      BY <1>1, <3>1, <3>3
  <2>2. CASE ReadHistory(k)
    <3> DEFINE now == Revision
               y == [loads[k] EXCEPT !.stage = "history", !.history = now]
    <3>1. loads' = [loads EXCEPT ![k] = y]
      BY <1>1, <2>2 DEF ReadHistory
    <3> HIDE DEF now
    <3>2. y \in Load /\ y.history = now /\ y.hydrated = loads[k].hydrated
      BY <1>1, <1>2 DEF Load, now
    <3>3. GoodLoad(y)
      <4> HIDE DEF y
      <4> QED
        BY <1>1, <1>2, <3>2 DEF GoodLoad, now
    <3> HIDE DEF y
    <3> QED
      BY <1>1, <3>1, <3>3
  <2>3. CASE ReceiveHistory(k)
    <3> DEFINE stage == IF loads[k].history > loads[k].hydrated THEN "newer" ELSE "finishing"
               y == [loads[k] EXCEPT !.stage = stage]
    <3>1. loads' = [loads EXCEPT ![k] = y]
      BY <1>1, <2>3 DEF ReceiveHistory
    <3>2. stage \in {"newer", "finishing"}
      OBVIOUS
    <3> HIDE DEF stage
    <3>3. GoodLoad(y)
      BY <1>1, <3>2 DEF GoodLoad, Load
    <3> HIDE DEF y
    <3> QED
      BY <1>1, <3>1, <3>3
  <2> QED
    BY <2>1, <2>2, <2>3
<1> HIDE DEF x
<1>5. Sound(client', log, issued)
  BY <1>3 DEF IInv
<1> QED
  BY <1>3, <1>4, <1>5, RacesTyped, LoadStep DEF IInv

LEMMA HydrateSnapshotKeepsInv ==
  ASSUME IInv, NEW k \in Connections, HydrateSnapshot(k)
  PROVE  IInv'
<1> DEFINE x == [loads[k] EXCEPT !.stage = "results", !.todo = client.queue]
<1>1. loads[k] \in Load /\ GoodLoad(loads[k]) /\ loads \in [Connections -> Load]
  BY PartsAreGood
<1>2. /\ client' = Hydrate(client, loads[k].hydrated)
      /\ loads' = [loads EXCEPT ![k] = x]
      /\ races' = races \cup PassesOver(loads[k].hydrated)
      /\ UNCHANGED <<log, unsent, request, late, opened, issued>>
  BY <1>1 DEF HydrateSnapshot
<1>3. GoodLoad(x)
  <2>1. client.queue \in Seq(Entry)
    BY DEF IInv, TypeOK, Client
  <2> QED
    BY <1>1, <2>1 DEF GoodLoad, Load
<1>4. Sound(client', log, issued)
  <2>1. loads[k].hydrated \in 0 .. Revision
    BY <1>1, LogAsPrefix DEF GoodLoad, Load, IInv
  <2> QED
    BY <1>2, <2>1, HydrateSound DEF IInv
<1>5. races' \subseteq {"skips", "missed", "passes", "overlap", "closed"}
  BY <1>2, RacesTyped DEF IInv
<1> HIDE DEF x
<1> QED
  BY <1>2, <1>3, <1>4, <1>5, LoadStep

LEMMA HydrateNewerKeepsInv ==
  ASSUME IInv, NEW k \in Connections, HydrateNewer(k)
  PROVE  IInv'
<1> DEFINE x == [loads[k] EXCEPT !.stage = "finishing"]
<1>1. loads[k] \in Load /\ GoodLoad(loads[k]) /\ loads \in [Connections -> Load]
  BY PartsAreGood
<1>2. /\ client' = Hydrate(client, loads[k].history)
      /\ loads' = [loads EXCEPT ![k] = x]
      /\ races' = races \cup PassesOver(loads[k].history)
      /\ UNCHANGED <<log, unsent, request, late, opened, issued>>
  BY <1>1 DEF HydrateNewer
<1>3. GoodLoad(x)
  BY <1>1 DEF GoodLoad, Load
<1>4. Sound(client', log, issued)
  <2>1. loads[k].history \in 0 .. Revision
    BY <1>1, LogAsPrefix DEF GoodLoad, Load, IInv
  <2> QED
    BY <1>2, <2>1, HydrateSound DEF IInv
<1>5. races' \subseteq {"skips", "missed", "passes", "overlap", "closed"}
  BY <1>2, RacesTyped DEF IInv
<1> HIDE DEF x
<1> QED
  BY <1>2, <1>3, <1>4, <1>5, LoadStep

LEMMA CheckResultKeepsInv ==
  ASSUME IInv, NEW k \in Connections, CheckResult(k)
  PROVE  IInv'
<1> DEFINE entry == Head(loads[k].todo)
           r == RevisionOf(entry.id)
           x == [loads[k] EXCEPT !.todo = Tail(@)]
<1>1. loads[k] \in Load /\ GoodLoad(loads[k]) /\ loads \in [Connections -> Load]
  BY PartsAreGood
<1>2. /\ loads[k].todo # << >>
      /\ loads' = [loads EXCEPT ![k] = x]
      /\ UNCHANGED <<log, unsent, request, late, opened, issued>>
  BY <1>1 DEF CheckResult
<1>3. GoodLoad(x)
  <2> DEFINE todo == Tail(loads[k].todo)
  <2>1. loads[k].todo \in Seq(Entry)
    BY <1>1 DEF Load
  <2>2. todo \in Seq(Entry)
    BY <1>2, <2>1, HeadTailProperties
  <2> HIDE DEF todo
  <2>3. x = [loads[k] EXCEPT !.todo = todo]
    BY <1>1 DEF todo
  <2> QED
    BY <1>1, <2>2, <2>3 DEF GoodLoad, Load
<1> HIDE DEF x
<1>4. races \subseteq {"skips", "missed", "passes", "overlap", "closed"}
  BY RacesTyped DEF IInv
<1>5. CASE InLog(entry.id) /\ races' = races \cup PassesOver(r - 1)
           /\ client' = SetRemote([Acknowledge(client, entry.id, r) EXCEPT !.own = @ \ {entry.id}], r)
  <2> DEFINE c == Acknowledge(client, entry.id, r)
             d == [c EXCEPT !.own = @ \ {entry.id}]
  <2>1. r \in 1 .. Len(log) /\ r \in 0 .. Len(log) /\ log[r] = entry.id /\ log \in Seq(Operations)
    <3>1. /\ log \in Seq(Operations) /\ Revision = Len(log) /\ Revision \in Nat
          /\ r \in 1 .. Revision /\ log[r] = entry.id
      <4>1. TypeOK /\ InLog(entry.id)
        BY <1>5 DEF IInv
      <4> QED
        BY ONLY <4>1, LogAsPrefix
    <3> QED
      BY ONLY <3>1
  <2>2. Sound(c, log, issued)
    BY <2>1, AcknowledgeSound DEF IInv
  <2> HIDE DEF c
  <2>3. Sound(d, log, issued)
    BY <2>2, DisownSound
  <2> HIDE DEF d
  <2>4. Sound(SetRemote(d, r), log, issued)
    BY <2>1, <2>3, SetRemoteSound
  <2>5. Sound(client', log, issued)
    BY <1>5, <2>4 DEF d, c
  <2>6. races' \subseteq {"skips", "missed", "passes", "overlap", "closed"}
    BY <1>5, RacesTyped DEF IInv
  <2> QED
    BY <1>2, <1>3, <2>5, <2>6, LoadStep
<1>6. CASE UNCHANGED <<client, races>>
  BY <1>2, <1>3, <1>4, <1>6, LoadStep DEF IInv
<1> QED
  BY <1>5, <1>6 DEF CheckResult

LEMMA NotLoadingIsGood ==
  ASSUME IInv
  PROVE  GoodLoad(NotLoading)
<1>1. << >> \in Seq(Entry) /\ Revision \in Nat
  BY LogAsPrefix DEF IInv
<1> QED
  BY <1>1 DEF GoodLoad, NotLoading, Load

LEMMA LoadFailsKeepsInv ==
  ASSUME IInv, NEW k \in Connections, LoadFails(k)
  PROVE  IInv'
<1> DEFINE c == [client EXCEPT !.syncing = FALSE, !.failed = TRUE, !.ready = FALSE]
<1>1. /\ client' = c /\ loads' = [loads EXCEPT ![k] = NotLoading]
      /\ UNCHANGED <<log, unsent, request, late, opened, issued, races>>
  BY DEF LoadFails
<1>2. client \in Client
  BY DEF IInv, TypeOK
<1>3. /\ c \in Client /\ c.base = client.base /\ c.remote = client.remote
      /\ c.deferred = client.deferred /\ c.committed = client.committed
      /\ c.queue = client.queue
  BY <1>2 DEF Client
<1> HIDE DEF c
<1>4. Sound(client', log, issued)
  BY <1>1, <1>3, FlagsKeepSound DEF IInv
<1> QED
  BY <1>1, <1>4, NotLoadingIsGood, RacesTyped, LoadStep DEF IInv

LEMMA FinishLoadKeepsInv ==
  ASSUME IInv, NEW k \in Connections, FinishLoad(k)
  PROVE  IInv'
<1> DEFINE loaded == LoadHistory(client, loads[k].history)
           replayed == ReceiveDeferred(Replay(loaded))
           c == [replayed EXCEPT !.ready = TRUE]
<1>1. /\ \/ client' = replayed /\ UNCHANGED request
         \/ FlushAll(c)
      /\ loads' = [loads EXCEPT ![k] = NotLoading]
      /\ races' = races \cup {kind \in {"closed"} : ~client.connected}
      /\ UNCHANGED <<log, unsent, late, opened, issued>>
  BY DEF FinishLoad
<1>2. loads[k].history \in 0 .. Revision
  BY PartsAreGood, LogAsPrefix DEF GoodLoad, Load, IInv
<1>3. Sound(loaded, log, issued)
  BY <1>2, LoadHistorySound DEF IInv
<1> HIDE DEF loaded
<1>4. Sound(replayed, log, issued)
  BY <1>3, ReplaySound, ReceiveDeferredSound DEF IInv
<1> HIDE DEF replayed
<1>5. Sound(c, log, issued)
  <2>1. replayed \in Client
    BY <1>4 DEF Sound
  <2>2. /\ c \in Client /\ c.base = replayed.base /\ c.remote = replayed.remote
        /\ c.deferred = replayed.deferred /\ c.committed = replayed.committed
        /\ c.queue = replayed.queue
    BY <2>1 DEF Client
  <2> HIDE DEF c
  <2> QED
    BY <1>4, <2>2, FlagsKeepSound
<1> HIDE DEF c
<1>6. loads' \in [Connections -> Load] /\ \A j \in Connections : GoodLoad(loads'[j])
  BY <1>1, NotLoadingIsGood, PartsAreGood DEF GoodLoad
<1>7. races' \subseteq {"skips", "missed", "passes", "overlap", "closed"}
  BY <1>1, RacesTyped DEF IInv
<1>8. CASE client' = replayed /\ UNCHANGED request
  BY <1>1, <1>4, <1>6, <1>7, <1>8, SendingStep
<1>9. CASE FlushAll(c)
  <2>1. /\ log \in Seq(Operations) /\ issued \in Seq(Issue) /\ Distinct(issued)
        /\ request \in Request \cup {NoRequest}
    BY DEF IInv, TypeOK, Issue
  <2>2. /\ Sound(client', log, issued)
        /\ \/ request' = request
           \/ /\ request' \in Request \cup {NoRequest}
              /\ request'.stage \in {"posting", "none"}
              /\ request' # NoRequest => SentAfter(request'.id, log, issued)
    BY <1>5, <1>9, <2>1, FlushAllInOrder
  <2> QED
    BY <1>1, <1>6, <1>7, <2>2, SendingStep
<1> QED
  BY <1>1, <1>8, <1>9

-----------------------------------------------------------------------------
(* The invariant, and what follows from it. *)

LEMMA InitImpliesIInv ==
  ASSUME Init
  PROVE  IInv
<1> USE DEF Init
<1>1. /\ << >> \in Seq(Operations) /\ << >> \in Seq(Entry) /\ << >> \in Seq(Nat)
      /\ << >> \in Seq([id : OwnOperations, seen : SUBSET Operations])
      /\ DOMAIN << >> = {} /\ Len(<< >>) = 0
  OBVIOUS
<1>2. MaxConnections \in Nat
  BY OperationsAssumption
<1>3. client \in Client
  BY <1>1 DEF Client
<1>4. loads \in [Connections -> Load]
  BY <1>1 DEF Load, NotLoading
<1>5. TypeOK
  BY <1>1, <1>2, <1>3, <1>4 DEF TypeOK, Revision
<1>6. CommittedOnce /\ Distinct(issued) /\ OwnWereIssued(log, issued) /\ CommittedInOrder
  BY <1>1 DEF CommittedOnce, Distinct, OwnWereIssued, CommittedInOrder
<1>7. Sound(client, log, issued)
  BY <1>1, <1>3 DEF Sound, InIssueOrder
<1>8. AnswerIsCommitted /\ SentInOrder
  BY DEF AnswerIsCommitted, SentInOrder, Sent, NoRequest
<1>9. LoadsReadThePast
  BY <1>1 DEF LoadsReadThePast, NotLoading, Revision
<1> QED
  BY <1>5, <1>6, <1>7, <1>8, <1>9 DEF IInv

LEMMA StutterKeepsInv ==
  ASSUME IInv, UNCHANGED vars
  PROVE  IInv'
<1>1. /\ log' = log /\ unsent' = unsent /\ client' = client /\ request' = request
      /\ late' = late /\ loads' = loads /\ opened' = opened /\ issued' = issued
      /\ races' = races
  BY DEF vars
<1> QED
  BY <1>1, RacesTyped, ClientStep DEF IInv

LEMMA NextKeepsInv ==
  ASSUME IInv, [Next]_vars
  PROVE  IInv'
<1>1. CASE UNCHANGED vars
  BY <1>1, StutterKeepsInv
<1>2. ASSUME NEW id \in OwnOperations, Edit(id) PROVE IInv'
  BY <1>2, EditKeepsInv
<1>3. ASSUME NEW id \in OtherOperations, OtherCommits(id) PROVE IInv'
  BY <1>3, OtherCommitsKeepsInv
<1>4. ASSUME NEW r \in unsent, Broadcast(r) PROVE IInv'
  BY <1>4, BroadcastKeepsInv
<1>5. CASE FlushPending \/ SendNext
  BY <1>5, FlushPendingKeepsInv
<1>6. CASE ServerHandles
  BY <1>6, ServerHandlesKeepsInv
<1>7. CASE Acknowledged
  BY <1>7, AcknowledgedKeepsInv
<1>8. CASE SendFails
  BY <1>8, SendFailsKeepsInv
<1>9. CASE ServerHandlesLate
  BY <1>9, ServerHandlesLateKeepsInv
<1>10. CASE Disconnect
  BY <1>10, DisconnectKeepsInv
<1>11. CASE Open
  BY <1>11, OpenKeepsInv
<1>12. ASSUME NEW k \in Connections,
              \/ ReadSnapshot(k) \/ HydrateSnapshot(k) \/ CheckResult(k) \/ ReadHistory(k)
              \/ ReceiveHistory(k) \/ HydrateNewer(k) \/ FinishLoad(k) \/ LoadFails(k)
       PROVE  IInv'
  BY <1>12, ReadingKeepsInv, HydrateSnapshotKeepsInv, CheckResultKeepsInv,
     HydrateNewerKeepsInv, FinishLoadKeepsInv, LoadFailsKeepsInv
<1> QED
  BY <1>1, <1>2, <1>3, <1>4, <1>5, <1>6, <1>7, <1>8, <1>9, <1>10, <1>11, <1>12 DEF Next

\* In every reachable state, for any operations and cells and however often the
\* page connects, the invariant holds.
THEOREM InvariantHolds == Spec => []IInv
<1>1. Init => IInv
  BY InitImpliesIInv
<1>2. IInv /\ [Next]_vars => IInv'
  BY NextKeepsInv
<1> QED
  BY <1>1, <1>2, PTL DEF Spec

\* Every variable of the page and of the server keeps to its type.
THEOREM TypesHold == Spec => []TypeOK
<1>1. IInv => TypeOK
  BY DEF IInv
<1> QED
  BY <1>1, InvariantHolds, PTL

\* No local operation disappears: OfflineQueue and loadCommittedHistory let go
\* of one only when it is in the log, whatever is lost, rejected or reloaded, and
\* the page holds nothing for committed that is not, up to the base it counts.
THEOREM NothingIsLostSilently == Spec => []NoSilentLoss
<1>1. IInv => NoSilentLoss
  <2> SUFFICES ASSUME IInv PROVE NoSilentLoss
    OBVIOUS
  <2>1. \A i \in DOMAIN issued : Pending(client, issued[i].id) \/ InLog(issued[i].id)
    <3>1. Prefix(log, client.base) \subseteq OperationsOf(log)
      BY LogAsPrefix, PrefixIncreases DEF IInv, Sound, Client, OperationsOf
    <3> QED
      BY <3>1, LogAsPrefix DEF IInv, Sound, Pending
  <2>2. client.committed \subseteq Through(client.base)
    BY LogAsPrefix DEF IInv, Sound
  <2> QED
    BY <2>1, <2>2 DEF NoSilentLoss
<1> QED
  BY <1>1, InvariantHolds, PTL

\* The server commits the operations of the page in the order in which its user
\* issued them, also when flushQueue gives a request up that is handled later.
THEOREM OrderOfIssueIsKept == Spec => []CommittedInOrder
<1>1. IInv => CommittedInOrder
  BY DEF IInv
<1> QED
  BY <1>1, InvariantHolds, PTL
-----------------------------------------------------------------------------
\* Nothing unseen is overwritten.

\* What the first n revisions did to the cells of an operation was in the document
\* when it was issued.
SeenThrough(n, id, l, s) ==
  \A r \in 1 .. n : Overlap(id, l[r]) =>
    \A j \in DOMAIN s : s[j].id = id => l[r] \in s[j].seen

\* While an operation is not in the log.
FitsIn(n, id, l, s) == id \notin OperationsOf(l) => SeenThrough(n, id, l, s)

\* An entry that waits is compared with every revision up to the base of the
\* session, one that was sent up to its own.
Fits(e, n, l, s) ==
  /\ e.status = "pending" => FitsIn(n, e.id, l, s)
  /\ e.status = "sent" => e.base <= Len(l) /\ FitsIn(e.base, e.id, l, s)

Careful(c, l, s) ==
  /\ \A i \in DOMAIN s : s[i].id \in IdsOf(c.queue) \cup Prefix(l, c.base)
  /\ \A m \in DOMAIN c.queue : Fits(c.queue[m], c.base, l, s)
  /\ 1 \in DOMAIN c.queue /\ c.queue[1].status = "pending" => c.queue[1].base <= c.base

\* The document has what the page counts and what it has issued.
Full(c, l) == Prefix(l, c.base) \cup IdsOf(c.queue) \subseteq ToSet(c.model)

\* What a synchronization knows when it has come so far.
LoadFits(x, c, l) ==
  /\ x.stage # "idle" => c.syncing /\ ~c.ready
  /\ x.stage \in {"results", "history"} => Prefix(l, x.hydrated) \subseteq ToSet(c.model)
  /\ x.stage = "history" =>
       /\ x.hydrated <= x.history
       /\ c.base <= x.history \/ c.remote > x.history
  /\ x.stage \in {"newer", "finishing"} => c.base <= x.history
  /\ x.stage = "finishing" => Prefix(l, x.history) \subseteq ToSet(c.model)

\* Operations that were issued later saw those issued before.
SeenInOrder(s) == \A i, j \in DOMAIN s : i < j => s[i].id \in s[j].seen

InOrder(l, s) ==
  \A i, j \in DOMAIN s : i < j /\ s[j].id \in OperationsOf(l) => s[i].id \in OperationsOf(l)

\* What the log and the history say of the order of the operations.
Ordered(l, s) ==
  /\ \A i, j \in DOMAIN l : l[i] = l[j] => i = j
  /\ Distinct(s) /\ DOMAIN s \subseteq Nat
  /\ InOrder(l, s) /\ SeenInOrder(s)

Committed(l, s) ==
  \A j \in DOMAIN s, n \in DOMAIN l :
    l[n] = s[j].id => \A r \in 1 .. n - 1 : Overlap(s[j].id, l[r]) => l[r] \in s[j].seen

OneLoad(x) ==
  \A j, k \in Connections : x[j].stage # "idle" /\ x[k].stage # "idle" => j = k

Comparable(r, l, s) == r.base <= Len(l) /\ FitsIn(r.base, r.id, l, s)

CareWith(c, l, s, x) ==
  /\ Careful(c, l, s) /\ c.remote <= c.base
  /\ c.ready => Full(c, l)
  /\ SeenInOrder(s) /\ Committed(l, s)
  /\ OneLoad(x) /\ \A k \in Connections : LoadFits(x[k], c, l)

Care ==
  /\ CareWith(client, log, issued, loads)
  /\ request.stage = "posting" => Comparable(request, log, issued)
  /\ \A r \in late : Comparable(r, log, issued)

Calm == races \subseteq {"closed"}

CareInv == Calm => Care
-----------------------------------------------------------------------------
(* The functions of the client. *)

LEMMA SameIsCareful ==
  ASSUME NEW l, NEW s, NEW c, Careful(c, l, s), NEW d,
         d.base = c.base, d.queue = c.queue
  PROVE  Careful(d, l, s)
  BY DEF Careful

\* The operations before one in the log.
LEMMA OrderHolds ==
  ASSUME IInv
  PROVE  InOrder(log, issued)
  BY LogAsPrefix DEF IInv, CommittedInOrder, InOrder

\* A pending operation was issued later than one in the log, and has seen it.
LEMMA LaterSaw ==
  ASSUME NEW l, NEW s, Ordered(l, s),
         NEW n \in Nat, NEW r \in 1 .. Len(l), \E i \in DOMAIN s : s[i].id = l[r],
         NEW id, FitsIn(n, id, l, s), n >= r - 1, NEW m \in Nat, m <= n \/ m = r
  PROVE  FitsIn(m, id, l, s)
<1> SUFFICES ASSUME id \notin OperationsOf(l), NEW x \in 1 .. m, Overlap(id, l[x]),
                    NEW j \in DOMAIN s, s[j].id = id
             PROVE  l[x] \in s[j].seen
  BY DEF FitsIn, SeenThrough
<1>1. CASE x <= n
  <2>1. x \in 1 .. n
    BY <1>1
  <2> QED
    BY <2>1 DEF FitsIn, SeenThrough
<1>2. CASE ~(x <= n)
  <2>1. x = r
    BY <1>2
  <2>2. PICK i \in DOMAIN s : s[i].id = l[r]
    OBVIOUS
  <2>3. l[r] \in OperationsOf(l)
    BY DEF OperationsOf, Prefix
  <2>4. i # j
    BY <2>2, <2>3
  <2>5. ~(j < i)
    BY <2>2, <2>3 DEF InOrder, Ordered
  <2>6. i < j
    BY <2>4, <2>5 DEF Ordered
  <2> QED
    BY <2>1, <2>2, <2>6 DEF SeenInOrder, Ordered
<1> QED
  BY <1>1, <1>2
\* Entries that are left of a queue, none of them newly sent or newly pending.
LeftOf(p, q) ==
  \A m \in DOMAIN p : \E n \in DOMAIN q :
    /\ p[m].id = q[n].id
    /\ p[m].status \in {q[n].status, "rejected"}
    /\ p[m].status = "sent" => p[m].base = q[n].base

LEMMA WithoutLeaves ==
  ASSUME NEW q \in Seq(Entry), NEW ids
  PROVE  LeftOf(Without(q, ids), q)
<1> DEFINE K == {i \in DOMAIN q : q[i].id \notin ids}
           w == Kept(q, K)
<1>1. K \in SUBSET DOMAIN q
  OBVIOUS
<1>2. Without(q, ids) = w
  BY DEF Without
<1> HIDE DEF K
<1>3. \A i \in DOMAIN w : \E k \in K : w[i] = q[k]
  BY <1>1, KeptElements
<1> HIDE DEF w
<1> QED
  BY <1>1, <1>2, <1>3 DEF LeftOf

LEMMA RebaseLeaves ==
  ASSUME NEW q \in Seq(Entry), NEW r \in Nat
  PROVE  /\ LeftOf(Rebase(q, r), q)
         /\ 1 \in DOMAIN Rebase(q, r) /\ Rebase(q, r)[1].status = "pending" =>
              Rebase(q, r)[1].base = r
<1>1. DOMAIN q = 1 .. Len(q) /\ Len(q) \in Nat /\ \A i \in 1 .. Len(q) : q[i] \in Entry
  BY LenProperties, ElementOfSeq
<1>2. DOMAIN Rebase(q, r) = DOMAIN q
  BY DEF Rebase
<1>3. ASSUME NEW i \in DOMAIN q
      PROVE  /\ Rebase(q, r)[i].id = q[i].id /\ Rebase(q, r)[i].status = q[i].status
             /\ q[i].status # "pending" => Rebase(q, r)[i].base = q[i].base
             /\ q[i].status = "pending" => Rebase(q, r)[i].base = r + i - 1
  <2>1. q[i] \in Entry /\ i \in Nat
    BY <1>1, <1>3
  <2>2. CASE q[i].status = "pending"
    <3> DEFINE base == r + i - 1
    <3>1. Rebase(q, r)[i] = [q[i] EXCEPT !.base = base]
      BY <1>3, <2>2 DEF Rebase
    <3> HIDE DEF base
    <3>2. Rebase(q, r)[i].base = base
      BY <2>1, <3>1 DEF Entry
    <3>3. Rebase(q, r)[i].id = q[i].id /\ Rebase(q, r)[i].status = q[i].status
      BY <2>1, <3>1 DEF Entry
    <3> QED
      BY <2>2, <3>2, <3>3 DEF base
  <2>3. CASE q[i].status # "pending"
    BY <1>3, <2>3 DEF Rebase
  <2> QED
    BY <2>2, <2>3
<1> QED
  BY <1>1, <1>2, <1>3 DEF LeftOf

LEMMA LeftIsCareful ==
  ASSUME NEW l, NEW s, NEW c, Careful(c, l, s), NEW d, LeftOf(d.queue, c.queue),
         \A i \in DOMAIN s : s[i].id \in IdsOf(d.queue) \cup Prefix(l, d.base),
         1 \in DOMAIN d.queue /\ d.queue[1].status = "pending" => d.queue[1].base <= d.base,
         \A n \in DOMAIN c.queue : c.queue[n].status = "pending" /\ FitsIn(c.base, c.queue[n].id, l, s)
           => FitsIn(d.base, c.queue[n].id, l, s)
  PROVE  Careful(d, l, s)
<1>1. ASSUME NEW m \in DOMAIN d.queue PROVE Fits(d.queue[m], d.base, l, s)
  <2>1. PICK n \in DOMAIN c.queue :
          /\ d.queue[m].id = c.queue[n].id
          /\ d.queue[m].status \in {c.queue[n].status, "rejected"}
          /\ d.queue[m].status = "sent" => d.queue[m].base = c.queue[n].base
    BY DEF LeftOf
  <2>2. Fits(c.queue[n], c.base, l, s)
    BY DEF Careful
  <2> QED
    BY <2>1, <2>2 DEF Fits
<1> QED
  BY <1>1 DEF Careful

\* rebaseQueuedOperations and the acknowledgement of an operation: nothing passes
\* over a pending operation.
LEMMA AcknowledgeCareful ==
  ASSUME NEW l \in Seq(Operations), NEW s, NEW c, Sound(c, l, s), Careful(c, l, s),
         Ordered(l, s), NEW r \in 1 .. Len(l), \E i \in DOMAIN s : s[i].id = l[r],
         c.base >= r - 1 \/ \A n \in DOMAIN c.queue : c.queue[n].status # "pending",
         NEW d, d = Acknowledge(c, l[r], r)
  PROVE  /\ Careful(d, l, s) /\ r <= d.base /\ c.base <= d.base /\ d.base \in {c.base, r}
         /\ IdsOf(d.queue) \subseteq IdsOf(c.queue)
         /\ d.model = c.model /\ d.remote = c.remote /\ d.ready = c.ready
         /\ d.failed = c.failed /\ d.syncing = c.syncing
<1> DEFINE id == l[r]
           base == Max({c.base, r})
           rest == Without(c.queue, {id})
<1>1. /\ c \in Client /\ c.base \in Nat /\ r \in Nat /\ Len(l) \in Nat
      /\ id \in Operations /\ c.queue \in Seq(Entry) /\ DOMAIN l = 1 .. Len(l)
      /\ c.base <= Len(l)
  BY LenProperties, ElementOfSeq DEF Sound, Client
<1>2. base \in Nat /\ base >= c.base /\ base >= r /\ base \in {c.base, r}
  BY <1>1, MaxOfTwo
<1> HIDE DEF base
<1>3. ASSUME id \in Prefix(l, c.base) PROVE r <= c.base
  BY <1>1, <1>3 DEF Prefix, Ordered
<1>4. id \in c.committed => r <= c.base
  BY <1>3 DEF Sound
<1>5. ~Pending(c, id) => r <= c.base
  BY <1>3 DEF Careful, Pending
<1>6. CASE id \in c.committed \/ ~Pending(c, id)
  <2>1. base = c.base
    BY <1>1, <1>2, <1>4, <1>5, <1>6
  <2>2. d = [c EXCEPT !.base = IF id \in c.committed THEN base ELSE @]
    BY <1>6 DEF Acknowledge, base
  <2>3. d = c
    BY <1>1, <2>1, <2>2 DEF Client
  <2> QED
    BY <1>2, <2>1, <2>3
<1>7. CASE ~(id \in c.committed \/ ~Pending(c, id))
  <2> DEFINE q == Rebase(rest, base)
  <2>1. d = [c EXCEPT !.base = base, !.committed = @ \cup {id}, !.queue = q]
    BY <1>7 DEF Acknowledge, base
  <2>2. rest \in Seq(Entry) /\ IdsOf(rest) = IdsOf(c.queue) \ {id} /\ LeftOf(rest, c.queue)
    BY <1>1, WithoutProperties, WithoutLeaves
  <2> HIDE DEF rest
  <2>3. /\ IdsOf(q) = IdsOf(c.queue) \ {id} /\ LeftOf(q, rest)
        /\ 1 \in DOMAIN q /\ q[1].status = "pending" => q[1].base = base
    BY <1>2, <2>2, RebaseProperties, RebaseLeaves
  <2>4. LeftOf(q, c.queue)
    BY <2>2, <2>3 DEF LeftOf
  <2> HIDE DEF q
  <2>5. /\ d.base = base /\ d.queue = q /\ d.model = c.model /\ d.remote = c.remote
        /\ d.ready = c.ready /\ d.failed = c.failed /\ d.syncing = c.syncing
    BY <1>1, <2>1 DEF Client
  <2>6. \A i \in DOMAIN s : s[i].id \in IdsOf(q) \cup Prefix(l, base)
    <3>1. id \in Prefix(l, base) /\ Prefix(l, c.base) \subseteq Prefix(l, base)
      BY <1>1, <1>2 DEF Prefix
    <3> QED
      BY <2>3, <3>1 DEF Careful
  <2>7. ASSUME NEW n \in DOMAIN c.queue, c.queue[n].status = "pending",
               FitsIn(c.base, c.queue[n].id, l, s)
        PROVE  FitsIn(base, c.queue[n].id, l, s)
    <3>1. c.base >= r - 1 /\ (base <= c.base \/ base = r)
      BY <1>1, <1>2, <2>7
    <3> QED
      BY <1>1, <1>2, <2>7, <3>1, LaterSaw
  <2>8. Careful(d, l, s)
    BY <1>2, <2>3, <2>4, <2>5, <2>6, <2>7, LeftIsCareful
  <2> QED
    BY <1>2, <2>3, <2>5, <2>8
<1> QED
  BY <1>6, <1>7
LEMMA PrefixExtends ==
  ASSUME NEW l, NEW q \in Nat, NEW r \in Nat
  PROVE  /\ Prefix(l, Max({q, r})) = Prefix(l, q) \cup Prefix(l, r)
         /\ Prefix(l, r + 1) = Prefix(l, r) \cup {l[r + 1]}
<1>1. Max({q, r}) = (IF q <= r THEN r ELSE q)
  BY MaxOfTwo
<1> QED
  BY <1>1 DEF Prefix

LEMMA InSeq ==
  ASSUME NEW S, NEW q \in Seq(S), NEW x \in S
  PROVE  /\ ToSet(Append(q, x)) = ToSet(q) \cup {x}
         /\ ToSet(q) \subseteq S
<1>1. /\ DOMAIN Append(q, x) = (DOMAIN q) \cup {Len(q) + 1}
      /\ \A i \in DOMAIN q : Append(q, x)[i] = q[i] /\ q[i] \in S
      /\ Append(q, x)[Len(q) + 1] = x
  <2>1. DOMAIN q = 1 .. Len(q) /\ Len(q) \in Nat /\ Append(q, x) \in Seq(S)
        /\ Len(Append(q, x)) = Len(q) + 1
    BY LenProperties, AppendProperties
  <2>2. DOMAIN Append(q, x) = 1 .. Len(q) + 1
    BY <2>1, LenProperties
  <2> QED
    BY <2>1, <2>2, AppendProperties, ElementOfSeq
<1> QED
  BY <1>1 DEF ToSet

\* replaceModel with a snapshot that passes over no pending operation.
LEMMA HydrateCareful ==
  ASSUME TypeOK, NEW s, NEW c, Sound(c, log, s), Careful(c, log, s),
         NEW r \in 0 .. Revision,
         c.base >= r \/ \A n \in DOMAIN c.queue : c.queue[n].status # "pending",
         NEW d, d = Hydrate(c, r)
  PROVE  /\ Careful(d, log, s) /\ d.remote <= d.base /\ d.base \in {c.base, r}
         /\ d.base >= c.base
         /\ Prefix(log, r) \subseteq ToSet(d.model)
         /\ d.ready = c.ready /\ d.failed = c.failed /\ d.syncing = c.syncing
<1> DEFINE base == Max({c.base, r})
           model == SubSeq(log, 1, r)
<1>1. /\ c \in Client /\ c.base \in Nat /\ r \in Nat /\ Revision \in Nat
      /\ Revision = Len(log) /\ log \in Seq(Operations) /\ c.queue \in Seq(Entry)
  BY LogAsPrefix DEF Sound, Client
<1>2. base \in Nat /\ base >= c.base /\ base >= r /\ base \in {c.base, r}
      /\ Prefix(log, c.base) \subseteq Prefix(log, base)
  BY <1>1, MaxOfTwo, PrefixExtends
<1> HIDE DEF base
<1>3. Prefix(log, r) \subseteq ToSet(model)
  <2>1. \A i \in 1 .. r : log[i] \in Operations
    BY <1>1, LogAsPrefix, ElementOfSeq
  <2>2. model \in Seq(Operations) /\ Len(model) = r /\ \A i \in 1 .. r : model[i] = log[i]
    BY <1>1, <2>1, SubSeqProperties
  <2>3. DOMAIN model = 1 .. r
    BY <2>2, LenProperties
  <2> HIDE DEF model
  <2> QED
    BY <2>2, <2>3 DEF ToSet, Prefix
<1> HIDE DEF model
<1>4. d = [c EXCEPT !.model = model, !.remote = r, !.base = base]
  BY DEF Hydrate, model, base
<1>5. /\ d.model = model /\ d.remote = r /\ d.base = base /\ d.queue = c.queue
      /\ d.ready = c.ready /\ d.failed = c.failed /\ d.syncing = c.syncing
  BY <1>1, <1>4 DEF Client
<1>6. LeftOf(c.queue, c.queue)
  BY DEF LeftOf
<1>7. Careful(d, log, s)
  <2>1. \A i \in DOMAIN s : s[i].id \in IdsOf(d.queue) \cup Prefix(log, d.base)
    BY <1>2, <1>5 DEF Careful
  <2>2. base = c.base \/ \A n \in DOMAIN c.queue : c.queue[n].status # "pending"
    BY <1>1, <1>2
  <2>3. 1 \in DOMAIN d.queue /\ d.queue[1].status = "pending" => d.queue[1].base <= d.base
    BY <1>5, <2>2 DEF Careful
  <2> QED
    BY <1>5, <1>6, <2>1, <2>2, <2>3, LeftIsCareful
<1> QED
  BY <1>2, <1>3, <1>5, <1>7

\* applyCommittedRevision of an operation of another page.
LEMMA ApplyOtherCareful ==
  ASSUME NEW l \in Seq(Operations), NEW s, NEW c, Sound(c, l, s), Careful(c, l, s),
         NEW r \in 1 .. Len(l), r = c.base + 1, ~ConflictsWithPending(c, l[r]),
         NEW d, d = ApplyOther(c, l[r], r)
  PROVE  /\ Careful(d, l, s) /\ d.base = r /\ d.remote = c.remote
         /\ Full(c, l) => Full(d, l)
         /\ d.ready = c.ready /\ d.failed = c.failed /\ d.syncing = c.syncing
<1> DEFINE model == Append(c.model, l[r])
           q == Rebase(c.queue, r)
<1>1. /\ c \in Client /\ c.base \in Nat /\ r \in Nat /\ Len(l) \in Nat /\ r <= Len(l)
      /\ l[r] \in Operations /\ c.queue \in Seq(Entry) /\ c.model \in Seq(Operations)
  BY LenProperties, ElementOfSeq DEF Sound, Client
<1>2. ToSet(model) = ToSet(c.model) \cup {l[r]}
  BY <1>1, InSeq
<1>3. /\ IdsOf(q) = IdsOf(c.queue) /\ LeftOf(q, c.queue)
      /\ 1 \in DOMAIN q /\ q[1].status = "pending" => q[1].base = r
  BY <1>1, RebaseProperties, RebaseLeaves
<1> HIDE DEF model, q
<1>4. d = [c EXCEPT !.model = model, !.committed = @ \cup {l[r]}, !.base = r, !.queue = q]
  BY DEF ApplyOther, model, q
<1>5. /\ d.model = model /\ d.remote = c.remote /\ d.base = r /\ d.queue = q
      /\ d.ready = c.ready /\ d.failed = c.failed /\ d.syncing = c.syncing
  BY <1>1, <1>4 DEF Client
<1>6. Prefix(l, r) = Prefix(l, c.base) \cup {l[r]}
  BY <1>1, PrefixExtends
<1>7. ASSUME NEW n \in DOMAIN c.queue, FitsIn(c.base, c.queue[n].id, l, s)
      PROVE  FitsIn(r, c.queue[n].id, l, s)
  <2>1. ~Overlap(c.queue[n].id, l[r])
    BY DEF ConflictsWithPending, IdsOf
  <2>2. \A x \in 1 .. r : x \in 1 .. c.base \/ x = r
    BY <1>1
  <2> QED
    BY <1>7, <2>1, <2>2 DEF FitsIn, SeenThrough
<1>8. Careful(d, l, s)
  <2>1. \A i \in DOMAIN s : s[i].id \in IdsOf(d.queue) \cup Prefix(l, d.base)
    BY <1>3, <1>5, <1>6 DEF Careful
  <2>2. 1 \in DOMAIN d.queue /\ d.queue[1].status = "pending" => d.queue[1].base <= d.base
    BY <1>1, <1>3, <1>5
  <2> QED
    BY <1>3, <1>5, <1>7, <2>1, <2>2, LeftIsCareful
<1>9. Full(c, l) => Full(d, l)
  BY <1>2, <1>3, <1>5, <1>6 DEF Full
<1> QED
  BY <1>5, <1>8, <1>9
\* The operation of a queue entry was issued.
LEMMA PendingWasIssued ==
  ASSUME NEW l, NEW s, NEW c, Sound(c, l, s), NEW id, Pending(c, id)
  PROVE  \E i \in DOMAIN s : s[i].id = id
  BY DEF Sound, InIssueOrder, Pending, IdsOf

LEMMA SetRemoteFields ==
  ASSUME NEW c, c \in Client, NEW r \in Nat, NEW d, d = SetRemote(c, r)
  PROVE  /\ d.base = c.base /\ d.queue = c.queue /\ d.model = c.model
         /\ d.remote \in {c.remote, r} /\ d.remote >= c.remote /\ d.remote >= r
         /\ d.ready = c.ready /\ d.failed = c.failed /\ d.syncing = c.syncing
<1> DEFINE remote == Max({c.remote, r})
<1>1. remote \in {c.remote, r} /\ remote >= c.remote /\ remote >= r
  BY MaxOfTwo DEF Client
<1> HIDE DEF remote
<1>2. d = [c EXCEPT !.remote = remote]
  BY DEF SetRemote, remote
<1> QED
  BY <1>1, <1>2 DEF Client

\* What a step of the client keeps: the operations are compared, and the document
\* is full or given up.
Advances(d, c, l, s) ==
  /\ Careful(d, l, s) /\ d.remote <= d.base
  /\ Full(c, l) => Full(d, l) \/ (d.failed /\ ~d.ready)
  /\ d.ready => c.ready

LEMMA ApplyRevisionAdvances ==
  ASSUME NEW s, NEW c, TypeOK, Sound(c, log, s), Careful(c, log, s), c.remote <= c.base,
         Ordered(log, s), NEW r \in 1 .. Revision, NEW d, d = ApplyRevision(c, r)
  PROVE  Advances(d, c, log, s)
<1> DEFINE id == log[r]
<1>1. /\ log \in Seq(Operations) /\ r \in 1 .. Len(log) /\ c \in Client /\ r \in Nat
      /\ c.base \in Nat /\ c.remote \in Nat
  BY LogAsPrefix DEF Sound, Client
<1>2. CASE d = c
  BY <1>2 DEF Advances
<1>3. CASE d = Resynchronize(c)
  <2>1. /\ d.base = c.base /\ d.remote = c.remote /\ d.queue = c.queue
        /\ d.failed /\ ~d.ready
    BY <1>1, <1>3 DEF Resynchronize, Client
  <2> QED
    BY <2>1, SameIsCareful DEF Advances
<1>4. CASE r = c.base + 1 /\ Pending(c, id) /\ d = SetRemote(Acknowledge(c, id, r), r)
  <2> DEFINE a == Acknowledge(c, id, r)
  <2>1. \E i \in DOMAIN s : s[i].id = log[r]
    BY <1>4, PendingWasIssued
  <2>2. /\ Careful(a, log, s) /\ r <= a.base /\ c.base <= a.base /\ a.base \in {c.base, r}
        /\ IdsOf(a.queue) \subseteq IdsOf(c.queue)
        /\ a.model = c.model /\ a.remote = c.remote /\ a.ready = c.ready
    <3>1. a = Acknowledge(c, log[r], r) /\ c.base >= r - 1
      BY <1>1, <1>4
    <3> HIDE DEF a
    <3> QED
      BY <1>1, <2>1, <3>1, AcknowledgeCareful
  <2>3. a \in Client
    BY <1>1, AcknowledgeSound DEF Sound
  <2> HIDE DEF a
  <2>4. /\ d.base = a.base /\ d.queue = a.queue /\ d.model = a.model
        /\ d.remote \in {a.remote, r} /\ d.ready = a.ready
    BY <1>1, <1>4, <2>3, SetRemoteFields DEF a
  <2>5. Careful(d, log, s) /\ d.remote <= d.base
    BY <1>1, <2>2, <2>4, SameIsCareful
  <2>6. ASSUME Full(c, log) PROVE Full(d, log)
    <3>1. a.base = r
      BY <1>1, <1>4, <2>2
    <3>2. Prefix(log, r) = Prefix(log, c.base) \cup {id}
      <4>1. Prefix(log, c.base + 1) = Prefix(log, c.base) \cup {log[c.base + 1]}
        BY <1>1, PrefixExtends
      <4> QED
        BY <1>4, <4>1
    <3> QED
      BY <1>4, <2>2, <2>4, <2>6, <3>1, <3>2 DEF Full, Pending
  <2> QED
    BY <2>2, <2>4, <2>5, <2>6 DEF Advances
<1>5. CASE r = c.base + 1 /\ ~ConflictsWithPending(c, id) /\ d = SetRemote(ApplyOther(c, id, r), r)
  <2> DEFINE a == ApplyOther(c, id, r)
  <2>1. /\ Careful(a, log, s) /\ a.base = r /\ a.remote = c.remote
        /\ Full(c, log) => Full(a, log)
        /\ a.ready = c.ready
    BY <1>1, <1>5, ApplyOtherCareful
  <2>2. a \in Client
    <3>1. c.base <= r
      BY <1>1, <1>5
    <3> QED
      BY <1>1, <3>1, ApplyOtherSound DEF Sound
  <2> HIDE DEF a
  <2>3. /\ d.base = a.base /\ d.queue = a.queue /\ d.model = a.model
        /\ d.remote \in {a.remote, r} /\ d.ready = a.ready
    BY <1>1, <1>5, <2>2, SetRemoteFields DEF a
  <2>4. Careful(d, log, s) /\ d.remote <= d.base
    BY <1>1, <1>5, <2>1, <2>3, SameIsCareful
  <2> QED
    BY <2>1, <2>3, <2>4 DEF Advances, Full
<1> HIDE DEF id
<1>6. \/ d = c
      \/ d = Resynchronize(c)
      \/ (r = c.base + 1 /\ Pending(c, id) /\ d = SetRemote(Acknowledge(c, id, r), r))
      \/ (r = c.base + 1 /\ ~ConflictsWithPending(c, id) /\ d = SetRemote(ApplyOther(c, id, r), r))
  <2>1. ApplyRevision(c, r) = CASE r # c.base + 1 -> Resynchronize(c)
       [] r = c.base + 1 /\ id \in c.own -> c
       [] r = c.base + 1 /\ id \notin c.own /\ Pending(c, id) ->
            SetRemote(Acknowledge(c, id, r), r)
       [] OTHER ->
            IF ConflictsWithPending(c, id) THEN Resynchronize(c)
            ELSE SetRemote(ApplyOther(c, id, r), r)
    BY DEF ApplyRevision, id
  <2>2. CASE r # c.base + 1
    BY <2>1, <2>2
  <2>3. CASE r = c.base + 1 /\ id \in c.own
    BY <2>1, <2>3
  <2>4. CASE r = c.base + 1 /\ id \notin c.own /\ Pending(c, id)
    BY <2>1, <2>4
  <2>5. CASE r = c.base + 1 /\ id \notin c.own /\ ~Pending(c, id)
    BY <2>1, <2>5
  <2> QED
    BY <2>2, <2>3, <2>4, <2>5
<1> QED
  BY <1>2, <1>3, <1>4, <1>5, <1>6 DEF id

LEMMA ReceiveAdvances ==
  ASSUME NEW s, NEW c, TypeOK, Sound(c, log, s), Careful(c, log, s), c.remote <= c.base,
         Ordered(log, s), NEW r \in 1 .. Revision, NEW d, d = Receive(c, r)
  PROVE  /\ Advances(d, c, log, s)
         /\ c.failed => (d.failed /\ d.ready = c.ready)
         /\ c.syncing =>
              /\ d.model = c.model /\ d.base = c.base /\ d.remote = c.remote
              /\ d.queue = c.queue /\ d.syncing = c.syncing
<1>1. CASE c.syncing
  <2>1. d = [c EXCEPT !.deferred = Append(@, r)] /\ c \in Client
    BY <1>1 DEF Receive, Sound
  <2>2. /\ d.base = c.base /\ d.remote = c.remote /\ d.queue = c.queue /\ d.model = c.model
        /\ d.failed = c.failed /\ d.ready = c.ready /\ d.syncing = c.syncing
    BY <2>1 DEF Client
  <2>3. Careful(d, log, s)
    BY <2>2, SameIsCareful
  <2> QED
    BY <2>2, <2>3 DEF Advances, Full
<1>2. CASE ~c.syncing /\ d = c
  BY <1>2 DEF Advances
<1>3. CASE ~c.syncing /\ ~c.failed /\ d = ApplyRevision(c, r)
  BY <1>3, ApplyRevisionAdvances
<1> QED
  BY <1>1, <1>2, <1>3 DEF Receive
LEMMA ReceiveDeferredAdvances ==
  ASSUME TypeOK, NEW s, NEW c, Sound(c, log, s), Careful(c, log, s), c.remote <= c.base,
         Ordered(log, s), ~c.ready, Full(c, log), NEW d, d = ReceiveDeferred(c)
  PROVE  /\ Careful(d, log, s) /\ d.remote <= d.base /\ ~d.ready
         /\ d.failed \/ Full(d, log)
<1> DEFINE first == [c EXCEPT !.syncing = FALSE, !.deferred = << >>]
           n == Len(c.deferred)
           f == Received(c)
           P(x) == /\ Sound(x, log, s) /\ Careful(x, log, s) /\ x.remote <= x.base
                   /\ ~x.ready
                   /\ x.failed \/ Full(x, log)
           T == {m \in 0 .. n : ~ P(f[m])}
<1>1. /\ c \in Client /\ c.deferred \in Seq(Nat)
      /\ n \in Nat /\ DOMAIN c.deferred = 1 .. n
      /\ \A i \in 1 .. n : c.deferred[i] \in 1 .. Revision
  BY LogAsPrefix, LenProperties DEF Sound, Client
<1>2. f = [i \in 0 .. n |-> IF i = 0 THEN first ELSE Receive(f[i - 1], c.deferred[i])]
  BY <1>1, ReceivedUnfolds DEF Unfolds
<1>3. P(first)
  <2>1. << >> \in Seq(Nat) /\ DOMAIN << >> = {}
    OBVIOUS
  <2>2. /\ first \in Client /\ first.base = c.base /\ first.remote = c.remote
        /\ first.deferred = << >> /\ first.committed = c.committed /\ first.queue = c.queue
        /\ first.model = c.model /\ first.ready = c.ready
    BY <1>1, <2>1 DEF Client
  <2> HIDE DEF first
  <2>3. Sound(first, log, s)
    BY <2>1, <2>2 DEF Sound
  <2>4. Careful(first, log, s)
    BY <2>2, SameIsCareful
  <2> QED
    BY <2>2, <2>3, <2>4 DEF Full
<1>4. ASSUME NEW x, P(x), NEW r \in 1 .. Revision PROVE P(Receive(x, r))
  <2> DEFINE y == Receive(x, r)
  <2>1. Sound(y, log, s)
    BY <1>4, ReceiveSound
  <2>2. /\ Advances(y, x, log, s)
        /\ x.failed => (y.failed /\ y.ready = x.ready)
    BY <1>4, ReceiveAdvances
  <2> HIDE DEF y, f, first, n, T
  <2>3. Careful(y, log, s) /\ y.remote <= y.base
    BY <2>2 DEF Advances
  <2>4. ~y.ready
    BY <1>4, <2>2, Zenon DEF Advances
  <2>5. y.failed \/ Full(y, log)
    BY <1>4, <2>2, Zenon DEF Advances
  <2>6. P(y)
    BY <2>1, <2>3, <2>4, <2>5
  <2> QED
    BY <2>6 DEF y
<1> HIDE DEF P
<1>5. ASSUME T # {} PROVE FALSE
  <2> HIDE DEF f, first, n
  <2>1. PICK m \in T : \A k \in T : m <= k
    <3>1. T \in SUBSET Nat
      BY <1>1
    <3> HIDE DEF T
    <3> QED
      BY <1>5, <3>1, LeastExists
  <2>2. CASE m = 0
    BY <1>1, <1>2, <1>3, <2>1, <2>2
  <2>3. CASE m # 0
    <3>1. m - 1 \in 0 .. n /\ m - 1 \notin T /\ m \in 1 .. n
      BY <1>1, <2>1, <2>3
    <3>2. P(f[m - 1])
      BY <3>1
    <3>3. P(Receive(f[m - 1], c.deferred[m]))
      BY <1>1, <1>4, <3>1, <3>2
    <3> QED
      BY <1>1, <1>2, <2>1, <2>3, <3>3
  <2> QED
    BY <2>2, <2>3
<1>6. P(f[n])
  BY <1>1, <1>5
<1>7. d = f[n]
  BY DEF ReceiveDeferred
<1> HIDE DEF f, n
<1> QED
  BY <1>6, <1>7 DEF P

\* loadCommittedHistory and replayPendingOperations, when the document has the
\* history and no base has passed it.
LEMMA LoadedIsFull ==
  ASSUME TypeOK, NEW s, NEW c, Sound(c, log, s), Careful(c, log, s), c.remote <= c.base,
         NEW h \in 0 .. Revision, c.base <= h, Prefix(log, h) \subseteq ToSet(c.model),
         NEW e, e = LoadHistory(c, h),
         \A i \in DOMAIN e.queue : e.queue[i].base = e.remote,
         NEW d, d = Replay(e)
  PROVE  /\ Careful(d, log, s) /\ d.remote <= d.base /\ Full(d, log) /\ d.ready = c.ready
<1> DEFINE applied == Min({h, c.remote})
           q == Without(c.queue, Through(applied))
           base == Max({c.base, applied})
<1>1. /\ c \in Client /\ c.base \in Nat /\ c.remote \in Nat /\ h \in Nat
      /\ Revision = Len(log) /\ Revision \in Nat /\ c.queue \in Seq(Entry)
      /\ log \in Seq(Operations)
  BY LogAsPrefix DEF Sound, Client
<1>2. applied \in Nat /\ applied <= c.base
  BY <1>1, MinOfTwo
<1> HIDE DEF applied
<1>3. base = c.base
  BY <1>1, <1>2, MaxOfTwo
<1> HIDE DEF base
<1>4. /\ q \in Seq(Entry) /\ IdsOf(q) = IdsOf(c.queue) \ Through(applied)
      /\ LeftOf(q, c.queue)
  BY <1>1, WithoutProperties, WithoutLeaves
<1>5. Through(applied) \subseteq Prefix(log, c.base)
  BY <1>1, <1>2, LogAsPrefix, PrefixIncreases
<1> HIDE DEF q
<1>6. e = [c EXCEPT !.queue = q, !.committed = @ \cup Through(applied), !.base = base,
                    !.own = @ \ (IdsOf(c.queue) \cap Through(h))]
  BY DEF LoadHistory, q, base, applied
<1>7. /\ e.queue = q /\ e.base = c.base /\ e.remote = c.remote /\ e.ready = c.ready
      /\ e.model = c.model
  BY <1>1, <1>3, <1>6 DEF Client
<1>8. Careful(e, log, s)
  <2>1. \A i \in DOMAIN s : s[i].id \in IdsOf(q) \cup Prefix(log, c.base)
    BY <1>4, <1>5 DEF Careful
  <2>2. 1 \in DOMAIN q => q[1].base <= c.base
    BY <1>7
  <2> QED
    BY <1>4, <1>7, <2>1, <2>2, LeftIsCareful
<1> DEFINE ids == [i \in DOMAIN q |-> q[i].id]
           model == c.model \o ids
<1>9. ToSet(model) = ToSet(c.model) \cup IdsOf(q)
  <2>1. c.model \in Seq(Operations) /\ DOMAIN q = 1 .. Len(q) /\ Len(q) \in Nat
    BY <1>1, <1>4, LenProperties DEF Client
  <2>2. \A i \in 1 .. Len(q) : ids[i] \in Operations
    <3>1. \A i \in 1 .. Len(q) : q[i] \in Entry
      BY <1>4, <2>1, ElementOfSeq
    <3> QED
      BY <2>1, <3>1 DEF Entry, Operations
  <2>3. ids \in Seq(Operations) /\ Len(ids) = Len(q)
    <3>1. ids \in [1 .. Len(q) -> Operations]
      BY <2>1, <2>2
    <3> QED
      BY <2>1, <3>1, SeqDef, LenProperties
  <2>4. /\ model \in Seq(Operations) /\ Len(model) = Len(c.model) + Len(q)
        /\ \A i \in 1 .. Len(c.model) : model[i] = c.model[i]
        /\ \A i \in 1 .. Len(q) : model[Len(c.model) + i] = ids[i]
    <3> HIDE DEF ids
    <3>1. /\ c.model \o ids \in Seq(Operations)
          /\ Len(c.model \o ids) = Len(c.model) + Len(ids)
          /\ \A i \in 1 .. Len(c.model) + Len(ids) :
               (c.model \o ids)[i] =
                 IF i <= Len(c.model) THEN c.model[i] ELSE ids[i - Len(c.model)]
      <4>1. c.model \in Seq(Operations) /\ ids \in Seq(Operations)
        BY <2>1, <2>3
      <4> QED
        BY ONLY <4>1, ConcatProperties
    <3>2. Len(c.model) \in Nat /\ Len(q) \in Nat /\ Len(ids) = Len(q)
      BY <2>1, <2>3, LenProperties
    <3> HIDE DEF model
    <3>3. model = c.model \o ids
      BY DEF model
    <3>4. /\ model \in Seq(Operations) /\ Len(model) = Len(c.model) + Len(q)
          /\ \A i \in 1 .. Len(c.model) + Len(q) :
               model[i] = IF i <= Len(c.model) THEN c.model[i] ELSE ids[i - Len(c.model)]
      BY <3>1, <3>2, <3>3
    <3>5. ASSUME NEW i \in 1 .. Len(c.model)
          PROVE  model[i] = c.model[i]
      <4>1. i \in 1 .. Len(c.model) + Len(q) /\ i <= Len(c.model)
        BY ONLY <3>2, <3>5
      <4> QED
        BY <3>4, <4>1
    <3>6. ASSUME NEW i \in 1 .. Len(q)
          PROVE  model[Len(c.model) + i] = ids[i]
      <4>1. /\ Len(c.model) + i \in 1 .. Len(c.model) + Len(q)
            /\ ~(Len(c.model) + i <= Len(c.model)) /\ (Len(c.model) + i) - Len(c.model) = i
        BY ONLY <3>2, <3>6
      <4> QED
        BY <3>4, <4>1
    <3> QED
      BY <3>4, <3>5, <3>6
  <2>5. DOMAIN model = 1 .. Len(c.model) + Len(q) /\ DOMAIN c.model = 1 .. Len(c.model)
        /\ Len(c.model) \in Nat
    BY <2>1, <2>4, LenProperties
  <2> HIDE DEF model
  <2>6. IdsOf(q) = {ids[i] : i \in 1 .. Len(q)}
    BY <2>1 DEF IdsOf
  <2> HIDE DEF ids
  <2>7. \A i \in 1 .. Len(c.model) + Len(q) :
          i \in 1 .. Len(c.model) \/ i - Len(c.model) \in 1 .. Len(q)
    BY <2>1, <2>5
  <2>8. ToSet(model) \subseteq ToSet(c.model) \cup IdsOf(q)
    <3> SUFFICES ASSUME NEW i \in 1 .. Len(c.model) + Len(q)
                 PROVE  model[i] \in ToSet(c.model) \cup IdsOf(q)
      BY <2>5 DEF ToSet
    <3>1. CASE i \in 1 .. Len(c.model)
      BY <2>4, <2>5, <3>1 DEF ToSet
    <3>2. CASE i - Len(c.model) \in 1 .. Len(q)
      <4>1. model[Len(c.model) + (i - Len(c.model))] = ids[i - Len(c.model)]
        BY <2>4, <3>2
      <4> QED
        BY <2>1, <2>5, <2>6, <3>2, <4>1
    <3> QED
      BY <2>7, <3>1, <3>2
  <2>9. ToSet(c.model) \cup IdsOf(q) \subseteq ToSet(model)
    <3>1. \A i \in 1 .. Len(c.model) : i \in DOMAIN model
      BY <2>1, <2>5
    <3>2. \A i \in 1 .. Len(q) : Len(c.model) + i \in DOMAIN model
      BY <2>1, <2>5
    <3>3. ToSet(c.model) \subseteq ToSet(model)
      BY <2>4, <2>5, <3>1 DEF ToSet
    <3>4. IdsOf(q) \subseteq ToSet(model)
      BY <2>4, <2>6, <3>2 DEF ToSet
    <3> QED
      BY <3>3, <3>4
  <2> QED
    BY <2>8, <2>9
<1>10. d = [e EXCEPT !.model = model]
  BY <1>7 DEF Replay
<1> HIDE DEF model
<1>11. e \in Client
  BY <1>1, LoadHistorySound DEF Sound
<1>12. /\ d.queue = q /\ d.base = c.base /\ d.remote = c.remote /\ d.ready = c.ready
       /\ d.model = model
  BY <1>7, <1>10, <1>11 DEF Client
<1>13. Careful(d, log, s)
  BY <1>7, <1>8, <1>12, SameIsCareful
<1>14. Full(d, log)
  BY <1>1, <1>9, <1>12, PrefixIncreases DEF Full
<1> QED
  BY <1>12, <1>13, <1>14
LEMMA RejectCareful ==
  ASSUME NEW l, NEW s, NEW c, Sound(c, l, s), Careful(c, l, s), NEW id,
         NEW d, d = Reject(c, id)
  PROVE  /\ Careful(d, l, s) /\ d.base = c.base /\ d.remote = c.remote
         /\ d.model = c.model /\ d.syncing = c.syncing
<1> DEFINE q == [i \in DOMAIN c.queue |-> IF c.queue[i].id = id
                                          THEN [c.queue[i] EXCEPT !.status = "rejected"]
                                          ELSE c.queue[i]]
<1>1. c \in Client /\ c.queue \in Seq(Entry) /\ DOMAIN q = DOMAIN c.queue
  BY DEF Sound, Client
<1>2. \A i \in DOMAIN c.queue : c.queue[i] \in Entry
  BY <1>1, ElementOfSeq, LenProperties
<1>3. \A i \in DOMAIN c.queue :
        /\ q[i].id = c.queue[i].id /\ q[i].base = c.queue[i].base
        /\ q[i].status \in {c.queue[i].status, "rejected"}
  BY <1>2 DEF Entry
<1>4. d = [c EXCEPT !.queue = q]
  BY DEF Reject
<1> HIDE DEF q
<1>5. /\ d.base = c.base /\ d.remote = c.remote /\ d.queue = q
      /\ d.model = c.model /\ d.syncing = c.syncing
  BY <1>1, <1>4 DEF Client
<1>6. LeftOf(q, c.queue) /\ IdsOf(q) = IdsOf(c.queue)
  BY <1>1, <1>3 DEF LeftOf, IdsOf
<1>7. \A i \in DOMAIN s : s[i].id \in IdsOf(d.queue) \cup Prefix(l, d.base)
  BY <1>5, <1>6 DEF Careful
<1>8. 1 \in DOMAIN d.queue /\ d.queue[1].status = "pending" => d.queue[1].base <= d.base
  BY <1>1, <1>3, <1>5 DEF Careful
<1>9. Careful(d, l, s)
  BY <1>5, <1>6, <1>7, <1>8, LeftIsCareful
<1> QED
  BY <1>5, <1>9

\* flushQueue sends an operation with a base it was compared up to.
LEMMA SendHeadCareful ==
  ASSUME NEW l, NEW s, NEW c \in Client, c.base <= Len(l), Careful(c, l, s), SendHead(c)
  PROVE  /\ Careful(client', l, s)
         /\ client'.base = c.base /\ client'.remote = c.remote /\ client'.model = c.model
         /\ client'.ready = c.ready /\ client'.syncing = c.syncing
         /\ IdsOf(client'.queue) = IdsOf(c.queue)
         /\ request'.stage = "posting" => Comparable(request', l, s)
<1> DEFINE q == c.queue
<1>1. /\ c \in Client /\ q \in Seq(Entry) /\ DOMAIN q = 1 .. Len(q) /\ Len(q) \in Nat
  BY LenProperties DEF Client
<1>2. CASE ~CanSend(c)
  BY <1>2 DEF SendHead, NoRequest
<1>3. CASE CanSend(c)
  <2> DEFINE h == q[1]
             p == [q EXCEPT ![1].status = "sent"]
             own == c.own \cup {h.id}
  <2>1. q # << >> /\ Len(q) >= 1 /\ 1 \in DOMAIN q /\ Head(q) = h /\ h \in Entry
        /\ h.status # "rejected"
    <3>1. q # << >>
      BY <1>3 DEF CanSend
    <3>2. Len(q) >= 1
      BY <1>1, <3>1, EmptySeq
    <3> QED
      BY <1>1, <1>3, <3>1, <3>2, ElementOfSeq DEF CanSend
  <2>2. /\ client' = [c EXCEPT !.queue[1].status = "sent", !.own = @ \cup {Head(q).id}]
        /\ request' = [stage |-> "posting", id |-> h.id, base |-> h.base, revision |-> 0]
    BY <1>3, <2>1 DEF SendHead
  <2>3. /\ DOMAIN p = DOMAIN q /\ \A i \in DOMAIN q : i # 1 => p[i] = q[i]
        /\ p[1].id = h.id /\ p[1].base = h.base /\ p[1].status = "sent"
    <3> DEFINE e == [h EXCEPT !.status = "sent"]
    <3>1. e.id = h.id /\ e.base = h.base /\ e.status = "sent"
      BY <2>1 DEF Entry
    <3>2. p = [q EXCEPT ![1] = e]
      BY <1>1, <2>1
    <3> HIDE DEF e, p
    <3> QED
      BY <1>1, <2>1, <3>1, <3>2, ExceptSeq, LenProperties
  <2>4. IdsOf(p) = IdsOf(q)
    <3> HIDE DEF p
    <3>1. \A i \in DOMAIN q : p[i].id = q[i].id
      BY <2>3
    <3> QED
      BY <2>3, <3>1 DEF IdsOf
  <2>5. client' = [c EXCEPT !.queue = p, !.own = own]
    BY <1>1, <2>1, <2>2 DEF Client
  <2> HIDE DEF p, own
  <2>6. /\ client'.base = c.base /\ client'.remote = c.remote /\ client'.model = c.model
        /\ client'.ready = c.ready /\ client'.syncing = c.syncing /\ client'.queue = p
    BY <1>1, <2>5 DEF Client
  <2>7. h.base <= Len(l) /\ FitsIn(h.base, h.id, l, s)
    <3>1. Fits(h, c.base, l, s)
      BY <2>1 DEF Careful
    <3>2. CASE h.status = "sent"
      BY <3>1, <3>2 DEF Fits
    <3>3. CASE h.status = "pending"
      <4>1. h.base <= c.base /\ h.base \in Nat /\ c.base \in Nat
        BY <1>1, <2>1, <3>3 DEF Careful, Entry, Client
      <4>2. \A r \in 1 .. h.base : r \in 1 .. c.base
        BY <4>1
      <4>3. FitsIn(h.base, h.id, l, s)
        BY <3>1, <3>3, <4>2 DEF Fits, FitsIn, SeenThrough
      <4> QED
        BY <4>1, <4>3
    <3> QED
      BY <2>1, <3>2, <3>3 DEF Entry
  <2>8. \A m \in DOMAIN p : Fits(p[m], c.base, l, s)
    <3>1. Fits(p[1], c.base, l, s)
      BY <2>3, <2>7 DEF Fits
    <3>2. \A m \in DOMAIN q : Fits(q[m], c.base, l, s)
      BY DEF Careful
    <3> QED
      BY <2>3, <3>1, <3>2
  <2>9. Careful(client', l, s)
    BY <2>3, <2>4, <2>6, <2>8 DEF Careful
  <2>10. Comparable(request', l, s)
    BY <2>2, <2>7 DEF Comparable
  <2> QED
    BY <2>4, <2>6, <2>9, <2>10
<1> QED
  BY <1>2, <1>3

LEMMA FlushAllCareful ==
  ASSUME NEW l, NEW s, NEW c \in Client, c.base <= Len(l), Careful(c, l, s), FlushAll(c),
         request.stage = "posting" => Comparable(request, l, s)
  PROVE  /\ Careful(client', l, s)
         /\ client'.base = c.base /\ client'.remote = c.remote /\ client'.model = c.model
         /\ client'.ready = c.ready /\ client'.syncing = c.syncing
         /\ IdsOf(client'.queue) = IdsOf(c.queue)
         /\ request'.stage = "posting" => Comparable(request', l, s)
  BY SendHeadCareful DEF FlushAll

-----------------------------------------------------------------------------
(* A commit. *)

LEMMA FitsOfAppend ==
  ASSUME NEW l \in Seq(Operations), NEW id \in Operations, NEW s, NEW x,
         NEW n \in Nat, n <= Len(l), FitsIn(n, x, l, s)
  PROVE  FitsIn(n, x, Append(l, id), s)
<1>1. \A i \in 1 .. Len(l) : Append(l, id)[i] = l[i]
  BY AppendProperties
<1>2. OperationsOf(Append(l, id)) = OperationsOf(l) \cup {id}
  BY LenProperties, PrefixOfAppend
<1>3. \A i \in 1 .. n : i \in 1 .. Len(l)
  BY LenProperties
<1> QED
  BY <1>1, <1>2, <1>3 DEF FitsIn, SeenThrough

LEMMA ComparableOfAppend ==
  ASSUME NEW l \in Seq(Operations), NEW id \in Operations, NEW s, NEW r,
         r.base \in Nat, Comparable(r, l, s)
  PROVE  Comparable(r, Append(l, id), s)
<1>1. Len(Append(l, id)) = Len(l) + 1 /\ Len(l) \in Nat
  BY AppendProperties, LenProperties
<1> QED
  BY <1>1, FitsOfAppend DEF Comparable

\* The server commits over nothing that the operation was not compared with.
LEMMA CommitIsCareful ==
  ASSUME NEW l \in Seq(Operations), NEW id \in Operations, NEW s, NEW c, NEW x,
         CareWith(c, l, s, x), Sound(c, l, s),
         \A k \in Connections : x[k].hydrated \in Nat /\ x[k].hydrated <= Len(l)
                                /\ x[k].history \in Nat /\ x[k].history <= Len(l),
         \A j \in DOMAIN s : s[j].id = id =>
           \A r \in 1 .. Len(l) : Overlap(id, l[r]) => l[r] \in s[j].seen
  PROVE  CareWith(c, Append(l, id), s, x)
<1> DEFINE L == Append(l, id)
<1>1. /\ Len(L) = Len(l) + 1 /\ Len(l) \in Nat /\ DOMAIN l = 1 .. Len(l)
      /\ DOMAIN L = 1 .. Len(l) + 1
      /\ \A i \in 1 .. Len(l) : L[i] = l[i]
      /\ L[Len(l) + 1] = id
  <2>1. L \in Seq(Operations) /\ Len(L) = Len(l) + 1
    BY AppendProperties
  <2> QED
    BY <2>1, AppendProperties, LenProperties
<1>2. \A r \in Nat : r <= Len(l) => Prefix(L, r) = Prefix(l, r)
  BY PrefixOfAppend
<1>3. c.base \in Nat /\ c.base <= Len(l) /\ c.queue \in Seq(Entry)
  BY DEF Sound, Client
<1> HIDE DEF L
<1>4. \A e \in Entry : Fits(e, c.base, l, s) => Fits(e, c.base, L, s)
  <2> SUFFICES ASSUME NEW e \in Entry, Fits(e, c.base, l, s) PROVE Fits(e, c.base, L, s)
    OBVIOUS
  <2>1. e.status = "pending" => FitsIn(c.base, e.id, L, s)
    BY <1>3, FitsOfAppend DEF Fits, L
  <2>2. e.status = "sent" => FitsIn(e.base, e.id, L, s)
    <3>1. e.base \in Nat
      BY DEF Entry
    <3> QED
      BY <3>1, FitsOfAppend DEF Fits, L
  <2>3. e.status = "sent" => e.base <= Len(L)
    BY <1>1 DEF Fits, Entry
  <2> QED
    BY <2>1, <2>2, <2>3 DEF Fits
<1>5. Careful(c, L, s)
  <2>1. \A m \in DOMAIN c.queue : c.queue[m] \in Entry
    BY <1>3, ElementOfSeq, LenProperties
  <2> QED
    BY <1>2, <1>3, <1>4, <2>1 DEF CareWith, Careful
<1>6. c.ready => Full(c, L)
  BY <1>2, <1>3 DEF CareWith, Full
<1>7. ASSUME NEW k \in Connections PROVE LoadFits(x[k], c, L)
  <2>1. LoadFits(x[k], c, l)
    BY DEF CareWith
  <2>2. Prefix(L, x[k].hydrated) = Prefix(l, x[k].hydrated)
        /\ Prefix(L, x[k].history) = Prefix(l, x[k].history)
    BY <1>2
  <2> QED
    BY <2>1, <2>2 DEF LoadFits
<1>8. Committed(L, s)
  <2> SUFFICES ASSUME NEW j \in DOMAIN s, NEW n \in DOMAIN L, L[n] = s[j].id,
                      NEW r \in 1 .. n - 1, Overlap(s[j].id, L[r])
               PROVE  L[r] \in s[j].seen
    BY DEF Committed
  <2>1. r \in 1 .. Len(l) /\ L[r] = l[r]
    BY <1>1
  <2>2. CASE n \in 1 .. Len(l)
    BY <1>1, <2>1, <2>2 DEF CareWith, Committed
  <2>3. CASE n = Len(l) + 1
    BY <1>1, <2>1, <2>3
  <2> QED
    BY <1>1, <2>2, <2>3
<1>9. CareWith(c, L, s, x)
  BY <1>5, <1>6, <1>7, <1>8 DEF CareWith
<1> QED
  BY <1>9 DEF L
-----------------------------------------------------------------------------
(* Each action keeps the comparisons. *)

LEMMA OrderedHolds ==
  ASSUME IInv, Care
  PROVE  Ordered(log, issued)
<1>1. DOMAIN issued \subseteq Nat
  BY LenProperties DEF IInv, TypeOK
<1> QED
  BY <1>1, OrderHolds DEF IInv, CommittedOnce, Care, CareWith, Ordered

LEMMA SameLoadFits ==
  ASSUME NEW x, NEW c, NEW l, LoadFits(x, c, l), NEW d,
         d.model = c.model, d.base = c.base, d.remote = c.remote, d.syncing = c.syncing,
         ~c.ready => ~d.ready
  PROVE  LoadFits(x, d, l)
  BY Zenon DEF LoadFits

LEMMA IdleFits ==
  ASSUME NEW x, x.stage = "idle", NEW c, NEW l
  PROVE  LoadFits(x, c, l)
  BY DEF LoadFits

LEMMA ReadyIsIdle ==
  ASSUME Care, client.ready
  PROVE  \A k \in Connections : loads[k].stage = "idle"
  BY DEF Care, CareWith, LoadFits

LEMMA NothingPasses ==
  ASSUME NEW n \in Int, PassesOver(n) \subseteq {"closed"}, client.base \in Nat
  PROVE  client.base >= n \/ \A m \in DOMAIN client.queue : client.queue[m].status # "pending"
  BY DEF PassesOver

\* Where the log and the history stay.
LEMMA QuietCare ==
  ASSUME Care, log' = log, issued' = issued,
         Careful(client', log, issued), client'.remote <= client'.base,
         client'.ready => Full(client', log),
         OneLoad(loads'), \A k \in Connections : LoadFits(loads'[k], client', log),
         request'.stage = "posting" => Comparable(request', log, issued),
         \A r \in late' : Comparable(r, log, issued)
  PROVE  Care'
  BY DEF Care, CareWith

\* Where the client keeps what the loads read.
LEMMA ClientCare ==
  ASSUME Care, UNCHANGED <<log, issued, loads>>,
         Careful(client', log, issued),
         client'.base = client.base, client'.remote = client.remote,
         client'.model = client.model, client'.syncing = client.syncing,
         client'.ready => (client.ready /\ IdsOf(client'.queue) = IdsOf(client.queue)),
         request'.stage = "posting" => Comparable(request', log, issued),
         \A r \in late' : Comparable(r, log, issued)
  PROVE  Care'
<1>1. \A k \in Connections : LoadFits(loads[k], client', log)
  BY SameLoadFits DEF Care, CareWith
<1>2. client'.ready => Full(client', log)
  BY DEF Care, CareWith, Full
<1>3. OneLoad(loads) /\ client'.remote <= client'.base
  BY DEF Care, CareWith
<1> QED
  BY <1>1, <1>2, <1>3, QuietCare

LEMMA FlushPendingKeepsCare ==
  ASSUME IInv, Care, FlushPending \/ SendNext
  PROVE  Care'
<1>1. SendHead(client) /\ UNCHANGED <<log, issued, late, loads>>
  BY DEF FlushPending, SendNext
<1>2. client \in Client /\ client.base <= Len(log) /\ Careful(client, log, issued)
  BY DEF IInv, Sound, Care, CareWith
<1>3. /\ Careful(client', log, issued)
      /\ client'.base = client.base /\ client'.remote = client.remote
      /\ client'.model = client.model
      /\ client'.ready = client.ready /\ client'.syncing = client.syncing
      /\ IdsOf(client'.queue) = IdsOf(client.queue)
      /\ request'.stage = "posting" => Comparable(request', log, issued)
  BY <1>1, <1>2, SendHeadCareful
<1>4. \A r \in late' : Comparable(r, log, issued)
  BY <1>1 DEF Care
<1> QED
  BY <1>1, <1>3, <1>4, ClientCare

LEMMA SendFailsKeepsCare ==
  ASSUME IInv, Care, SendFails
  PROVE  Care'
<1> DEFINE c == Reject(client, request.id)
           e == [c EXCEPT !.own = @ \ {request.id}, !.ready = FALSE]
<1>1. /\ client' = e
      /\ late' = IF request.stage = "posting"
                 THEN late \cup {[id |-> request.id, base |-> request.base]} ELSE late
      /\ request' = NoRequest
      /\ UNCHANGED <<log, loads, issued>>
  BY DEF SendFails
<1>2. /\ Careful(c, log, issued) /\ c.base = client.base /\ c.remote = client.remote
      /\ c.model = client.model /\ c.syncing = client.syncing /\ c \in Client
  <2>1. Sound(client, log, issued) /\ Careful(client, log, issued)
    BY DEF IInv, Care, CareWith
  <2>2. c \in Client
    BY <2>1, RejectSound DEF Sound
  <2>3. c = Reject(client, request.id)
    OBVIOUS
  <2> HIDE DEF c
  <2> QED
    BY <2>1, <2>2, <2>3, RejectCareful
<1> HIDE DEF c
<1>3. /\ e.base = c.base /\ e.remote = c.remote /\ e.model = c.model
      /\ e.syncing = c.syncing /\ e.queue = c.queue /\ ~e.ready
  BY <1>2 DEF Client
<1> HIDE DEF e
<1>4. Careful(client', log, issued)
  BY <1>1, <1>2, <1>3, SameIsCareful
<1>5. \A r \in late' : Comparable(r, log, issued)
  BY <1>1 DEF Care, Comparable
<1>6. request'.stage # "posting"
  BY <1>1 DEF NoRequest
<1> QED
  BY <1>1, <1>2, <1>3, <1>4, <1>5, <1>6, ClientCare

LEMMA DisconnectKeepsCare ==
  ASSUME IInv, Care, Disconnect
  PROVE  Care'
<1>1. /\ client' = [client EXCEPT !.connected = FALSE, !.ready = FALSE]
      /\ UNCHANGED <<log, request, late, loads, issued>> /\ client \in Client
  BY DEF Disconnect, IInv, TypeOK
<1>2. /\ client'.base = client.base /\ client'.remote = client.remote
      /\ client'.model = client.model /\ client'.syncing = client.syncing
      /\ client'.queue = client.queue /\ ~client'.ready
  BY <1>1 DEF Client
<1>3. Careful(client', log, issued)
  BY <1>2, SameIsCareful DEF Care, CareWith
<1> QED
  BY <1>1, <1>2, <1>3, ClientCare DEF Care

LEMMA BroadcastKeepsCare ==
  ASSUME IInv, Care, NEW r \in unsent, Broadcast(r)
  PROVE  Care'
<1>1. client' = Receive(client, r) /\ UNCHANGED <<log, request, late, loads, issued>>
  BY DEF Broadcast
<1>2. /\ TypeOK /\ Sound(client, log, issued) /\ Careful(client, log, issued)
      /\ client.remote <= client.base /\ r \in 1 .. Revision
  BY DEF IInv, TypeOK, Care, CareWith
<1>3. /\ Advances(client', client, log, issued)
      /\ client.syncing =>
           /\ client'.model = client.model /\ client'.base = client.base
           /\ client'.remote = client.remote
           /\ client'.queue = client.queue /\ client'.syncing = client.syncing
  BY <1>1, <1>2, OrderedHolds, ReceiveAdvances
<1>4. client'.ready => Full(client', log)
  BY <1>3, Zenon DEF Advances, Care, CareWith
<1>5. ~client.ready => ~client'.ready
  BY <1>3, Zenon DEF Advances
<1>6. ASSUME NEW k \in Connections PROVE LoadFits(loads[k], client', log)
  <2>1. LoadFits(loads[k], client, log)
    BY DEF Care, CareWith
  <2>2. CASE loads[k].stage = "idle"
    BY <2>2, IdleFits
  <2>3. CASE loads[k].stage # "idle"
    <3>1. client.syncing
      BY <2>1, <2>3 DEF LoadFits
    <3> QED
      BY <1>3, <1>5, <2>1, <3>1, SameLoadFits
  <2> QED
    BY <2>2, <2>3
<1>7. OneLoad(loads) /\ Careful(client', log, issued) /\ client'.remote <= client'.base
  BY <1>3 DEF Care, CareWith, Advances
<1> QED
  BY <1>1, <1>4, <1>6, <1>7, QuietCare DEF Care

LEMMA OpenKeepsCare ==
  ASSUME IInv, Care, Calm', Open
  PROVE  Care'
<1>1. /\ opened < MaxConnections
      /\ client' = [client EXCEPT !.connected = TRUE, !.ready = FALSE,
                                  !.syncing = TRUE, !.failed = FALSE]
      /\ loads' = [loads EXCEPT ![opened + 1].stage = "opened"]
      /\ races' = races \cup {kind \in {"overlap"} : \E k \in Connections : Loading(k)}
      /\ UNCHANGED <<log, request, late, issued>>
  BY DEF Open
<1>2. client \in Client /\ loads \in [Connections -> Load] /\ opened + 1 \in Connections
  BY <1>1, OperationsAssumption DEF IInv, TypeOK, Connections
<1>3. /\ client'.base = client.base /\ client'.remote = client.remote
      /\ client'.queue = client.queue /\ ~client'.ready /\ client'.syncing
  BY <1>1, <1>2 DEF Client
<1>4. \A k \in Connections : loads[k].stage = "idle"
  BY <1>1 DEF Calm, Loading
<1>5. \A k \in Connections : k # opened + 1 => loads'[k].stage = "idle"
  BY <1>1, <1>2, <1>4
<1>6. loads'[opened + 1].stage = "opened"
  BY <1>1, <1>2 DEF Load
<1>7. \A k \in Connections : LoadFits(loads'[k], client', log)
  BY <1>3, <1>5, <1>6, IdleFits DEF LoadFits
<1>8. OneLoad(loads')
  BY <1>5 DEF OneLoad
<1>9. Careful(client', log, issued) /\ client'.remote <= client'.base
  BY <1>3, SameIsCareful DEF Care, CareWith
<1> QED
  BY <1>1, <1>3, <1>7, <1>8, <1>9, QuietCare DEF Care

LEMMA LoadFailsKeepsCare ==
  ASSUME IInv, Care, NEW k \in Connections, LoadFails(k)
  PROVE  Care'
<1>1. /\ client' = [client EXCEPT !.syncing = FALSE, !.failed = TRUE, !.ready = FALSE]
      /\ loads' = [loads EXCEPT ![k] = NotLoading] /\ loads[k].stage # "idle"
      /\ UNCHANGED <<log, request, late, issued>>
  BY DEF LoadFails, Loading
<1>2. client \in Client /\ loads \in [Connections -> Load]
  BY DEF IInv, TypeOK
<1>3. /\ client'.base = client.base /\ client'.remote = client.remote
      /\ client'.queue = client.queue /\ ~client'.ready
  BY <1>1, <1>2 DEF Client
<1>4. \A j \in Connections : loads'[j].stage = "idle"
  BY <1>1, <1>2 DEF Care, CareWith, OneLoad, NotLoading
<1>5. \A j \in Connections : LoadFits(loads'[j], client', log)
  BY <1>4, IdleFits
<1>6. OneLoad(loads') /\ Careful(client', log, issued) /\ client'.remote <= client'.base
  BY <1>3, <1>4, SameIsCareful DEF Care, CareWith, OneLoad
<1> QED
  BY <1>1, <1>3, <1>5, <1>6, QuietCare DEF Care
\* An answer that no load has missed.
LEMMA AnsweredLoadFits ==
  ASSUME NEW x \in Load, NEW c \in Client, NEW l, LoadFits(x, c, l), NEW r \in Nat,
         NEW d \in Client, d.model = c.model, d.syncing = c.syncing, d.ready = c.ready,
         d.base \in {c.base, r}, d.remote >= c.remote, d.remote >= r,
         x.stage \in {"newer", "finishing"} => r <= x.history
  PROVE  LoadFits(x, d, l)
<1>1. /\ x.history \in Nat /\ c.base \in Nat /\ d.base \in Nat
      /\ c.remote \in Nat /\ d.remote \in Nat
  BY DEF Load, Client
<1>2. c.base <= x.history \/ c.remote > x.history =>
        d.base <= x.history \/ d.remote > x.history
  BY <1>1
<1>3. ~c.ready => ~d.ready
  BY Zenon
<1>4. x.stage # "idle" => d.syncing /\ ~d.ready
  BY <1>3, Zenon DEF LoadFits
<1>5. x.stage \in {"newer", "finishing"} => d.base <= x.history
  BY <1>1 DEF LoadFits
<1> QED
  BY <1>2, <1>4, <1>5 DEF LoadFits

\* An acknowledgement: by an answer to the request or by a load.
LEMMA AnswerCareful ==
  ASSUME IInv, Care, NEW r \in 1 .. Len(log), log[r] \in OwnOperations,
         PassesOver(r - 1) \subseteq {"closed"},
         NEW b, Sound(b, log, issued), b.base = client.base, b.queue = client.queue,
         NEW d, d = Acknowledge(b, log[r], r)
  PROVE  /\ Careful(d, log, issued) /\ r <= d.base /\ b.base <= d.base
         /\ d.base \in {b.base, r} /\ IdsOf(d.queue) \subseteq IdsOf(b.queue)
<1>1. /\ log \in Seq(Operations) /\ DOMAIN log = 1 .. Len(log) /\ client.base \in Nat
      /\ Careful(client, log, issued) /\ r \in Int /\ r - 1 \in Int
  BY LogAsPrefix DEF IInv, TypeOK, Client, Care, CareWith
<1>2. \E i \in DOMAIN issued : issued[i].id = log[r]
  BY <1>1 DEF IInv, OwnWereIssued
<1>3. client.base >= r - 1
      \/ \A m \in DOMAIN client.queue : client.queue[m].status # "pending"
  BY <1>1, NothingPasses
<1>4. b.base >= r - 1 \/ \A m \in DOMAIN b.queue : b.queue[m].status # "pending"
  BY <1>3
<1>5. Careful(b, log, issued)
  BY <1>1, SameIsCareful
<1>6. Ordered(log, issued)
  BY OrderedHolds
<1> QED
  BY <1>1, <1>2, <1>4, <1>5, <1>6, AcknowledgeCareful

LEMMA AnswerKeepsCare ==
  ASSUME IInv, Care, UNCHANGED <<log, late, issued>>,
         NEW r \in 1 .. Len(log), log[r] \in OwnOperations,
         client.ready => r <= client.remote + 1,
         client' \in Client, Careful(client', log, issued), r <= client'.base,
         client.base <= client'.base,
         client'.base \in {client.base, r}, IdsOf(client'.queue) \subseteq IdsOf(client.queue),
         client'.model = client.model, client'.ready = client.ready,
         client'.syncing = client.syncing,
         client'.remote \in {client.remote, r}, client'.remote >= client.remote,
         client'.remote >= r,
         loads' \in [Connections -> Load],
         \A k \in Connections :
           /\ loads'[k].stage = loads[k].stage
           /\ loads'[k].hydrated = loads[k].hydrated /\ loads'[k].history = loads[k].history
           /\ loads[k].stage \in {"newer", "finishing"} => r <= loads[k].history,
         request'.stage # "posting" \/ request' = request
  PROVE  Care'
<1>1. /\ client \in Client /\ client.base \in Nat /\ client.remote \in Nat /\ r \in Nat
      /\ log \in Seq(Operations) /\ DOMAIN log = 1 .. Len(log)
      /\ Careful(client, log, issued) /\ client.remote <= client.base
  BY LogAsPrefix DEF IInv, TypeOK, Client, Care, CareWith
<1>2. \E i \in DOMAIN issued : issued[i].id = log[r]
  BY <1>1 DEF IInv, OwnWereIssued
<1>7. client'.remote <= client'.base
  BY <1>1 DEF Client
<1>8. ASSUME client.ready PROVE Full(client', log)
  <2>1. Full(client, log)
    BY <1>8 DEF Care, CareWith
  <2>2. r <= client.base + 1
    BY <1>1, <1>8
  <2>3. Prefix(log, client'.base) \subseteq Prefix(log, client.base) \cup {log[r]}
    <3>1. CASE client'.base = client.base
      BY <3>1
    <3>2. CASE client'.base # client.base
      <4>1. client'.base = client.base + 1 /\ r = client.base + 1
        BY <1>1, <2>2, <3>2
      <4>2. Prefix(log, client.base + 1) = Prefix(log, client.base) \cup {log[client.base + 1]}
        BY <1>1, PrefixExtends
      <4> QED
        BY <4>1, <4>2
    <3> QED
      BY <3>1, <3>2
  <2>4. log[r] \in IdsOf(client.queue) \cup Prefix(log, client.base)
    BY <1>1, <1>2 DEF Careful
  <2> QED
    BY <2>1, <2>3, <2>4 DEF Full
<1>9. \A k \in Connections : LoadFits(loads'[k], client', log)
  <2> SUFFICES ASSUME NEW k \in Connections PROVE LoadFits(loads'[k], client', log)
    OBVIOUS
  <2>1. LoadFits(loads'[k], client, log)
    <3>1. LoadFits(loads[k], client, log)
      BY DEF Care, CareWith
    <3> QED
      BY <3>1 DEF LoadFits
  <2> QED
    BY <1>1, <2>1, AnsweredLoadFits
<1>10. OneLoad(loads')
  BY DEF Care, CareWith, OneLoad
<1>11. /\ request'.stage = "posting" => Comparable(request', log, issued)
       /\ \A x \in late' : Comparable(x, log, issued)
  BY DEF Care
<1>12. client'.ready => Full(client', log)
  BY <1>8, Zenon
<1> QED
  BY <1>7, <1>9, <1>10, <1>11, <1>12, QuietCare

LEMMA AcknowledgedKeepsCare ==
  ASSUME IInv, Care, Calm', Acknowledged
  PROVE  Care'
<1> DEFINE r == request.revision
           b == SetRemote(client, r)
           d == Acknowledge(b, request.id, r)
<1>1. /\ request.stage = "committed" /\ client' = [d EXCEPT !.own = @ \ {request.id}]
      /\ request' = [request EXCEPT !.stage = "acknowledged"]
      /\ races' = races \cup RacesOf(r) \cup PassesOver(r - 1)
      /\ UNCHANGED <<log, late, loads, issued>>
  BY DEF Acknowledged
<1>2. /\ request \in Request /\ r \in DOMAIN log /\ log[r] = request.id
      /\ request.id \in OwnOperations
  <2>1. request # NoRequest
    BY <1>1 DEF NoRequest
  <2> QED
    BY <1>1, <2>1, PartsAreGood DEF GoodRequest, Request
<1>3. /\ log \in Seq(Operations) /\ r \in 1 .. Len(log) /\ r \in 0 .. Len(log) /\ r \in Nat
      /\ client \in Client /\ loads \in [Connections -> Load]
  BY <1>2, LogAsPrefix DEF IInv, TypeOK
<1>4. Sound(b, log, issued) /\ b \in Client
  BY <1>3, SetRemoteSound DEF IInv, Sound
<1>5. Sound(d, log, issued) /\ d \in Client
  BY <1>2, <1>3, <1>4, AcknowledgeSound DEF Sound
<1>6. /\ b.base = client.base /\ b.queue = client.queue /\ b.model = client.model
      /\ b.remote \in {client.remote, r} /\ b.remote >= client.remote /\ b.remote >= r
      /\ b.ready = client.ready /\ b.syncing = client.syncing
  <2>1. b = SetRemote(client, r)
    OBVIOUS
  <2> HIDE DEF b, d, r
  <2> QED
    BY <1>3, <2>1, SetRemoteFields
<1>7. d = Acknowledge(b, log[r], r)
  BY <1>2
<1> HIDE DEF b
<1>8. /\ d.model = b.model /\ d.remote = b.remote /\ d.ready = b.ready /\ d.syncing = b.syncing
  BY <1>4 DEF Acknowledge, Client
<1> HIDE DEF d
<1>9. /\ client'.base = d.base /\ client'.queue = d.queue /\ client'.model = d.model
      /\ client'.remote = d.remote /\ client'.ready = d.ready /\ client'.syncing = d.syncing
      /\ client' \in Client
  BY <1>1, <1>5 DEF Client
<1>10. PassesOver(r - 1) \subseteq {"closed"} /\ RacesOf(r) \subseteq {"closed"}
  BY <1>1 DEF Calm
<1>11. client.ready => r <= client.remote + 1
  <2>1. "skips" \notin RacesOf(r)
    BY <1>10
  <2>2. client.ready => \A k \in Connections : ~Loading(k)
    BY ReadyIsIdle DEF Loading
  <2>3. client.ready => ~(r > client.remote + 1)
    BY <2>1, <2>2 DEF RacesOf
  <2> QED
    BY <1>3, <2>3 DEF Client
<1>12. \A k \in Connections : loads[k].stage \in {"newer", "finishing"} => r <= loads[k].history
  <2>1. "missed" \notin RacesOf(r)
    BY <1>10
  <2>2. \A k \in Connections : loads[k].stage \in {"newer", "finishing"} => ~(loads[k].history < r)
    BY <2>1 DEF RacesOf
  <2>3. \A k \in Connections : loads[k].history \in Nat
    BY <1>3 DEF Load
  <2> QED
    BY <1>3, <2>2, <2>3
<1>13. request'.stage # "posting"
  BY <1>1, <1>2 DEF Request
<1> HIDE DEF r
<1>14. /\ client'.model = client.model /\ client'.ready = client.ready
       /\ client'.syncing = client.syncing
       /\ client'.remote \in {client.remote, r} /\ client'.remote >= client.remote
       /\ client'.remote >= r
  BY <1>6, <1>8, <1>9
<1>15. /\ log[r] \in OwnOperations /\ loads' \in [Connections -> Load]
       /\ \A k \in Connections :
            /\ loads'[k].stage = loads[k].stage
            /\ loads'[k].hydrated = loads[k].hydrated /\ loads'[k].history = loads[k].history
            /\ loads[k].stage \in {"newer", "finishing"} => r <= loads[k].history
  BY <1>1, <1>2, <1>3, <1>12
<1>16. UNCHANGED <<log, late, issued>>
  BY <1>1
<1>17. /\ Careful(d, log, issued) /\ r <= d.base /\ b.base <= d.base
       /\ d.base \in {b.base, r} /\ IdsOf(d.queue) \subseteq IdsOf(b.queue)
  BY <1>3, <1>4, <1>6, <1>7, <1>10, <1>15, AnswerCareful
<1>18. Careful(client', log, issued)
  BY <1>9, <1>17, SameIsCareful
<1> QED
  BY <1>3, <1>6, <1>9, <1>11, <1>13, <1>14, <1>15, <1>16, <1>17, <1>18, AnswerKeepsCare

LEMMA CheckResultKeepsCare ==
  ASSUME IInv, Care, Calm', NEW k \in Connections, CheckResult(k)
  PROVE  Care'
<1> DEFINE entry == Head(loads[k].todo)
           r == RevisionOf(entry.id)
           x == [loads[k] EXCEPT !.todo = Tail(@)]
<1>1. loads[k] \in Load /\ loads \in [Connections -> Load]
  BY PartsAreGood
<1>2. /\ loads[k].todo # << >> /\ loads[k].stage = "results"
      /\ loads' = [loads EXCEPT ![k] = x]
      /\ UNCHANGED <<log, request, late, issued>>
  BY <1>1 DEF CheckResult
<1>3. loads[k].todo \in Seq(Entry)
  BY <1>1 DEF Load
<1>4. entry \in Entry
  BY <1>2, <1>3, HeadTailProperties
<1>5. /\ x \in Load /\ x.stage = loads[k].stage /\ x.hydrated = loads[k].hydrated
      /\ x.history = loads[k].history
  <2> DEFINE todo == Tail(loads[k].todo)
  <2>1. todo \in Seq(Entry)
    BY <1>2, <1>3, HeadTailProperties
  <2>2. x = [loads[k] EXCEPT !.todo = todo]
    BY <1>1
  <2> HIDE DEF todo, x
  <2> QED
    BY <1>1, <2>1, <2>2 DEF Load
<1> HIDE DEF x
<1>6. loads' \in [Connections -> Load]
  BY <1>1, <1>2, <1>5
<1>7. \A j \in Connections :
        /\ loads'[j].stage = loads[j].stage
        /\ loads'[j].hydrated = loads[j].hydrated /\ loads'[j].history = loads[j].history
        /\ ~(loads[j].stage \in {"newer", "finishing"})
  <2>1. \A j \in Connections : j # k => loads[j].stage = "idle"
    BY <1>2 DEF Care, CareWith, OneLoad
  <2> QED
    BY <1>1, <1>2, <1>5, <2>1
<1>8. CASE InLog(entry.id) /\ races' = races \cup PassesOver(r - 1)
           /\ client' = SetRemote([Acknowledge(client, entry.id, r) EXCEPT !.own = @ \ {entry.id}], r)
  <2> DEFINE c == Acknowledge(client, entry.id, r)
             d == [c EXCEPT !.own = @ \ {entry.id}]
  <2>1. r \in 1 .. Len(log) /\ r \in Nat /\ log[r] = entry.id /\ log \in Seq(Operations)
    <3>1. /\ log \in Seq(Operations) /\ Revision = Len(log) /\ Revision \in Nat
          /\ r \in 1 .. Revision /\ log[r] = entry.id
      <4>1. TypeOK /\ InLog(entry.id)
        BY <1>8 DEF IInv
      <4> QED
        BY ONLY <4>1, LogAsPrefix
    <3> QED
      BY ONLY <3>1
  <2>2. Sound(c, log, issued) /\ c \in Client
    BY <2>1, AcknowledgeSound DEF IInv, Sound
  <2>3. client \in Client
    BY DEF IInv, TypeOK
  <2>4. /\ c.model = client.model /\ c.remote = client.remote /\ c.ready = client.ready
        /\ c.syncing = client.syncing
    BY <2>3 DEF Acknowledge, Client
  <2>5. c = Acknowledge(client, log[r], r)
    BY <2>1
  <2> HIDE DEF c, r
  <2>6. /\ d.base = c.base /\ d.queue = c.queue /\ d.model = c.model /\ d.remote = c.remote
        /\ d.ready = c.ready /\ d.syncing = c.syncing /\ d \in Client
    BY <2>2 DEF Client
  <2>7. Sound(d, log, issued)
    BY <2>2, DisownSound
  <2>8. client' = SetRemote(d, r)
    BY <1>8 DEF c, r
  <2> HIDE DEF d
  <2>9. client' \in Client
    <3>1. r \in 0 .. Len(log)
      BY <2>1
    <3> QED
      BY <2>1, <2>7, <2>8, <3>1, SetRemoteSound DEF Sound
  <2>10. /\ client'.base = d.base /\ client'.queue = d.queue /\ client'.model = d.model
         /\ client'.remote \in {d.remote, r} /\ client'.remote >= d.remote
         /\ client'.remote >= r /\ client'.ready = d.ready /\ client'.syncing = d.syncing
    BY <2>1, <2>6, <2>8, SetRemoteFields
  <2>11. PassesOver(r - 1) \subseteq {"closed"}
    BY <1>8 DEF Calm, r
  <2>12. ~client.ready
    BY <1>2, ReadyIsIdle
  <2>13. log[r] \in OwnOperations /\ Sound(client, log, issued)
    BY <1>4, <2>1 DEF Entry, IInv
  <2>14. /\ Careful(c, log, issued) /\ r <= c.base /\ client.base <= c.base
         /\ c.base \in {client.base, r} /\ IdsOf(c.queue) \subseteq IdsOf(client.queue)
    <3>1. /\ Sound(client, log, issued) /\ r \in 1 .. Len(log) /\ log[r] \in OwnOperations
          /\ PassesOver(r - 1) \subseteq {"closed"}
      BY <2>1, <2>11, <2>13
    <3> HIDE DEF entry, d
    <3> QED
      BY <2>5, <3>1, AnswerCareful
  <2>15. Careful(client', log, issued)
    BY <2>6, <2>10, <2>14, SameIsCareful
  <2>16. /\ r <= client'.base /\ client'.base \in {client.base, r} /\ client.base <= client'.base
         /\ IdsOf(client'.queue) \subseteq IdsOf(client.queue)
         /\ client'.model = client.model /\ client'.ready = client.ready
         /\ client'.syncing = client.syncing
         /\ client'.remote \in {client.remote, r} /\ client'.remote >= client.remote
         /\ client'.remote >= r
    BY <2>4, <2>6, <2>10, <2>14
  <2>17. \A j \in Connections :
           /\ loads'[j].stage = loads[j].stage
           /\ loads'[j].hydrated = loads[j].hydrated /\ loads'[j].history = loads[j].history
           /\ loads[j].stage \in {"newer", "finishing"} => r <= loads[j].history
    BY <1>7
  <2> QED
    BY <1>2, <1>6, <2>1, <2>9, <2>12, <2>13, <2>15, <2>16, <2>17, AnswerKeepsCare
<1>9. CASE UNCHANGED <<client, races>>
  <2>1. \A j \in Connections : LoadFits(loads'[j], client, log)
    BY <1>7 DEF Care, CareWith, LoadFits
  <2>2. OneLoad(loads')
    BY <1>7 DEF Care, CareWith, OneLoad
  <2> QED
    BY <1>2, <1>9, <2>1, <2>2, QuietCare DEF Care, CareWith
<1> QED
  BY <1>8, <1>9 DEF CheckResult
\* Where one load goes on: the others are idle.
LEMMA OneLoadCare ==
  ASSUME IInv, Care, UNCHANGED <<log, request, late, issued>>,
         NEW k \in Connections, loads[k].stage # "idle",
         NEW x, loads' = [loads EXCEPT ![k] = x],
         Careful(client', log, issued), client'.remote <= client'.base, ~client'.ready,
         LoadFits(x, client', log)
  PROVE  Care'
<1>1. loads \in [Connections -> Load]
  BY DEF IInv, TypeOK
<1>2. \A j \in Connections : j # k => loads'[j] = loads[j] /\ loads[j].stage = "idle"
  BY <1>1 DEF Care, CareWith, OneLoad
<1>3. loads'[k] = x
  BY <1>1
<1>4. \A j \in Connections : LoadFits(loads'[j], client', log)
  BY <1>2, <1>3, IdleFits
<1>5. OneLoad(loads')
  BY <1>2 DEF OneLoad
<1> QED
  BY <1>4, <1>5, QuietCare DEF Care

LEMMA HydratingKeepsCare ==
  ASSUME IInv, Care, Calm', NEW k \in Connections, HydrateSnapshot(k) \/ HydrateNewer(k)
  PROVE  Care'
<1> DEFINE r == IF loads[k].stage = "snapshot" THEN loads[k].hydrated ELSE loads[k].history
           x == loads'[k]
<1>1. loads[k] \in Load /\ GoodLoad(loads[k]) /\ loads \in [Connections -> Load]
      /\ TypeOK /\ client \in Client
  BY PartsAreGood DEF IInv, TypeOK
<1>2. /\ UNCHANGED <<log, request, late, issued>>
      /\ loads[k].stage \in {"snapshot", "newer"}
      /\ client' = Hydrate(client, r)
      /\ PassesOver(r) \subseteq {"closed"}
  BY DEF HydrateSnapshot, HydrateNewer, Calm
<1>3. r \in 0 .. Revision /\ r \in Int
  BY <1>1, LogAsPrefix DEF GoodLoad, Load
<1>4. /\ loads' = [loads EXCEPT ![k] = x]
      /\ x.hydrated = loads[k].hydrated /\ x.history = loads[k].history
      /\ loads[k].stage = "snapshot" => x.stage = "results"
      /\ loads[k].stage = "newer" => x.stage = "finishing"
  <2> HIDE DEF r
  <2>1. CASE HydrateSnapshot(k)
    <3> DEFINE y == [loads[k] EXCEPT !.stage = "results", !.todo = client.queue]
    <3>1. loads' = [loads EXCEPT ![k] = y] /\ loads[k].stage = "snapshot"
      BY <1>1, <2>1 DEF HydrateSnapshot
    <3>2. y.hydrated = loads[k].hydrated /\ y.history = loads[k].history /\ y.stage = "results"
      BY <1>1 DEF Load
    <3> HIDE DEF y
    <3> QED
      BY <1>1, <3>1, <3>2
  <2>2. CASE HydrateNewer(k)
    <3> DEFINE y == [loads[k] EXCEPT !.stage = "finishing"]
    <3>1. loads' = [loads EXCEPT ![k] = y] /\ loads[k].stage = "newer"
      BY <1>1, <2>2 DEF HydrateNewer
    <3>2. y.hydrated = loads[k].hydrated /\ y.history = loads[k].history /\ y.stage = "finishing"
      BY <1>1 DEF Load
    <3> HIDE DEF y
    <3> QED
      BY <1>1, <3>1, <3>2
  <2> QED
    BY <2>1, <2>2
<1>5. LoadFits(loads[k], client, log)
  BY DEF Care, CareWith
<1>6. /\ loads[k].stage = "snapshot" => r = loads[k].hydrated
      /\ loads[k].stage = "newer" => r = loads[k].history
  OBVIOUS
<1> HIDE DEF x, r
<1>7. client.base >= r \/ \A m \in DOMAIN client.queue : client.queue[m].status # "pending"
  BY <1>1, <1>2, <1>3, NothingPasses DEF Client
<1>8. /\ Careful(client', log, issued) /\ client'.remote <= client'.base
      /\ client'.base \in {client.base, r}
      /\ Prefix(log, r) \subseteq ToSet(client'.model)
      /\ client'.ready = client.ready /\ client'.syncing = client.syncing
  <2>1. Sound(client, log, issued) /\ Careful(client, log, issued)
    BY DEF IInv, Care, CareWith
  <2> QED
    BY <1>1, <1>2, <1>3, <1>7, <2>1, HydrateCareful
<1>9. ~client.ready /\ client.syncing
  BY <1>2, <1>5 DEF LoadFits
<1>10. ~client'.ready /\ client'.syncing
  BY <1>8, <1>9, Zenon
<1>11. LoadFits(x, client', log)
  <2>1. CASE loads[k].stage = "snapshot"
    BY <1>4, <1>6, <1>8, <1>10, <2>1 DEF LoadFits
  <2>2. CASE loads[k].stage = "newer"
    <3>1. client.base <= loads[k].history
      BY <1>5, <2>2 DEF LoadFits
    <3>2. client'.base <= loads[k].history
      BY <1>3, <1>6, <1>8, <2>2, <3>1
    <3> QED
      BY <1>4, <1>6, <1>8, <1>10, <2>2, <3>2 DEF LoadFits
  <2> QED
    BY <1>2, <2>1, <2>2
<1> QED
  BY <1>2, <1>4, <1>8, <1>10, <1>11, OneLoadCare

LEMMA ReadingKeepsCare ==
  ASSUME IInv, Care, NEW k \in Connections,
         ReadSnapshot(k) \/ ReadHistory(k) \/ ReceiveHistory(k)
  PROVE  Care'
<1> DEFINE x == loads'[k]
<1>1. loads[k] \in Load /\ GoodLoad(loads[k]) /\ loads \in [Connections -> Load]
      /\ client \in Client /\ Revision \in Nat
      /\ client.base <= Revision
  BY PartsAreGood, LogAsPrefix DEF IInv, TypeOK, Sound
<1>2. /\ UNCHANGED <<log, client, request, late, issued>> /\ loads[k].stage # "idle"
  BY DEF ReadSnapshot, ReadHistory, ReceiveHistory
<1>3. LoadFits(loads[k], client, log)
  BY DEF Care, CareWith
<1>4. client.syncing /\ ~client.ready
  BY <1>2, <1>3 DEF LoadFits
<1>5. loads' = [loads EXCEPT ![k] = x] /\ LoadFits(x, client, log)
  <2>1. CASE ReadSnapshot(k)
    <3> DEFINE now == Revision
               y == [loads[k] EXCEPT !.stage = "snapshot", !.hydrated = now]
    <3>1. loads' = [loads EXCEPT ![k] = y]
      BY <1>1, <2>1 DEF ReadSnapshot
    <3> HIDE DEF now
    <3>2. y.stage = "snapshot"
      BY <1>1 DEF Load
    <3>3. LoadFits(y, client, log)
      <4> HIDE DEF y
      <4> QED
        BY <1>4, <3>2 DEF LoadFits
    <3> HIDE DEF y
    <3> QED
      BY <1>1, <3>1, <3>3
  <2>2. CASE ReadHistory(k)
    <3> DEFINE now == Revision
               y == [loads[k] EXCEPT !.stage = "history", !.history = now]
    <3>1. loads' = [loads EXCEPT ![k] = y] /\ loads[k].stage = "results"
      BY <1>1, <2>2 DEF ReadHistory
    <3>2. client.base <= now /\ loads[k].hydrated <= now
      BY <1>1 DEF GoodLoad
    <3> HIDE DEF now
    <3>3. y.history = now /\ y.hydrated = loads[k].hydrated /\ y.stage = "history"
      BY <1>1 DEF Load
    <3>4. LoadFits(y, client, log)
      <4> HIDE DEF y
      <4> QED
        BY <1>3, <1>4, <3>1, <3>2, <3>3 DEF LoadFits
    <3> HIDE DEF y
    <3> QED
      BY <1>1, <3>1, <3>4
  <2>3. CASE ReceiveHistory(k)
    <3> DEFINE stage == IF loads[k].history > loads[k].hydrated THEN "newer" ELSE "finishing"
               y == [loads[k] EXCEPT !.stage = stage]
    <3>1. loads' = [loads EXCEPT ![k] = y] /\ loads[k].stage = "history"
          /\ loads[k].history >= client.remote
      BY <1>1, <2>3 DEF ReceiveHistory
    <3>2. /\ stage \in {"newer", "finishing"}
          /\ stage = "finishing" => ~(loads[k].history > loads[k].hydrated)
      OBVIOUS
    <3> HIDE DEF stage
    <3>3. y.history = loads[k].history /\ y.hydrated = loads[k].hydrated /\ y.stage = stage
      BY <1>1 DEF Load
    <3> HIDE DEF y
    <3>4. /\ loads[k].history \in Nat /\ loads[k].hydrated \in Nat /\ client.remote \in Nat
          /\ client.base \in Nat
      BY <1>1 DEF Load, Client
    <3>5. loads[k].hydrated <= loads[k].history /\ client.base <= loads[k].history
          /\ Prefix(log, loads[k].hydrated) \subseteq ToSet(client.model)
      BY <1>3, <3>1, <3>4 DEF LoadFits
    <3>6. stage = "finishing" => loads[k].history = loads[k].hydrated
      BY <3>2, <3>4, <3>5
    <3>7. LoadFits(y, client, log)
      BY <1>4, <3>2, <3>3, <3>5, <3>6 DEF LoadFits
    <3> QED
      BY <1>1, <3>1, <3>7
  <2> QED
    BY <2>1, <2>2, <2>3
<1> HIDE DEF x
<1>6. client' = client
  BY <1>2
<1>7. Careful(client', log, issued) /\ client'.remote <= client'.base /\ ~client'.ready
      /\ LoadFits(x, client', log)
  BY <1>4, <1>5, <1>6 DEF Care, CareWith
<1> QED
  BY <1>2, <1>5, <1>7, OneLoadCare

LEMMA FinishLoadKeepsCare ==
  ASSUME IInv, Care, NEW k \in Connections, FinishLoad(k)
  PROVE  Care'
<1> DEFINE history == loads[k].history
           loaded == LoadHistory(client, history)
           replay == Replay(loaded)
           replayed == ReceiveDeferred(replay)
           c == [replayed EXCEPT !.ready = TRUE]
<1>1. /\ \/ client' = replayed /\ replayed.failed /\ UNCHANGED request
         \/ ~replayed.failed /\ FlushAll(c)
      /\ \A i \in DOMAIN loaded.queue : loaded.queue[i].base = loaded.remote
      /\ loads[k].stage = "finishing"
      /\ loads' = [loads EXCEPT ![k] = NotLoading]
      /\ UNCHANGED <<log, late, issued>>
  BY DEF FinishLoad
<1>2. history \in 0 .. Revision /\ TypeOK /\ client \in Client
      /\ loads \in [Connections -> Load]
  BY PartsAreGood, LogAsPrefix DEF GoodLoad, Load, IInv, TypeOK
<1>3. /\ LoadFits(loads[k], client, log) /\ Sound(client, log, issued)
      /\ Careful(client, log, issued) /\ client.remote <= client.base
  BY DEF Care, CareWith, IInv
<1>4. /\ ~client.ready /\ client.base <= history
      /\ Prefix(log, history) \subseteq ToSet(client.model)
  BY <1>1, <1>3 DEF LoadFits
<1> HIDE DEF history
<1>5. Sound(loaded, log, issued)
  BY <1>2, <1>3, LoadHistorySound
<1>6. Careful(replay, log, issued) /\ replay.remote <= replay.base /\ Full(replay, log)
      /\ replay.ready = client.ready
  <2>1. loaded = LoadHistory(client, history) /\ replay = Replay(loaded)
    OBVIOUS
  <2> HIDE DEF loaded, replay
  <2> QED
    BY <1>1, <1>2, <1>3, <1>4, <2>1, LoadedIsFull
<1> HIDE DEF loaded
<1>7. Sound(replay, log, issued)
  BY <1>5, ReplaySound
<1> HIDE DEF replay
<1>8. Ordered(log, issued)
  BY OrderedHolds
<1>9. Sound(replayed, log, issued)
  BY <1>2, <1>7, ReceiveDeferredSound
<1>10. ~replay.ready
  BY <1>4, <1>6, Zenon
<1>11. /\ Careful(replayed, log, issued) /\ replayed.remote <= replayed.base
       /\ ~replayed.ready
       /\ replayed.failed \/ Full(replayed, log)
  <2>1. replayed = ReceiveDeferred(replay)
    OBVIOUS
  <2> HIDE DEF replayed, c
  <2> QED
    BY <1>2, <1>6, <1>7, <1>8, <1>10, <2>1, ReceiveDeferredAdvances
<1> HIDE DEF replayed
<1>12. replayed \in Client /\ replayed.base <= Len(log)
  BY <1>9 DEF Sound
<1>13. /\ c \in Client /\ c.base = replayed.base /\ c.remote = replayed.remote
       /\ c.queue = replayed.queue /\ c.model = replayed.model
  BY <1>12 DEF Client
<1> HIDE DEF c
<1>14. \A j \in Connections : loads'[j].stage = "idle"
  BY <1>1, <1>2 DEF Care, CareWith, OneLoad, NotLoading
<1>15. OneLoad(loads') /\ \A j \in Connections : LoadFits(loads'[j], client', log)
  BY <1>14, IdleFits DEF OneLoad
<1>16. CASE client' = replayed /\ UNCHANGED request
  <2>1. /\ request'.stage = "posting" => Comparable(request', log, issued)
        /\ \A r \in late' : Comparable(r, log, issued)
    BY <1>1, <1>16 DEF Care
  <2>2. ~client'.ready /\ Careful(client', log, issued) /\ client'.remote <= client'.base
    BY <1>11, <1>16
  <2> QED
    BY <1>1, <1>15, <2>1, <2>2, QuietCare
<1>17. CASE ~replayed.failed /\ FlushAll(c)
  <2>1. Careful(c, log, issued) /\ c.base <= Len(log)
    BY <1>11, <1>12, <1>13, SameIsCareful
  <2>2. request.stage = "posting" => Comparable(request, log, issued)
    BY DEF Care
  <2>3. /\ Careful(client', log, issued)
        /\ client'.base = c.base /\ client'.remote = c.remote /\ client'.model = c.model
        /\ IdsOf(client'.queue) = IdsOf(c.queue)
        /\ request'.stage = "posting" => Comparable(request', log, issued)
    BY <1>13, <1>17, <2>1, <2>2, FlushAllCareful
  <2>4. Full(client', log)
    BY <1>11, <1>13, <1>17, <2>3 DEF Full
  <2>5. client'.remote <= client'.base /\ \A r \in late' : Comparable(r, log, issued)
    BY <1>1, <1>11, <1>13, <2>3 DEF Care
  <2> QED
    BY <1>1, <1>15, <2>3, <2>4, <2>5, QuietCare
<1> QED
  BY <1>1, <1>16, <1>17
LEMMA AcceptedWasSeen ==
  ASSUME TypeOK, NEW id, NEW n \in Nat, Accepts(id, n), FitsIn(n, id, log, issued)
  PROVE  /\ AppendToLog(id) => log' = Append(log, id)
         /\ \A j \in DOMAIN issued : issued[j].id = id =>
              \A r \in 1 .. Len(log) : Overlap(id, log[r]) => log[r] \in issued[j].seen
<1>1. Revision = Len(log) /\ Revision \in Nat /\ id \notin OperationsOf(log)
  BY LogAsPrefix DEF Accepts
<1>2. \A r \in 1 .. Len(log) : r \in 1 .. n \/ r \in n + 1 .. Revision
  BY <1>1
<1>3. \A j \in DOMAIN issued : issued[j].id = id =>
        \A r \in 1 .. Len(log) : Overlap(id, log[r]) => log[r] \in issued[j].seen
  BY <1>1, <1>2 DEF Accepts, FitsIn, SeenThrough
<1> QED
  BY <1>3 DEF AppendToLog

LEMMA CommittingKeepsCare ==
  ASSUME IInv, Care, NEW id \in Operations, log' = Append(log, id),
         UNCHANGED <<client, issued, loads>>,
         \A j \in DOMAIN issued : issued[j].id = id =>
           \A r \in 1 .. Len(log) : Overlap(id, log[r]) => log[r] \in issued[j].seen,
         late' \subseteq late, request'.stage = "posting" => request' = request
  PROVE  Care'
<1>1. /\ log \in Seq(Operations) /\ late \subseteq [id : OwnOperations, base : Nat]
      /\ request \in Request \cup {NoRequest} /\ Sound(client, log, issued)
      /\ CareWith(client, log, issued, loads)
  BY DEF IInv, TypeOK, Care
<1>2. \A k \in Connections : /\ loads[k].hydrated \in Nat /\ loads[k].hydrated <= Len(log)
                             /\ loads[k].history \in Nat /\ loads[k].history <= Len(log)
  BY PartsAreGood, LogAsPrefix DEF GoodLoad, Load, IInv
<1>3. CareWith(client', log', issued', loads')
  <2>1. CareWith(client, Append(log, id), issued, loads)
    BY <1>1, <1>2, CommitIsCareful
  <2> QED
    BY <2>1
<1>4. \A r \in late' : Comparable(r, log', issued')
  <2> SUFFICES ASSUME NEW r \in late' PROVE Comparable(r, log', issued')
    OBVIOUS
  <2>1. r.base \in Nat /\ Comparable(r, log, issued)
    BY <1>1 DEF Care
  <2> QED
    BY <1>1, <2>1, ComparableOfAppend
<1>5. request'.stage = "posting" => Comparable(request', log', issued')
  <2> SUFFICES ASSUME request'.stage = "posting" PROVE Comparable(request, log', issued)
    OBVIOUS
  <2>1. request.base \in Nat /\ Comparable(request, log, issued)
    BY <1>1 DEF Care, Request, NoRequest
  <2> QED
    BY <1>1, <2>1, ComparableOfAppend
<1> QED
  BY <1>3, <1>4, <1>5 DEF Care

LEMMA ServerHandlesKeepsCare ==
  ASSUME IInv, Care, ServerHandles
  PROVE  Care'
<1>1. /\ request \in Request /\ request.stage = "posting"
      /\ UNCHANGED <<client, late, loads, issued>> /\ TypeOK
      /\ FitsIn(request.base, request.id, log, issued)
  BY DEF ServerHandles, IInv, TypeOK, NoRequest, Care, Comparable
<1>2. CASE ~Accepts(request.id, request.base)
  <2>1. request'.stage = "refused" /\ log' = log
    BY <1>1, <1>2 DEF ServerHandles, Request
  <2> QED
    BY <1>1, <2>1 DEF Care
<1>3. CASE Accepts(request.id, request.base)
  <2>1. AppendToLog(request.id) /\ request'.stage = "committed"
    BY <1>1, <1>3 DEF ServerHandles, Request
  <2>2. /\ log' = Append(log, request.id)
        /\ \A j \in DOMAIN issued : issued[j].id = request.id =>
             \A r \in 1 .. Len(log) : Overlap(request.id, log[r]) => log[r] \in issued[j].seen
    BY <1>1, <1>3, <2>1, AcceptedWasSeen DEF Request
  <2>3. request.id \in Operations
    BY <1>1 DEF Request, Operations
  <2> QED
    BY <1>1, <2>1, <2>2, <2>3, CommittingKeepsCare
<1> QED
  BY <1>2, <1>3

LEMMA ServerHandlesLateKeepsCare ==
  ASSUME IInv, Care, ServerHandlesLate
  PROVE  Care'
<1>1. PICK r \in late :
        /\ Accepts(r.id, r.base) /\ AppendToLog(r.id) /\ late' = late \ {r}
        /\ UNCHANGED <<client, request, loads, issued>>
  BY DEF ServerHandlesLate
<1>2. /\ r.base \in Nat /\ r.id \in Operations /\ TypeOK
      /\ FitsIn(r.base, r.id, log, issued)
  BY DEF IInv, TypeOK, Operations, Care, Comparable
<1>3. /\ log' = Append(log, r.id)
      /\ \A j \in DOMAIN issued : issued[j].id = r.id =>
           \A n \in 1 .. Len(log) : Overlap(r.id, log[n]) => log[n] \in issued[j].seen
  BY <1>1, <1>2, AcceptedWasSeen
<1> QED
  BY <1>1, <1>2, <1>3, CommittingKeepsCare

LEMMA OtherCommitsKeepsCare ==
  ASSUME IInv, Care, NEW id \in OtherOperations, OtherCommits(id)
  PROVE  Care'
<1>1. /\ log' = Append(log, id)
      /\ UNCHANGED <<client, request, late, loads, issued>>
  BY DEF OtherCommits, AppendToLog
<1>2. id \in Operations /\ id \notin OwnOperations
  BY OperationsAssumption DEF Operations
<1>3. \A j \in DOMAIN issued : issued[j].id # id
  <2>1. \A j \in DOMAIN issued : issued[j] \in Issue
    <3>1. issued \in Seq(Issue)
      BY DEF IInv, TypeOK, Issue
    <3> QED
      BY <3>1, ElementOfSeq, LenProperties
  <2> QED
    BY <1>2, <2>1 DEF Issue
<1> QED
  BY <1>1, <1>2, <1>3, CommittingKeepsCare

\* Another operation is issued: what was compared remains so.
LEMMA FitsOfIssue ==
  ASSUME NEW s \in Seq(Issue), NEW e \in Issue, NEW l, NEW n, NEW x, x # e.id,
         FitsIn(n, x, l, s)
  PROVE  FitsIn(n, x, l, Append(s, e))
<1>1. /\ DOMAIN Append(s, e) = (DOMAIN s) \cup {Len(s) + 1}
      /\ \A i \in DOMAIN s : Append(s, e)[i] = s[i]
      /\ Append(s, e)[Len(s) + 1] = e
  <2>1. Append(s, e) \in Seq(Issue) /\ Len(Append(s, e)) = Len(s) + 1 /\ Len(s) \in Nat
    BY AppendProperties, LenProperties
  <2> QED
    BY <2>1, AppendProperties, LenProperties
<1> QED
  BY <1>1 DEF FitsIn, SeenThrough

LEMMA EditKeepsCare ==
  ASSUME IInv, Care, NEW id \in OwnOperations, Edit(id)
  PROVE  Care'
<1> DEFINE e == [id |-> id, seen |-> ToSet(client.model)]
           s == Append(issued, e)
           entry == [id |-> id, base |-> client.base, status |-> "pending"]
           q == Append(client.queue, entry)
           model == Append(client.model, id)
           own == client.own \cup {id}
           c == [client EXCEPT !.model = model, !.queue = q, !.own = own]
<1>1. /\ log' = log /\ late' = late /\ loads' = loads /\ issued' = s
      /\ client.ready
      /\ id \notin {issued[i].id : i \in DOMAIN issued}
      /\ FlushAll(c)
  BY DEF Edit
<1>2. /\ client \in Client /\ Sound(client, log, issued) /\ log \in Seq(Operations)
      /\ issued \in Seq(Issue) /\ id \in Operations
      /\ client.queue \in Seq(Entry) /\ client.model \in Seq(Operations) /\ client.base \in Nat
      /\ client.base <= Len(log)
      /\ Careful(client, log, issued) /\ Full(client, log) /\ SeenInOrder(issued)
      /\ client.remote <= client.base
  BY <1>1 DEF IInv, TypeOK, Issue, Operations, Client, Sound, Care, CareWith
<1>3. /\ ToSet(client.model) \subseteq Operations
      /\ ToSet(model) = ToSet(client.model) \cup {id}
  BY <1>2, InSeq
<1>4. e \in Issue /\ e.id = id /\ e.seen = ToSet(client.model)
  BY <1>3 DEF Issue
<1>5. entry \in Entry /\ entry.id = id /\ entry.base = client.base /\ entry.status = "pending"
  BY <1>2 DEF Entry
<1> HIDE DEF e, entry
<1>6. /\ DOMAIN s = 1 .. Len(issued) + 1 /\ s \in Seq(Issue)
      /\ \A i \in 1 .. Len(issued) : s[i] = issued[i]
      /\ s[Len(issued) + 1] = e
      /\ DOMAIN issued = 1 .. Len(issued) /\ Len(issued) \in Nat
  BY <1>2, <1>4, AppendProperties, LenProperties
<1>7. /\ q \in Seq(Entry) /\ DOMAIN q = 1 .. Len(client.queue) + 1
      /\ \A i \in 1 .. Len(client.queue) : q[i] = client.queue[i]
      /\ q[Len(client.queue) + 1] = entry
      /\ DOMAIN client.queue = 1 .. Len(client.queue) /\ Len(client.queue) \in Nat
  BY <1>2, <1>5, AppendProperties, LenProperties
<1>8. model \in Seq(Operations) /\ own \in SUBSET OwnOperations
  BY <1>2, AppendProperties DEF Client
<1>9. \A n, x : x # id /\ FitsIn(n, x, log, issued) => FitsIn(n, x, log, s)
  BY <1>2, <1>4, FitsOfIssue
<1> HIDE DEF s, q, model, own
<1>10. /\ c \in Client /\ c.base = client.base /\ c.remote = client.remote
       /\ c.queue = q /\ c.model = model /\ c.ready = client.ready
       /\ c.syncing = client.syncing
  BY <1>2, <1>7, <1>8 DEF Client
<1> HIDE DEF c
<1>11. \A i \in DOMAIN issued : issued[i].id # id /\ issued[i].id \in ToSet(client.model)
  BY <1>1, <1>2 DEF Careful, Full
<1>12. IdsOf(q) = IdsOf(client.queue) \cup {id}
  BY <1>5, <1>7 DEF IdsOf
<1>13. Careful(c, log, s)
  <2>1. \A i \in DOMAIN s : s[i].id \in IdsOf(q) \cup Prefix(log, client.base)
    BY <1>2, <1>4, <1>6, <1>12 DEF Careful
  <2>2. ASSUME NEW m \in DOMAIN client.queue PROVE Fits(client.queue[m], client.base, log, s)
    <3>1. client.queue[m].id # id
      <4>1. \E i \in DOMAIN issued : issued[i].id = client.queue[m].id
        BY <1>2 DEF Sound, InIssueOrder
      <4> QED
        BY <1>11, <4>1
    <3>2. Fits(client.queue[m], client.base, log, issued)
      BY <1>2 DEF Careful
    <3> QED
      BY <1>9, <3>1, <3>2 DEF Fits
  <2>3. Fits(entry, client.base, log, s)
    <3>1. ASSUME NEW r \in 1 .. client.base, NEW j \in DOMAIN s, s[j].id = id
          PROVE  log[r] \in s[j].seen
      <4>1. j = Len(issued) + 1
        BY <1>6, <1>11, <3>1
      <4>2. log[r] \in ToSet(client.model)
        BY <1>2 DEF Full, Prefix
      <4> QED
        BY <1>4, <1>6, <4>1, <4>2
    <3>2. FitsIn(client.base, id, log, s)
      BY <3>1 DEF FitsIn, SeenThrough
    <3> QED
      BY <1>5, <3>2 DEF Fits
  <2>4. \A m \in DOMAIN q : Fits(q[m], client.base, log, s)
    BY <1>7, <2>2, <2>3
  <2>5. 1 \in DOMAIN q /\ q[1].status = "pending" => q[1].base <= client.base
    <3>1. CASE 1 \in DOMAIN client.queue
      BY <1>2, <1>7, <3>1 DEF Careful
    <3>2. CASE 1 \notin DOMAIN client.queue
      <4>1. Len(client.queue) = 0
        BY <1>7, <3>2
      <4> QED
        BY <1>2, <1>5, <1>7, <4>1
    <3> QED
      BY <3>1, <3>2
  <2> QED
    BY <1>10, <2>1, <2>4, <2>5 DEF Careful
<1>14. ASSUME NEW r, r.id \in Sent, Comparable(r, log, issued) PROVE Comparable(r, log, s)
  <2>1. \E j \in DOMAIN issued : issued[j].id = r.id
    BY <1>14 DEF IInv, SentInOrder, SentAfter
  <2>2. r.id # id
    BY <1>11, <2>1
  <2> QED
    BY <1>9, <1>14, <2>2 DEF Comparable
<1>15. request.stage = "posting" => Comparable(request, log, s)
  <2>1. request.stage = "posting" => request.id \in Sent
    BY DEF Sent, NoRequest
  <2> QED
    BY <1>14, <2>1 DEF Care
<1>16. \A r \in late : Comparable(r, log, s)
  BY <1>14 DEF Care, Sent
<1>17. /\ Careful(client', log, s)
       /\ client'.base = c.base /\ client'.remote = c.remote /\ client'.model = c.model
       /\ client'.ready = c.ready /\ client'.syncing = c.syncing
       /\ IdsOf(client'.queue) = IdsOf(c.queue)
       /\ request'.stage = "posting" => Comparable(request', log, s)
  BY <1>1, <1>2, <1>10, <1>13, <1>15, FlushAllCareful
<1>18. Full(client', log)
  BY <1>2, <1>3, <1>10, <1>12, <1>17 DEF Full
<1>19. SeenInOrder(s)
  <2> SUFFICES ASSUME NEW i \in DOMAIN s, NEW j \in DOMAIN s, i < j PROVE s[i].id \in s[j].seen
    BY DEF SeenInOrder
  <2>1. i \in DOMAIN issued /\ s[i] = issued[i]
    BY <1>6
  <2>2. CASE j \in DOMAIN issued
    BY <1>2, <1>6, <2>1, <2>2 DEF SeenInOrder
  <2>3. CASE j = Len(issued) + 1
    BY <1>4, <1>6, <1>11, <2>1, <2>3
  <2> QED
    BY <1>6, <2>2, <2>3
<1>20. Committed(log, s)
  <2> SUFFICES ASSUME NEW j \in DOMAIN s, NEW n \in DOMAIN log, log[n] = s[j].id,
                      NEW r \in 1 .. n - 1, Overlap(s[j].id, log[r])
               PROVE  log[r] \in s[j].seen
    BY DEF Committed
  <2>1. j # Len(issued) + 1
    <3>1. log[n] # id
      BY <1>11 DEF IInv, OwnWereIssued
    <3> QED
      BY <1>4, <1>6, <3>1
  <2>2. j \in DOMAIN issued /\ s[j] = issued[j]
    BY <1>6, <2>1
  <2> QED
    BY <2>2 DEF Care, CareWith, Committed
<1>21. OneLoad(loads) /\ \A k \in Connections : LoadFits(loads[k], client', log)
  BY <1>1, ReadyIsIdle, IdleFits DEF Care, CareWith
<1>22. CareWith(client', log, s, loads)
  BY <1>2, <1>10, <1>17, <1>18, <1>19, <1>20, <1>21 DEF CareWith
<1> QED
  BY <1>1, <1>16, <1>17, <1>22 DEF Care

-----------------------------------------------------------------------------

LEMMA InitImpliesCare ==
  ASSUME Init
  PROVE  Care
<1> USE DEF Init
<1>1. DOMAIN << >> = {} /\ Len(<< >>) = 0
  OBVIOUS
<1>2. Careful(client, log, issued)
  BY <1>1 DEF Careful
<1>3. SeenInOrder(issued) /\ Committed(log, issued) /\ OneLoad(loads)
  BY <1>1 DEF SeenInOrder, Committed, OneLoad, NotLoading
<1>4. \A k \in Connections : LoadFits(loads[k], client, log)
  BY IdleFits DEF NotLoading
<1> QED
  BY <1>2, <1>3, <1>4 DEF Care, CareWith, NoRequest

LEMMA RacesRemain ==
  ASSUME [Next]_vars
  PROVE  races \subseteq races'
  BY DEF Next, vars, Edit, FlushPending, ServerHandles, Acknowledged, SendNext, SendFails,
     ServerHandlesLate, OtherCommits, Broadcast, Disconnect, Open, ReadSnapshot,
     HydrateSnapshot, CheckResult, ReadHistory, ReceiveHistory, HydrateNewer, FinishLoad,
     LoadFails

LEMMA NextKeepsCare ==
  ASSUME IInv, CareInv, [Next]_vars
  PROVE  CareInv'
<1> SUFFICES ASSUME Calm' PROVE Care'
  BY DEF CareInv
<1>0. Care
  BY RacesRemain DEF CareInv, Calm
<1>1. CASE UNCHANGED vars
  BY <1>0, <1>1 DEF vars, Care
<1>2. ASSUME NEW id \in OwnOperations, Edit(id) PROVE Care'
  BY <1>0, <1>2, EditKeepsCare
<1>3. ASSUME NEW id \in OtherOperations, OtherCommits(id) PROVE Care'
  BY <1>0, <1>3, OtherCommitsKeepsCare
<1>4. ASSUME NEW r \in unsent, Broadcast(r) PROVE Care'
  BY <1>0, <1>4, BroadcastKeepsCare
<1>5. CASE FlushPending \/ SendNext
  BY <1>0, <1>5, FlushPendingKeepsCare
<1>6. CASE ServerHandles
  BY <1>0, <1>6, ServerHandlesKeepsCare
<1>7. CASE Acknowledged
  BY <1>0, <1>7, AcknowledgedKeepsCare
<1>8. CASE SendFails
  BY <1>0, <1>8, SendFailsKeepsCare
<1>9. CASE ServerHandlesLate
  BY <1>0, <1>9, ServerHandlesLateKeepsCare
<1>10. CASE Disconnect
  BY <1>0, <1>10, DisconnectKeepsCare
<1>11. CASE Open
  BY <1>0, <1>11, OpenKeepsCare
<1>12. ASSUME NEW k \in Connections,
              \/ ReadSnapshot(k) \/ HydrateSnapshot(k) \/ CheckResult(k) \/ ReadHistory(k)
              \/ ReceiveHistory(k) \/ HydrateNewer(k) \/ FinishLoad(k) \/ LoadFails(k)
       PROVE  Care'
  BY <1>0, <1>12, ReadingKeepsCare, HydratingKeepsCare, CheckResultKeepsCare,
     FinishLoadKeepsCare, LoadFailsKeepsCare
<1> QED
  BY <1>1, <1>2, <1>3, <1>4, <1>5, <1>6, <1>7, <1>8, <1>9, <1>10, <1>11, <1>12 DEF Next

\* A draft overwrites nothing its user has not seen: rebaseQueuedOperations moves
\* its base only past revisions it was compared with, as long as no
\* acknowledgement or load passes over revisions and none is missed.
THEOREM NothingUnseenIsOverwritten == Spec => []NoUnseenOverwriteUnlessRaced
<1>1. Init => CareInv
  BY InitImpliesCare DEF CareInv
<1>2. IInv /\ CareInv /\ [Next]_vars => CareInv'
  BY NextKeepsCare
<1>3. IInv /\ CareInv => NoUnseenOverwriteUnlessRaced
  <2> SUFFICES ASSUME IInv, Care PROVE NothingUnseenOverwritten
    BY DEF CareInv, Calm, NoUnseenOverwriteUnlessRaced
  <2> SUFFICES ASSUME NEW i \in DOMAIN issued, InLog(issued[i].id),
                      NEW r \in 1 .. RevisionOf(issued[i].id) - 1,
                      Overlap(issued[i].id, log[r])
               PROVE  log[r] \in issued[i].seen
    BY DEF NothingUnseenOverwritten
  <2>1. /\ RevisionOf(issued[i].id) \in DOMAIN log
        /\ log[RevisionOf(issued[i].id)] = issued[i].id
    BY LogAsPrefix DEF IInv
  <2> QED
    BY <2>1 DEF Care, CareWith, Committed
<1> QED
  BY <1>1, <1>2, <1>3, InvariantHolds, PTL DEF Spec
-----------------------------------------------------------------------------
(* The document of the page is in step with its revision.                  *)

\* One operation is before another in the document the page ought to have: the
\* revisions it is at, then what it issued.
Precedes(x, y, c, l, s) ==
  \/ \E i, j \in 1 .. c.remote : i < j /\ l[i] = x /\ l[j] = y
  \/ x \in Prefix(l, c.remote) /\ y \in IdsOf(c.queue)
  \/ /\ {x, y} \subseteq IdsOf(c.queue)
     /\ \E i, j \in DOMAIN s : i < j /\ s[i].id = x /\ s[j].id = y

\* The page has these operations, each once, and those that overlap in this order;
\* what is pending is not in the revisions it is at.
InPlace(c, l, s) ==
  /\ c.remote = c.base
  /\ IdsOf(c.queue) \cap Prefix(l, c.remote) = {}
  /\ \A i, j \in DOMAIN c.model : c.model[i] = c.model[j] => i = j
  /\ ToSet(c.model) = Prefix(l, c.remote) \cup IdsOf(c.queue)
  /\ \A i, j \in DOMAIN c.model :
       i < j /\ Overlap(c.model[i], c.model[j]) => Precedes(c.model[i], c.model[j], c, l, s)

\* The document of a revision.
HasRevision(model, l, r) == Len(model) = r /\ \A i \in 1 .. r : model[i] = l[i]

\* How far a synchronization has brought the document, the revision and the base.
LoadPlaced(x, c, l) ==
  /\ x.stage # "idle" => c.syncing /\ ~c.ready
  /\ x.stage \in {"results", "history"} =>
       HasRevision(c.model, l, x.hydrated) /\ x.hydrated <= c.remote
  /\ x.stage = "history" =>
       /\ x.hydrated <= x.history
       /\ c.base <= x.history \/ c.remote > x.history
  /\ x.stage = "newer" => c.base <= x.history /\ c.remote <= x.history
  /\ x.stage = "finishing" =>
       /\ c.base <= x.history /\ c.remote = x.history
       /\ HasRevision(c.model, l, x.history)

Placed ==
  /\ OneLoad(loads)
  /\ client.ready => InPlace(client, log, issued)
  /\ \A k \in Connections : LoadPlaced(loads[k], client, log)

Undisturbed == races \subseteq {"passes", "closed"}

PlaceInv == Undisturbed => Placed

\* What the log says of the operations the page issued.
LogOrder(l, s) ==
  /\ \A i, j \in DOMAIN l : l[i] = l[j] => i = j
  /\ \A i, j \in DOMAIN s, n \in DOMAIN l :
       i < j /\ l[n] = s[j].id => \E m \in 1 .. n - 1 : l[m] = s[i].id

\* An entry of the log is not in the log before it.
LEMMA NotBefore ==
  ASSUME NEW l, NEW s, LogOrder(l, s), NEW n \in Nat, NEW r \in DOMAIN l, n < r,
         1 .. n \subseteq DOMAIN l, DOMAIN l \subseteq Nat
  PROVE  l[r] \notin Prefix(l, n)
<1>1. ASSUME NEW i \in 1 .. n, l[i] = l[r] PROVE FALSE
  <2>1. i \in DOMAIN l
    OBVIOUS
  <2>2. i = r
    BY ONLY LogOrder(l, s), r \in DOMAIN l, <1>1, <2>1 DEF LogOrder
  <2>3. n \in Nat /\ r \in Nat /\ n < r /\ i \in 1 .. n
    OBVIOUS
  <2> QED
    BY ONLY <2>2, <2>3
<1> QED
  BY <1>1 DEF Prefix

\* The parts of a document in place.
LEMMA InPlaceParts ==
  ASSUME NEW c, NEW l, NEW s, InPlace(c, l, s)
  PROVE  /\ c.remote = c.base
         /\ IdsOf(c.queue) \cap Prefix(l, c.remote) = {}
         /\ ToSet(c.model) = Prefix(l, c.remote) \cup IdsOf(c.queue)
BY DEF InPlace

LEMMA LogOrderHolds ==
  ASSUME IInv
  PROVE  LogOrder(log, issued)
<1>1. \A i, j \in DOMAIN log : log[i] = log[j] => i = j
  BY DEF IInv, CommittedOnce
<1>2. ASSUME NEW i \in DOMAIN issued, NEW j \in DOMAIN issued, NEW n \in DOMAIN log,
             i < j, log[n] = issued[j].id
      PROVE  \E m \in 1 .. n - 1 : log[m] = issued[i].id
  <2>1. /\ DOMAIN log = 1 .. Len(log) /\ Len(log) \in Nat /\ Revision = Len(log)
        /\ \A id : InLog(id) <=> id \in OperationsOf(log)
        /\ \A id : InLog(id) => RevisionOf(id) \in 1 .. Revision /\ log[RevisionOf(id)] = id
    BY LogAsPrefix DEF IInv
  <2>2. InLog(issued[j].id)
    BY <1>2, <2>1 DEF OperationsOf, Prefix
  <2>3. InLog(issued[i].id) /\ RevisionOf(issued[i].id) < RevisionOf(issued[j].id)
    BY <1>2, <2>2 DEF IInv, CommittedInOrder
  <2>4. RevisionOf(issued[j].id) = n
    BY <1>1, <1>2, <2>1, <2>2
  <2>5. RevisionOf(issued[i].id) \in 1 .. n - 1
    BY <2>1, <2>3, <2>4
  <2> QED
    BY <2>1, <2>3, <2>5
<1> QED
  BY <1>1, <1>2 DEF LogOrder

\* Fields that the document does not depend on.
LEMMA SamePlace ==
  ASSUME NEW l, NEW s, NEW c, InPlace(c, l, s), NEW d,
         d.remote = c.remote, d.base = c.base, d.model = c.model,
         IdsOf(d.queue) = IdsOf(c.queue)
  PROVE  InPlace(d, l, s)
  BY DEF InPlace, Precedes

\* applyCommittedRevision of an operation that no pending one overlaps.
LEMMA ApplyOtherInPlace ==
  ASSUME NEW l \in Seq(Operations), NEW s, NEW c, Sound(c, l, s), LogOrder(l, s),
         InPlace(c, l, s), NEW r \in 1 .. Len(l), r = c.base + 1,
         ~ConflictsWithPending(c, l[r]), ~Pending(c, l[r]),
         NEW d, d = SetRemote(ApplyOther(c, l[r], r), r)
  PROVE  InPlace(d, l, s) /\ d.ready = c.ready
<1> DEFINE model == Append(c.model, l[r])
           q == Rebase(c.queue, r)
           a == ApplyOther(c, l[r], r)
           n == Len(c.model)
<1>1. /\ c \in Client /\ c.base \in Nat /\ r \in Nat /\ Len(l) \in Nat /\ r <= Len(l)
      /\ l[r] \in Operations /\ c.queue \in Seq(Entry) /\ c.model \in Seq(Operations)
      /\ DOMAIN l = 1 .. Len(l) /\ c.remote = c.base
  BY LenProperties, ElementOfSeq DEF Sound, Client, InPlace
<1>2. /\ IdsOf(q) = IdsOf(c.queue)
      /\ ToSet(model) = ToSet(c.model) \cup {l[r]}
  <2>1. IdsOf(q) = IdsOf(c.queue)
    BY <1>1, RebaseProperties
  <2>2. ToSet(Append(c.model, l[r])) = ToSet(c.model) \cup {l[r]}
    <3> HIDE DEF Operations
    <3> QED
      BY ONLY <1>1, InSeq
  <2> QED
    BY <2>1, <2>2
<1>3. /\ n \in Nat /\ DOMAIN model = 1 .. n + 1 /\ DOMAIN c.model = 1 .. n
      /\ \A i \in 1 .. n : model[i] = c.model[i]
      /\ model[n + 1] = l[r]
  <2>1. model \in Seq(Operations) /\ Len(model) = n + 1
    BY <1>1, AppendProperties
  <2> QED
    BY <1>1, <2>1, AppendProperties, LenProperties
<1> HIDE DEF model, q, n
<1>4. a = [c EXCEPT !.model = model, !.committed = @ \cup {l[r]}, !.base = r, !.queue = q]
  BY DEF ApplyOther, model, q
<1>5. /\ a.model = model /\ a.remote = c.remote /\ a.base = r /\ a.queue = q
      /\ a.ready = c.ready
  BY <1>1, <1>4 DEF Client
<1>6. a \in Client
  <2>1. c.base <= r
    BY <1>1
  <2> QED
    BY <1>1, <2>1, ApplyOtherSound DEF Sound
<1> HIDE DEF a
<1>7. /\ d.base = r /\ d.queue = q /\ d.model = model /\ d.ready = c.ready
      /\ d.remote \in {c.remote, r} /\ d.remote >= r
  <2>1. d = SetRemote(a, r)
    BY DEF a
  <2> QED
    BY <1>1, <1>5, <1>6, <2>1, SetRemoteFields
<1>8. d.remote = r
  BY <1>1, <1>7
<1>9. Prefix(l, r) = Prefix(l, c.remote) \cup {l[r]}
  <2>1. Prefix(l, c.base + 1) = Prefix(l, c.base) \cup {l[c.base + 1]}
    BY <1>1, PrefixExtends
  <2> QED
    BY <1>1, <2>1
<1>10. l[r] \notin Prefix(l, c.remote) /\ l[r] \notin IdsOf(c.queue)
  <2>1. l[r] \notin Prefix(l, c.remote)
    <3>1. /\ c.remote \in Nat /\ r \in DOMAIN l /\ c.remote < r
          /\ 1 .. c.remote \subseteq DOMAIN l /\ DOMAIN l \subseteq Nat
      BY <1>1
    <3> QED
      BY ONLY <3>1, LogOrder(l, s), NotBefore
  <2> QED
    BY <2>1 DEF Pending
<1>11. \A i \in 1 .. n : c.model[i] # l[r] /\ c.model[i] \in Prefix(l, c.remote) \cup IdsOf(c.queue)
  <2>1. \A i \in 1 .. n : c.model[i] \in ToSet(c.model)
    BY <1>3 DEF ToSet
  <2> QED
    BY <1>10, <2>1 DEF InPlace
<1>12. \A i, j \in 1 .. n + 1 : model[i] = model[j] => i = j
  <2> SUFFICES ASSUME NEW i \in 1 .. n + 1, NEW j \in 1 .. n + 1, model[i] = model[j]
               PROVE  i = j
    OBVIOUS
  <2>1. CASE i \in 1 .. n /\ j \in 1 .. n
    BY <1>3, <2>1 DEF InPlace
  <2>2. CASE ~(i \in 1 .. n /\ j \in 1 .. n)
    BY <1>3, <1>11, <2>2
  <2> QED
    BY <2>1, <2>2
<1>13. ASSUME NEW x, NEW y, Precedes(x, y, c, l, s) PROVE Precedes(x, y, d, l, s)
  <2>1. \A i \in 1 .. c.remote : i \in 1 .. r
    BY <1>1
  <2> QED
    BY <1>2, <1>7, <1>8, <1>9, <1>13, <2>1 DEF Precedes
<1>14. ASSUME NEW i \in 1 .. n + 1, NEW j \in 1 .. n + 1, i < j, Overlap(model[i], model[j])
       PROVE  Precedes(model[i], model[j], d, l, s)
  <2>1. i \in 1 .. n /\ model[i] = c.model[i]
    BY <1>3, <1>14
  <2>2. CASE j \in 1 .. n
    <3>1. Precedes(c.model[i], c.model[j], c, l, s)
      BY <1>3, <1>14, <2>1, <2>2 DEF InPlace
    <3> QED
      BY <1>3, <1>13, <2>1, <2>2, <3>1
  <2>3. CASE j = n + 1
    <3>1. c.model[i] \notin IdsOf(c.queue)
      BY <1>3, <1>14, <2>1, <2>3 DEF ConflictsWithPending
    <3>2. PICK m \in 1 .. c.remote : l[m] = c.model[i]
      BY <1>11, <2>1, <3>1 DEF Prefix
    <3>3. m \in 1 .. d.remote /\ r \in 1 .. d.remote /\ m < r
      BY <1>1, <1>8
    <3> QED
      BY <1>3, <2>1, <2>3, <3>2, <3>3 DEF Precedes
  <2> QED
    BY <1>3, <2>2, <2>3
<1>15. /\ IdsOf(d.queue) \cap Prefix(l, d.remote) = {}
       /\ ToSet(d.model) = Prefix(l, d.remote) \cup IdsOf(d.queue)
  BY <1>2, <1>7, <1>8, <1>9, <1>10 DEF InPlace
<1>16. InPlace(d, l, s)
  <2>1. d.remote = d.base /\ d.model = model /\ DOMAIN model = 1 .. n + 1
    BY ONLY <1>3, <1>7, <1>8
  <2>2. \A i, j \in DOMAIN d.model : d.model[i] = d.model[j] => i = j
    BY ONLY <1>12, <2>1
  <2>3. \A i, j \in DOMAIN d.model :
          i < j /\ Overlap(d.model[i], d.model[j]) => Precedes(d.model[i], d.model[j], d, l, s)
    BY ONLY <1>14, <2>1
  <2> QED
    BY ONLY <1>15, <2>1, <2>2, <2>3 DEF InPlace
<1> QED
  BY <1>7, <1>16

\* What counting the operation at a revision does to the base and the queue.
Counted(c, d, id, r) ==
  /\ d.base \in {c.base, r} /\ d.base >= c.base /\ d.base >= r
  /\ IdsOf(d.queue) \subseteq IdsOf(c.queue)
  /\ IdsOf(c.queue) \subseteq IdsOf(d.queue) \cup {id}
  /\ r > c.base => id \in IdsOf(c.queue) /\ id \notin IdsOf(d.queue)

\* acknowledgeCommittedRevision: an issued operation is pending or counted.
LEMMA AcknowledgeFields ==
  ASSUME NEW l \in Seq(Operations), NEW s, NEW c, Sound(c, l, s), LogOrder(l, s),
         NEW r \in 1 .. Len(l), \E i \in DOMAIN s : s[i].id = l[r],
         NEW d, d = Acknowledge(c, l[r], r)
  PROVE  /\ Counted(c, d, l[r], r)
         /\ d.model = c.model /\ d.remote = c.remote /\ d.ready = c.ready
         /\ d.failed = c.failed /\ d.syncing = c.syncing
<1> DEFINE id == l[r]
           base == Max({c.base, r})
           rest == Without(c.queue, {id})
<1>1. /\ c \in Client /\ c.base \in Nat /\ r \in Nat /\ Len(l) \in Nat
      /\ id \in Operations /\ c.queue \in Seq(Entry) /\ DOMAIN l = 1 .. Len(l)
      /\ c.base <= Len(l)
  BY LenProperties, ElementOfSeq DEF Sound, Client
<1>2. base \in Nat /\ base >= c.base /\ base >= r /\ base \in {c.base, r}
  BY <1>1, MaxOfTwo
<1> HIDE DEF base
<1>3. id \in Prefix(l, c.base) => r <= c.base
  BY <1>1 DEF Prefix, LogOrder
<1>4. id \in c.committed => r <= c.base
  BY <1>3 DEF Sound
<1>5. ~Pending(c, id) => r <= c.base
  BY <1>3 DEF Sound, Pending
<1>6. CASE id \in c.committed \/ ~Pending(c, id)
  <2>1. base = c.base
    BY <1>1, <1>2, <1>4, <1>5, <1>6
  <2>2. d = [c EXCEPT !.base = IF id \in c.committed THEN base ELSE @]
    BY <1>6 DEF Acknowledge, base
  <2>3. d = c
    BY <1>1, <2>1, <2>2 DEF Client
  <2> QED
    BY <1>1, <1>2, <1>4, <1>5, <1>6, <2>1, <2>3 DEF Counted
<1>7. CASE ~(id \in c.committed \/ ~Pending(c, id))
  <2> DEFINE q == Rebase(rest, base)
  <2>1. d = [c EXCEPT !.base = base, !.committed = @ \cup {id}, !.queue = q]
    BY <1>7 DEF Acknowledge, base
  <2>2. rest \in Seq(Entry) /\ IdsOf(rest) = IdsOf(c.queue) \ {id}
    BY <1>1, WithoutProperties
  <2> HIDE DEF rest
  <2>3. IdsOf(q) = IdsOf(c.queue) \ {id}
    BY <1>2, <2>2, RebaseProperties
  <2> HIDE DEF q
  <2>4. /\ d.base = base /\ d.queue = q /\ d.model = c.model /\ d.remote = c.remote
        /\ d.ready = c.ready /\ d.failed = c.failed /\ d.syncing = c.syncing
    BY <1>1, <2>1 DEF Client
  <2> QED
    BY <1>2, <1>7, <2>3, <2>4 DEF Pending, Counted
<1> QED
  BY <1>6, <1>7

\* The answer that the next revision is an operation of this page: the document had
\* it, and has it in the same place.
LEMMA AnswerInPlace ==
  ASSUME NEW l \in Seq(Operations), NEW s, NEW c, Sound(c, l, s), LogOrder(l, s),
         NEW p, InPlace(p, l, s), p.base = c.base, p.queue = c.queue,
         NEW r \in 1 .. Len(l), r <= c.base + 1, \E i \in DOMAIN s : s[i].id = l[r],
         NEW d, d = Acknowledge(c, l[r], r),
         NEW e, e.base = d.base, IdsOf(e.queue) = IdsOf(d.queue), e.model = p.model,
         e.remote \in {p.remote, r}, e.remote >= p.remote, e.remote >= r
  PROVE  InPlace(e, l, s)
<1>1. c.base \in Nat /\ r \in Nat /\ Len(l) \in Nat /\ p.remote = c.base /\ DOMAIN l = 1 .. Len(l)
  BY LenProperties DEF Sound, Client, InPlace
<1>2. /\ d.base \in {c.base, r} /\ d.base >= c.base /\ d.base >= r
      /\ IdsOf(d.queue) \subseteq IdsOf(c.queue)
      /\ IdsOf(c.queue) \subseteq IdsOf(d.queue) \cup {l[r]}
      /\ r > c.base => l[r] \in IdsOf(c.queue) /\ l[r] \notin IdsOf(d.queue)
  <2>1. /\ l \in Seq(Operations) /\ Sound(c, l, s) /\ LogOrder(l, s) /\ r \in 1 .. Len(l)
        /\ \E i \in DOMAIN s : s[i].id = l[r]
        /\ d = Acknowledge(c, l[r], r)
    OBVIOUS
  <2>2. Counted(c, d, l[r], r)
    BY ONLY <2>1, AcknowledgeFields
  <2> QED
    BY ONLY <2>2 DEF Counted
<1>3. IdsOf(p.queue) \cap Prefix(l, c.base) = {}
  BY ONLY <1>1, InPlace(p, l, s), InPlaceParts
<1>4. CASE r <= c.base
  <2>1. e.base = c.base /\ e.remote = c.base
    BY <1>1, <1>2, <1>4
  <2>2. l[r] \in Prefix(l, c.base)
    BY <1>1, <1>4 DEF Prefix
  <2>3. l[r] \notin IdsOf(c.queue)
    BY <1>3, <2>2
  <2>4. IdsOf(d.queue) = IdsOf(c.queue)
    BY <1>2, <2>3
  <2>5. IdsOf(e.queue) = IdsOf(p.queue)
    BY <2>4
  <2> QED
    BY <1>1, <2>1, <2>5, SamePlace
<1>5. CASE r > c.base
  <2>1. r = c.base + 1 /\ e.base = r /\ e.remote = r
    BY <1>1, <1>2, <1>5
  <2>2. Prefix(l, r) = Prefix(l, c.base) \cup {l[r]}
    <3>1. Prefix(l, c.base + 1) = Prefix(l, c.base) \cup {l[c.base + 1]}
      BY <1>1, PrefixExtends
    <3> QED
      BY <2>1, <3>1
  <2>3. IdsOf(e.queue) = IdsOf(p.queue) \ {l[r]} /\ l[r] \in IdsOf(p.queue)
    BY <1>2, <1>5
  <2>4. ASSUME NEW x, NEW y, Precedes(x, y, p, l, s) PROVE Precedes(x, y, e, l, s)
    <3>1. CASE \E i, j \in 1 .. c.base : i < j /\ l[i] = x /\ l[j] = y
      <4>1. \A i \in 1 .. c.base : i \in 1 .. r
        BY <1>1, <2>1
      <4> QED
        BY <2>1, <3>1, <4>1 DEF Precedes
    <3>2. CASE x \in Prefix(l, c.base) /\ y \in IdsOf(p.queue)
      <4>1. CASE y = l[r]
        <5>1. PICK i \in 1 .. c.base : l[i] = x
          BY <3>2 DEF Prefix
        <5>2. i \in 1 .. r /\ r \in 1 .. r /\ i < r
          BY <1>1, <2>1
        <5> QED
          BY <2>1, <4>1, <5>1, <5>2 DEF Precedes
      <4>2. CASE y # l[r]
        BY <2>1, <2>2, <2>3, <3>2, <4>2 DEF Precedes
      <4> QED
        BY <4>1, <4>2
    <3>3. CASE /\ {x, y} \subseteq IdsOf(p.queue)
               /\ \E i, j \in DOMAIN s : i < j /\ s[i].id = x /\ s[j].id = y
      <4>1. y # l[r]
        <5> SUFFICES ASSUME y = l[r] PROVE FALSE
          OBVIOUS
        <5>1. PICK i \in DOMAIN s, j \in DOMAIN s : i < j /\ s[i].id = x /\ s[j].id = y
          BY <3>3
        <5>2. \E m \in 1 .. r - 1 : l[m] = x
          BY <1>1, <5>1 DEF LogOrder
        <5>3. x \in Prefix(l, c.base)
          BY <1>1, <2>1, <5>2 DEF Prefix
        <5> QED
          BY <1>3, <3>3, <5>3
      <4>2. CASE x = l[r]
        BY <2>1, <2>2, <2>3, <3>3, <4>1, <4>2 DEF Precedes
      <4>3. CASE x # l[r]
        BY <2>3, <3>3, <4>1, <4>3 DEF Precedes
      <4> QED
        BY <4>2, <4>3
    <3> QED
      BY <1>1, <2>4, <3>1, <3>2, <3>3 DEF Precedes
  <2>5. IdsOf(e.queue) \cap Prefix(l, r) = {}
    BY <1>3, <2>2, <2>3
  <2>6. ToSet(e.model) = Prefix(l, r) \cup IdsOf(e.queue)
    BY <1>1, <2>2, <2>3 DEF InPlace
  <2> QED
    BY <2>1, <2>4, <2>5, <2>6 DEF InPlace
<1> QED
  BY <1>1, <1>4, <1>5

\* applyCommittedRevision leaves the document in place, or gives it up.
LEMMA ApplyRevisionInPlace ==
  ASSUME NEW s, NEW c, TypeOK, Sound(c, log, s), LogOrder(log, s),
         NEW r \in 1 .. Revision, NEW d, d = ApplyRevision(c, r)
  PROVE  /\ InPlace(c, log, s) => InPlace(d, log, s) \/ (d.failed /\ ~d.ready)
         /\ d.ready => c.ready
<1> DEFINE id == log[r]
<1>1. /\ log \in Seq(Operations) /\ r \in 1 .. Len(log) /\ c \in Client /\ r \in Nat
      /\ c.base \in Nat /\ c.remote \in Nat
  BY LogAsPrefix DEF Sound, Client
<1>2. CASE d = c
  BY <1>2
<1>3. CASE d = Resynchronize(c)
  BY <1>1, <1>3 DEF Resynchronize, Client
<1>4. CASE r = c.base + 1 /\ Pending(c, id) /\ d = SetRemote(Acknowledge(c, id, r), r)
  <2> DEFINE a == Acknowledge(c, id, r)
  <2>1. \E i \in DOMAIN s : s[i].id = log[r]
    BY <1>4, PendingWasIssued
  <2>2. a.model = c.model /\ a.remote = c.remote /\ a.ready = c.ready
    BY <1>1, <2>1, AcknowledgeFields
  <2>3. a \in Client
    BY <1>1, AcknowledgeSound DEF Sound
  <2> HIDE DEF a
  <2>4. /\ d.base = a.base /\ d.queue = a.queue /\ d.model = a.model
        /\ d.remote \in {a.remote, r} /\ d.ready = a.ready
        /\ d.remote >= a.remote /\ d.remote >= r
    BY <1>1, <1>4, <2>3, SetRemoteFields DEF a
  <2>5. ASSUME InPlace(c, log, s) PROVE InPlace(d, log, s)
    <3>1. a = Acknowledge(c, log[r], r) /\ r <= c.base + 1
      BY <1>1, <1>4 DEF a
    <3> QED
      BY <1>1, <2>1, <2>2, <2>4, <2>5, <3>1, AnswerInPlace
  <2> QED
    BY <2>2, <2>4, <2>5
<1>5. CASE /\ r = c.base + 1 /\ ~ConflictsWithPending(c, id) /\ ~Pending(c, id)
           /\ d = SetRemote(ApplyOther(c, id, r), r)
  <2> DEFINE a == ApplyOther(c, id, r)
             model == Append(c.model, id)
             q == Rebase(c.queue, r)
  <2>1. a = [c EXCEPT !.model = model, !.committed = @ \cup {id}, !.base = r, !.queue = q]
    BY DEF ApplyOther
  <2>2. a \in Client
    <3>1. c.base <= r
      BY <1>1, <1>5
    <3> QED
      BY <1>1, <3>1, ApplyOtherSound DEF Sound
  <2> HIDE DEF a, model, q
  <2>3. a.ready = c.ready
    BY <1>1, <2>1 DEF Client
  <2>4. d.ready = a.ready
    BY <1>1, <1>5, <2>2, SetRemoteFields DEF a
  <2>5. ASSUME InPlace(c, log, s) PROVE InPlace(d, log, s)
    BY <1>1, <1>5, <2>5, ApplyOtherInPlace
  <2> QED
    BY <2>3, <2>4, <2>5
<1> HIDE DEF id
<1>6. \/ d = c
      \/ d = Resynchronize(c)
      \/ (r = c.base + 1 /\ Pending(c, id) /\ d = SetRemote(Acknowledge(c, id, r), r))
      \/ (/\ r = c.base + 1 /\ ~ConflictsWithPending(c, id) /\ ~Pending(c, id)
          /\ d = SetRemote(ApplyOther(c, id, r), r))
  <2>1. ApplyRevision(c, r) = CASE r # c.base + 1 -> Resynchronize(c)
       [] r = c.base + 1 /\ id \in c.own -> c
       [] r = c.base + 1 /\ id \notin c.own /\ Pending(c, id) ->
            SetRemote(Acknowledge(c, id, r), r)
       [] OTHER ->
            IF ConflictsWithPending(c, id) THEN Resynchronize(c)
            ELSE SetRemote(ApplyOther(c, id, r), r)
    BY DEF ApplyRevision, id
  <2>2. CASE r # c.base + 1
    BY <2>1, <2>2
  <2>3. CASE r = c.base + 1 /\ id \in c.own
    BY <2>1, <2>3
  <2>4. CASE r = c.base + 1 /\ id \notin c.own /\ Pending(c, id)
    BY <2>1, <2>4
  <2>5. CASE r = c.base + 1 /\ id \notin c.own /\ ~Pending(c, id)
    BY <2>1, <2>5
  <2> QED
    BY <2>2, <2>3, <2>4, <2>5
<1> QED
  BY <1>2, <1>3, <1>4, <1>5, <1>6 DEF id

LEMMA ReceiveInPlace ==
  ASSUME NEW s, NEW c, TypeOK, Sound(c, log, s), LogOrder(log, s),
         NEW r \in 1 .. Revision, NEW d, d = Receive(c, r)
  PROVE  /\ InPlace(c, log, s) => InPlace(d, log, s) \/ (d.failed /\ ~d.ready)
         /\ d.ready => c.ready
         /\ c.failed => (d.failed /\ d.ready = c.ready)
         /\ c.syncing =>
              /\ d.model = c.model /\ d.base = c.base /\ d.remote = c.remote
              /\ d.queue = c.queue /\ d.syncing = c.syncing
<1>1. CASE c.syncing
  <2>1. d = [c EXCEPT !.deferred = Append(@, r)] /\ c \in Client
    BY <1>1 DEF Receive, Sound
  <2>2. /\ d.base = c.base /\ d.remote = c.remote /\ d.queue = c.queue /\ d.model = c.model
        /\ d.failed = c.failed /\ d.ready = c.ready /\ d.syncing = c.syncing
    BY <2>1 DEF Client
  <2>3. InPlace(c, log, s) => InPlace(d, log, s)
    BY <2>2, SamePlace
  <2> QED
    BY <2>2, <2>3
<1>2. CASE ~c.syncing /\ d = c
  BY <1>2
<1>3. CASE ~c.syncing /\ ~c.failed /\ d = ApplyRevision(c, r)
  BY <1>3, ApplyRevisionInPlace
<1> QED
  BY <1>1, <1>2, <1>3 DEF Receive

\* The revisions that waited for a synchronization.
LEMMA ReceiveDeferredInPlace ==
  ASSUME TypeOK, NEW s, NEW c, Sound(c, log, s), LogOrder(log, s),
         ~c.ready, InPlace(c, log, s), NEW d, d = ReceiveDeferred(c)
  PROVE  ~d.ready /\ (d.failed \/ InPlace(d, log, s))
<1> DEFINE first == [c EXCEPT !.syncing = FALSE, !.deferred = << >>]
           n == Len(c.deferred)
           f == Received(c)
           P(x) == /\ Sound(x, log, s) /\ ~x.ready
                   /\ x.failed \/ InPlace(x, log, s)
           T == {m \in 0 .. n : ~ P(f[m])}
<1>1. /\ c \in Client /\ c.deferred \in Seq(Nat)
      /\ n \in Nat /\ DOMAIN c.deferred = 1 .. n
      /\ \A i \in 1 .. n : c.deferred[i] \in 1 .. Revision
  BY LogAsPrefix, LenProperties DEF Sound, Client
<1>2. f = [i \in 0 .. n |-> IF i = 0 THEN first ELSE Receive(f[i - 1], c.deferred[i])]
  BY <1>1, ReceivedUnfolds DEF Unfolds
<1>3. P(first)
  <2>1. << >> \in Seq(Nat) /\ DOMAIN << >> = {}
    OBVIOUS
  <2>2. /\ first \in Client /\ first.base = c.base /\ first.remote = c.remote
        /\ first.deferred = << >> /\ first.committed = c.committed /\ first.queue = c.queue
        /\ first.model = c.model /\ first.ready = c.ready
    BY <1>1, <2>1 DEF Client
  <2> HIDE DEF first
  <2>3. Sound(first, log, s)
    BY <2>1, <2>2 DEF Sound
  <2>4. InPlace(first, log, s)
    BY <2>2, SamePlace
  <2> QED
    BY <2>2, <2>3, <2>4
<1>4. ASSUME NEW x, P(x), NEW r \in 1 .. Revision PROVE P(Receive(x, r))
  <2> DEFINE y == Receive(x, r)
  <2>1. Sound(y, log, s)
    BY <1>4, ReceiveSound
  <2>2. /\ InPlace(x, log, s) => InPlace(y, log, s) \/ (y.failed /\ ~y.ready)
        /\ y.ready => x.ready
        /\ x.failed => (y.failed /\ y.ready = x.ready)
    BY <1>4, ReceiveInPlace
  <2> HIDE DEF y, f, first, n, T
  <2>3. ~y.ready
    BY <1>4, <2>2, Zenon
  <2>4. y.failed \/ InPlace(y, log, s)
    BY <1>4, <2>2, Zenon
  <2>5. P(y)
    BY <2>1, <2>3, <2>4
  <2> QED
    BY <2>5 DEF y
<1> HIDE DEF P
<1>5. ASSUME T # {} PROVE FALSE
  <2> HIDE DEF f, first, n
  <2>1. PICK m \in T : \A k \in T : m <= k
    <3>1. T \in SUBSET Nat
      BY <1>1
    <3> HIDE DEF T
    <3> QED
      BY <1>5, <3>1, LeastExists
  <2>2. CASE m = 0
    BY <1>1, <1>2, <1>3, <2>1, <2>2
  <2>3. CASE m # 0
    <3>1. m - 1 \in 0 .. n /\ m - 1 \notin T /\ m \in 1 .. n
      BY <1>1, <2>1, <2>3
    <3>2. P(f[m - 1])
      BY <3>1
    <3>3. P(Receive(f[m - 1], c.deferred[m]))
      BY <1>1, <1>4, <3>1, <3>2
    <3> QED
      BY <1>1, <1>2, <2>1, <2>3, <3>3
  <2> QED
    BY <2>2, <2>3
<1>6. P(f[n])
  BY <1>1, <1>5
<1>7. d = f[n]
  BY DEF ReceiveDeferred
<1> HIDE DEF f, n
<1> QED
  BY <1>6, <1>7 DEF P

\* The operations of a queue, in its order.
Waiting(q) == [i \in DOMAIN q |-> q[i].id]

\* A document followed by what is pending.
Followed(t, m, q) ==
  /\ t \in Seq(Operations) /\ Len(m) \in Nat /\ Len(q) \in Nat
  /\ DOMAIN m = 1 .. Len(m) /\ DOMAIN q = 1 .. Len(q)
  /\ DOMAIN t = 1 .. Len(m) + Len(q)
  /\ \A i \in 1 .. Len(m) : t[i] = m[i]
  /\ \A i \in 1 .. Len(q) : t[Len(m) + i] = q[i].id
  /\ \A i \in DOMAIN t : i \in 1 .. Len(m) \/ i - Len(m) \in 1 .. Len(q)
  /\ \A i \in DOMAIN t : ~(i \in 1 .. Len(m)) => t[i] = q[i - Len(m)].id

LEMMA IdsAppended ==
  ASSUME NEW m \in Seq(Operations), NEW q \in Seq(Entry),
         NEW t, t = m \o Waiting(q)
  PROVE  Followed(t, m, q)
<1> DEFINE ids == [i \in DOMAIN q |-> q[i].id]
<1>1. DOMAIN q = 1 .. Len(q) /\ Len(q) \in Nat /\ DOMAIN m = 1 .. Len(m) /\ Len(m) \in Nat
  BY LenProperties
<1>2. \A i \in 1 .. Len(q) : q[i].id \in Operations
  <2>1. \A i \in 1 .. Len(q) : q[i] \in Entry
    BY <1>1, ElementOfSeq
  <2> QED
    BY <1>1, <2>1 DEF Entry, Operations
<1>3. ids \in Seq(Operations) /\ Len(ids) = Len(q) /\ \A i \in 1 .. Len(q) : ids[i] = q[i].id
  <2>1. ids \in [1 .. Len(q) -> Operations]
    BY <1>1, <1>2
  <2> QED
    BY <1>1, <2>1, SeqDef, LenProperties
<1>4. t = m \o ids
  BY DEF Waiting
<1> HIDE DEF ids
<1>5. /\ t \in Seq(Operations)
      /\ Len(t) = Len(m) + Len(ids)
      /\ \A i \in 1 .. Len(m) + Len(ids) : t[i] = IF i <= Len(m) THEN m[i] ELSE ids[i - Len(m)]
  <2> HIDE DEF Operations
  <2>1. /\ m \o ids \in Seq(Operations)
        /\ Len(m \o ids) = Len(m) + Len(ids)
        /\ \A i \in 1 .. Len(m) + Len(ids) :
             (m \o ids)[i] = IF i <= Len(m) THEN m[i] ELSE ids[i - Len(m)]
    BY ONLY <1>3, ConcatProperties, m \in Seq(Operations)
  <2> QED
    BY ONLY <1>4, <2>1
<1>6. DOMAIN t = 1 .. Len(m) + Len(q)
  BY <1>3, <1>5, LenProperties
<1>7. \A i \in 1 .. Len(m) + Len(q) : t[i] = IF i <= Len(m) THEN m[i] ELSE ids[i - Len(m)]
  BY <1>3, <1>5
<1>8. ASSUME NEW i \in 1 .. Len(m) PROVE t[i] = m[i]
  <2>1. i \in 1 .. Len(m) + Len(q) /\ i <= Len(m)
    BY ONLY <1>1, <1>8
  <2> QED
    BY <1>7, <2>1
<1>9. ASSUME NEW i \in 1 .. Len(q) PROVE t[Len(m) + i] = q[i].id
  <2>1. /\ Len(m) + i \in 1 .. Len(m) + Len(q)
        /\ ~(Len(m) + i <= Len(m)) /\ (Len(m) + i) - Len(m) = i
    BY ONLY <1>1, <1>9
  <2> QED
    BY <1>3, <1>7, <2>1
<1>10. ASSUME NEW i \in DOMAIN t, ~(i \in 1 .. Len(m))
       PROVE  i - Len(m) \in 1 .. Len(q) /\ t[i] = q[i - Len(m)].id
  <2>1. i \in 1 .. Len(m) + Len(q) /\ ~(i <= Len(m)) /\ i - Len(m) \in 1 .. Len(q)
    BY ONLY <1>1, <1>6, <1>10
  <2> QED
    BY <1>3, <1>7, <2>1
<1> QED
  BY <1>1, <1>5, <1>6, <1>8, <1>9, <1>10 DEF Followed

\* The entries of a queue are of different operations.
LEMMA QueueIsDistinct ==
  ASSUME NEW q \in Seq(Entry), NEW s, DOMAIN s \subseteq Nat, InIssueOrder(q, s), Distinct(s)
  PROVE  \A i, j \in DOMAIN q : q[i].id = q[j].id => i = j
<1> SUFFICES ASSUME NEW i \in DOMAIN q, NEW j \in DOMAIN q, i < j, q[i].id = q[j].id
             PROVE  FALSE
  BY LenProperties
<1>1. PICK a \in DOMAIN s, b \in DOMAIN s : a < b /\ s[a].id = q[i].id /\ s[b].id = q[j].id
  BY DEF InIssueOrder
<1>2. a = b
  BY <1>1 DEF Distinct
<1> QED
  BY <1>1, <1>2

\* The document of a revision followed by what is pending is in place, whatever
\* sequence it is of.
LEMMA RevisionThenQueue ==
  ASSUME NEW l \in Seq(Operations), NEW s, DOMAIN s \subseteq Nat, Distinct(s), LogOrder(l, s),
         NEW r \in 0 .. Len(l), NEW m \in Seq(Operations), HasRevision(m, l, r),
         NEW q \in Seq(Entry), InIssueOrder(q, s), IdsOf(q) \cap Prefix(l, r) = {},
         NEW d, d.model = m \o Waiting(q),
         d.queue = q, d.remote = r, d.base = r
  PROVE  InPlace(d, l, s)
<1> DEFINE t == d.model
<1>1. /\ Len(m) = r /\ r \in Nat /\ Len(q) \in Nat /\ Len(l) \in Nat /\ r <= Len(l)
      /\ DOMAIN q = 1 .. Len(q) /\ DOMAIN l = 1 .. Len(l)
      /\ \A i \in 1 .. r : m[i] = l[i]
  BY LenProperties DEF HasRevision
<1>2. /\ DOMAIN t = 1 .. r + Len(q)
      /\ \A i \in 1 .. r : t[i] = l[i]
      /\ \A i \in 1 .. Len(q) : t[r + i] = q[i].id
      /\ \A i \in DOMAIN t : i \in 1 .. r \/ i - r \in 1 .. Len(q)
      /\ \A i \in DOMAIN t : ~(i \in 1 .. r) => t[i] = q[i - r].id
  <2> HIDE DEF t
  <2>1. t = m \o Waiting(q)
    BY DEF t
  <2>2. Followed(t, m, q)
    BY <2>1, IdsAppended
  <2> QED
    BY <1>1, <2>2 DEF Followed
<1> HIDE DEF t
<1>3. /\ \A i \in 1 .. r : l[i] \in Prefix(l, r)
      /\ \A i \in 1 .. Len(q) : q[i].id \in IdsOf(q)
  BY <1>1 DEF Prefix, IdsOf
<1>4. /\ \A i \in 1 .. r : i \in DOMAIN t
      /\ \A i \in 1 .. Len(q) : r + i \in DOMAIN t
      /\ \A i \in 1 .. r : i \in 1 .. Len(l)
  BY <1>1, <1>2
<1>5. ToSet(t) = Prefix(l, r) \cup IdsOf(q)
  <2>1. ToSet(t) \subseteq Prefix(l, r) \cup IdsOf(q)
    <3> SUFFICES ASSUME NEW i \in DOMAIN t PROVE t[i] \in Prefix(l, r) \cup IdsOf(q)
      BY DEF ToSet
    <3> QED
      BY <1>2, <1>3
  <2>2. Prefix(l, r) \subseteq ToSet(t)
    <3>1. \A i \in 1 .. r : t[i] \in ToSet(t)
      BY ONLY <1>4 DEF ToSet
    <3>2. \A i \in 1 .. r : l[i] \in ToSet(t)
      BY ONLY <1>2, <3>1
    <3> QED
      BY ONLY <3>2 DEF Prefix
  <2>3. IdsOf(q) \subseteq ToSet(t)
    <3> SUFFICES ASSUME NEW i \in 1 .. Len(q) PROVE q[i].id \in ToSet(t)
      BY <1>1 DEF IdsOf
    <3> QED
      BY <1>2, <1>4 DEF ToSet
  <2> QED
    BY <2>1, <2>2, <2>3
<1>6. \A i, j \in 1 .. Len(q) : q[i].id = q[j].id => i = j
  BY <1>1, QueueIsDistinct
<1>7. ASSUME NEW i \in DOMAIN t, NEW j \in DOMAIN t, t[i] = t[j] PROVE i = j
  <2>1. CASE i \in 1 .. r /\ j \in 1 .. r
    BY <1>1, <1>2, <1>4, <1>7, <2>1 DEF LogOrder
  <2>2. CASE ~(i \in 1 .. r) /\ ~(j \in 1 .. r)
    <3>1. i - r = j - r
      BY <1>2, <1>6, <1>7, <2>2
    <3> QED
      BY <1>1, <1>2, <3>1
  <2>3. CASE i \in 1 .. r /\ ~(j \in 1 .. r)
    <3>1. t[i] \in Prefix(l, r)
      BY ONLY <1>2, <1>3, <2>3
    <3>2. t[j] \in IdsOf(q)
      BY ONLY <1>2, <1>3, <1>7, <2>3
    <3> QED
      BY ONLY <1>7, <3>1, <3>2, IdsOf(q) \cap Prefix(l, r) = {}
  <2>4. CASE ~(i \in 1 .. r) /\ j \in 1 .. r
    <3>1. t[j] \in Prefix(l, r)
      BY ONLY <1>2, <1>3, <2>4
    <3>2. t[i] \in IdsOf(q)
      BY ONLY <1>2, <1>3, <1>7, <2>4
    <3> QED
      BY ONLY <1>7, <3>1, <3>2, IdsOf(q) \cap Prefix(l, r) = {}
  <2> QED
    BY <2>1, <2>2, <2>3, <2>4
<1>8. ASSUME NEW i \in DOMAIN t, NEW j \in DOMAIN t, i < j PROVE Precedes(t[i], t[j], d, l, s)
  <2>1. CASE j \in 1 .. r
    <3>1. i \in 1 .. r
      BY <1>1, <1>2, <1>8, <2>1
    <3> QED
      BY <1>2, <1>8, <2>1, <3>1 DEF Precedes
  <2>2. CASE i \in 1 .. r /\ ~(j \in 1 .. r)
    BY <1>2, <1>3, <2>2 DEF Precedes
  <2>3. CASE ~(i \in 1 .. r) /\ ~(j \in 1 .. r)
    <3> DEFINE a == i - r
               b == j - r
    <3>1. /\ a \in 1 .. Len(q) /\ b \in 1 .. Len(q) /\ t[i] = q[a].id /\ t[j] = q[b].id
      BY <1>2, <2>3
    <3>2. a < b
      BY <1>1, <1>2, <1>8
    <3> HIDE DEF a, b
    <3>3. \E x, y \in DOMAIN s : x < y /\ s[x].id = q[a].id /\ s[y].id = q[b].id
      <4>1. a \in DOMAIN q /\ b \in DOMAIN q
        BY <1>1, <3>1
      <4> QED
        BY <3>2, <4>1 DEF InIssueOrder
    <3> QED
      BY <1>3, <3>1, <3>3 DEF Precedes
  <2> QED
    BY <2>1, <2>2, <2>3
<1> QED
  BY <1>5, <1>7, <1>8 DEF InPlace, t

\* loadCommittedHistory and replayPendingOperations, when the document has the history.
LEMMA LoadedInPlace ==
  ASSUME TypeOK, NEW s, DOMAIN s \subseteq Nat, NEW c, Sound(c, log, s), Distinct(s),
         LogOrder(log, s), NEW h \in 0 .. Revision, c.base <= h, c.remote = h,
         HasRevision(c.model, log, h),
         NEW e, e = LoadHistory(c, h), NEW d, d = Replay(e)
  PROVE  InPlace(d, log, s) /\ d.ready = c.ready
<1> DEFINE applied == Min({h, c.remote})
           q == Without(c.queue, Through(applied))
           base == Max({c.base, applied})
           model == c.model \o Waiting(q)
<1>1. /\ c \in Client /\ c.base \in Nat /\ h \in Nat /\ c.queue \in Seq(Entry)
      /\ c.model \in Seq(Operations) /\ log \in Seq(Operations) /\ h \in 0 .. Len(log)
      /\ InIssueOrder(c.queue, s)
  BY LogAsPrefix DEF Sound, Client
<1>2. applied = h
  BY <1>1, MinOfTwo
<1> HIDE DEF applied
<1>3. base = h
  BY <1>1, <1>2, MaxOfTwo
<1> HIDE DEF base
<1>4. /\ q \in Seq(Entry) /\ IdsOf(q) = IdsOf(c.queue) \ Through(applied)
      /\ InIssueOrder(q, s)
  BY <1>1, WithoutProperties
<1>5. IdsOf(q) \cap Prefix(log, h) = {}
  BY <1>2, <1>4, LogAsPrefix
<1> HIDE DEF q
<1>6. e = [c EXCEPT !.queue = q, !.committed = @ \cup Through(applied), !.base = base,
                    !.own = @ \ (IdsOf(c.queue) \cap Through(h))]
  BY DEF LoadHistory, q, base, applied
<1>7. /\ e.queue = q /\ e.base = h /\ e.remote = h /\ e.ready = c.ready
      /\ e.model = c.model
  BY <1>1, <1>3, <1>6 DEF Client
<1>8. d = [e EXCEPT !.model = model]
  BY <1>7 DEF Replay, Waiting
<1>9. e \in Client
  BY <1>1, LoadHistorySound DEF Sound
<1>10. /\ d.queue = q /\ d.base = h /\ d.remote = h /\ d.ready = c.ready
       /\ d.model = model
  <2> HIDE DEF model
  <2> QED
    BY <1>7, <1>8, <1>9 DEF Client
<1>11. InPlace(d, log, s)
  BY <1>1, <1>4, <1>5, <1>10, RevisionThenQueue
<1> QED
  BY <1>10, <1>11

\* flushQueue changes nothing that the document depends on.
LEMMA SendHeadKeeps ==
  ASSUME NEW c \in Client, SendHead(c)
  PROVE  /\ client'.base = c.base /\ client'.remote = c.remote /\ client'.model = c.model
         /\ client'.ready = c.ready /\ client'.syncing = c.syncing
         /\ IdsOf(client'.queue) = IdsOf(c.queue)
<1> DEFINE q == c.queue
<1>1. /\ c \in Client /\ q \in Seq(Entry) /\ DOMAIN q = 1 .. Len(q) /\ Len(q) \in Nat
  BY LenProperties DEF Client
<1>2. CASE ~CanSend(c)
  BY <1>2 DEF SendHead
<1>3. CASE CanSend(c)
  <2> DEFINE h == q[1]
             p == [q EXCEPT ![1].status = "sent"]
             own == c.own \cup {h.id}
  <2>1. 1 \in DOMAIN q /\ Head(q) = h /\ h \in Entry
    <3>1. q # << >>
      BY <1>3 DEF CanSend
    <3>2. Len(q) >= 1
      BY <1>1, <3>1, EmptySeq
    <3> QED
      BY <1>1, <3>1, <3>2, ElementOfSeq
  <2>2. client' = [c EXCEPT !.queue[1].status = "sent", !.own = @ \cup {Head(q).id}]
    BY <1>3, <2>1 DEF SendHead
  <2>3. DOMAIN p = DOMAIN q /\ \A i \in DOMAIN q : p[i].id = q[i].id
    <3> DEFINE e == [h EXCEPT !.status = "sent"]
    <3>1. e.id = h.id
      BY <2>1 DEF Entry
    <3>2. p = [q EXCEPT ![1] = e]
      BY <1>1, <2>1
    <3> HIDE DEF e, p
    <3> QED
      BY <1>1, <2>1, <3>1, <3>2, ExceptSeq, LenProperties
  <2>4. IdsOf(p) = IdsOf(q)
    <3> HIDE DEF p
    <3> QED
      BY <2>3 DEF IdsOf
  <2>5. client' = [c EXCEPT !.queue = p, !.own = own]
    BY <1>1, <2>1, <2>2 DEF Client
  <2> HIDE DEF p, own
  <2>6. /\ client'.base = c.base /\ client'.remote = c.remote /\ client'.model = c.model
        /\ client'.ready = c.ready /\ client'.syncing = c.syncing /\ client'.queue = p
    BY <1>1, <2>5 DEF Client
  <2> QED
    BY <2>4, <2>6
<1> QED
  BY <1>2, <1>3

LEMMA FlushAllKeeps ==
  ASSUME NEW c \in Client, FlushAll(c)
  PROVE  /\ client'.base = c.base /\ client'.remote = c.remote /\ client'.model = c.model
         /\ client'.ready = c.ready /\ client'.syncing = c.syncing
         /\ IdsOf(client'.queue) = IdsOf(c.queue)
  BY SendHeadKeeps DEF FlushAll

ComesBefore(x, y, t) == \E p, q \in DOMAIN t : p < q /\ t[p] = x /\ t[q] = y

\* What ought to come first in the document does, where the revisions come first and
\* then what is pending.
LEMMA PlacesOfPrecedes ==
  ASSUME NEW l, NEW s, DOMAIN s \subseteq Nat, Distinct(s), NEW c, c.remote \in Nat,
         InIssueOrder(c.queue, s), NEW m, HasRevision(m, l, c.remote),
         NEW t, Followed(t, m, c.queue), NEW x, NEW y, Precedes(x, y, c, l, s)
  PROVE  ComesBefore(x, y, t)
<1> DEFINE r == c.remote
           w == c.queue
<1>1. /\ Len(w) \in Nat /\ DOMAIN w = 1 .. Len(w) /\ DOMAIN t = 1 .. r + Len(w) /\ r \in Nat
      /\ \A i \in 1 .. r : t[i] = l[i]
      /\ \A i \in 1 .. Len(w) : t[r + i] = w[i].id
  BY DEF Followed, HasRevision
<1>2. /\ \A i \in 1 .. r : i \in DOMAIN t
      /\ \A i \in 1 .. Len(w) : r + i \in DOMAIN t
  BY <1>1
<1>3. CASE \E i, j \in 1 .. r : i < j /\ l[i] = x /\ l[j] = y
  BY <1>1, <1>2, <1>3 DEF ComesBefore
<1>4. CASE x \in Prefix(l, r) /\ y \in IdsOf(w)
  <2>1. PICK i \in 1 .. r : l[i] = x
    BY <1>4 DEF Prefix
  <2>2. PICK j \in 1 .. Len(w) : w[j].id = y
    BY <1>1, <1>4 DEF IdsOf
  <2>3. i < r + j
    BY <1>1
  <2> QED
    BY <1>1, <1>2, <2>1, <2>2, <2>3 DEF ComesBefore
<1>5. CASE /\ {x, y} \subseteq IdsOf(w)
           /\ \E i, j \in DOMAIN s : i < j /\ s[i].id = x /\ s[j].id = y
  <2>1. PICK i \in 1 .. Len(w), j \in 1 .. Len(w) : w[i].id = x /\ w[j].id = y
    BY <1>1, <1>5 DEF IdsOf
  <2>2. PICK a \in DOMAIN s, b \in DOMAIN s : a < b /\ s[a].id = x /\ s[b].id = y
    BY <1>5
  <2>3. i # j
    <3> SUFFICES ASSUME i = j PROVE FALSE
      OBVIOUS
    <3>1. a = b
      BY <2>1, <2>2 DEF Distinct
    <3> QED
      BY <2>2, <3>1
  <2>4. ~(j < i)
    <3> SUFFICES ASSUME j < i PROVE FALSE
      OBVIOUS
    <3>1. i \in DOMAIN w /\ j \in DOMAIN w
      BY <1>1
    <3>2. PICK d \in DOMAIN s, e \in DOMAIN s : d < e /\ s[d].id = w[j].id /\ s[e].id = w[i].id
      BY <3>1 DEF InIssueOrder
    <3>3. d = b /\ e = a
      BY <2>1, <2>2, <3>2 DEF Distinct
    <3> QED
      BY <2>2, <3>2, <3>3
  <2>5. r + i < r + j
    BY <1>1, <2>3, <2>4
  <2> QED
    BY <1>1, <1>2, <2>1, <2>5 DEF ComesBefore
<1> QED
  BY <1>3, <1>4, <1>5 DEF Precedes

LEMMA InPlaceIsInStep ==
  ASSUME IInv, InPlace(client, log, issued)
  PROVE  InStep
<1> DEFINE r == client.remote
           q == client.queue
           m == SubSeq(log, 1, r)
           t == m \o Waiting(q)
           d == [client EXCEPT !.model = t]
<1>1. /\ client \in Client /\ log \in Seq(Operations) /\ r \in Nat /\ r \in 0 .. Len(log)
      /\ Len(log) \in Nat /\ q \in Seq(Entry) /\ client.model \in Seq(Operations)
      /\ InIssueOrder(q, issued) /\ IdsOf(q) \cap Prefix(log, r) = {}
      /\ client.base = r /\ Distinct(issued) /\ DOMAIN issued \subseteq Nat
  <2>1. /\ client \in Client /\ log \in Seq(Operations) /\ Sound(client, log, issued)
        /\ DOMAIN issued \subseteq Nat /\ Distinct(issued)
    BY LenProperties DEF IInv, TypeOK
  <2> QED
    BY <2>1, LenProperties DEF Sound, Client, InPlace
<1>2. m \in Seq(Operations) /\ HasRevision(m, log, r)
  <2>1. \A i \in 1 .. r : log[i] \in Operations
    BY <1>1, ElementOfSeq
  <2>2. m \in Seq(Operations) /\ Len(m) = r /\ \A i \in 1 .. r : m[i] = log[i]
    BY <1>1, <2>1, SubSeqProperties
  <2> HIDE DEF m
  <2> QED
    BY <2>2 DEF HasRevision
<1> HIDE DEF m
<1>3. Followed(t, m, q)
  BY <1>1, <1>2, IdsAppended
<1> HIDE DEF t
<1>4. /\ d.model = t /\ d.queue = q /\ d.remote = r /\ d.base = r
  BY <1>1, <1>3 DEF Client, Followed
<1>5. InPlace(d, log, issued)
  <2> HIDE DEF d
  <2>1. d.model = m \o Waiting(q)
    BY <1>4 DEF t
  <2> QED
    BY <1>1, <1>2, <1>4, <2>1, LogOrderHolds, RevisionThenQueue
<1>6. /\ \A i, j \in DOMAIN t : t[i] = t[j] => i = j
      /\ ToSet(t) = ToSet(client.model)
  <2> HIDE DEF d
  <2> QED
    BY <1>4, <1>5 DEF InPlace
<1>7. ASSUME NEW cell \in Cells
      PROVE  Kept(client.model, {i \in DOMAIN client.model : cell \in Touches[client.model[i]]})
               = Kept(t, {i \in DOMAIN t : cell \in Touches[t[i]]})
  <2> DEFINE K == {i \in DOMAIN client.model : cell \in Touches[client.model[i]]}
             L == {i \in DOMAIN t : cell \in Touches[t[i]]}
  <2>1. K \in SUBSET DOMAIN client.model /\ L \in SUBSET DOMAIN t
    OBVIOUS
  <2>2. \A i, j \in L : t[i] = t[j] => i = j
    BY <1>6
  <2>3. ASSUME NEW k \in K PROVE \E p \in L : t[p] = client.model[k]
    BY <1>6 DEF ToSet
  <2>4. ASSUME NEW p \in L PROVE \E k \in K : t[p] = client.model[k]
    <3>1. t[p] \in ToSet(client.model)
      BY <1>6 DEF ToSet
    <3> QED
      BY <3>1 DEF ToSet
  <2>5. ASSUME NEW i \in K, NEW j \in K, i < j
        PROVE  \E p, n \in L : p < n /\ t[p] = client.model[i] /\ t[n] = client.model[j]
    <3>1. Overlap(client.model[i], client.model[j])
      BY DEF Overlap
    <3>2. Precedes(client.model[i], client.model[j], client, log, issued)
      BY <2>5, <3>1 DEF InPlace
    <3> DEFINE x == client.model[i]
               y == client.model[j]
    <3>3. ComesBefore(x, y, t)
      <4> HIDE DEF x, y
      <4>1. Precedes(x, y, client, log, issued)
        BY <3>2 DEF x, y
      <4> QED
        <5>1. /\ DOMAIN issued \subseteq Nat /\ Distinct(issued) /\ client.remote \in Nat
              /\ InIssueOrder(client.queue, issued)
          BY <1>1
        <5> QED
          BY ONLY <5>1, <1>2, <1>3, <4>1, PlacesOfPrecedes
    <3>4. cell \in Touches[x] /\ cell \in Touches[y]
      OBVIOUS
    <3> HIDE DEF x, y
    <3>5. \E p, n \in L : p < n /\ t[p] = x /\ t[n] = y
      BY <3>3, <3>4 DEF ComesBefore
    <3> QED
      BY <3>5 DEF x, y
  <2> HIDE DEF K, L
  <2>6. t \in Seq(Operations)
    BY <1>3 DEF Followed
  <2>7. Kept(client.model, K) = Kept(t, L)
    <3> HIDE DEF Operations
    <3>1. client.model \in Seq(Operations)
      BY <1>1
    <3> QED
      BY ONLY <2>1, <2>2, <2>3, <2>4, <2>5, <2>6, <3>1, KeptOfSame
  <2> QED
    BY <2>7 DEF K, L
<1>8. t = SubSeq(log, 1, client.remote) \o [i \in DOMAIN client.queue |-> client.queue[i].id]
  BY DEF t, m, Waiting
<1> QED
  BY <1>7, <1>8 DEF InStep, SameDocument

-----------------------------------------------------------------------------
(* Every step leaves the document in place.                                *)

LEMMA IdlePlaced ==
  ASSUME NEW x, x.stage = "idle", NEW c, NEW l
  PROVE  LoadPlaced(x, c, l)
  BY DEF LoadPlaced

LEMMA SameLoadPlaced ==
  ASSUME NEW x, NEW c, NEW l, LoadPlaced(x, c, l), NEW d,
         d.model = c.model, d.base = c.base, d.remote = c.remote, d.syncing = c.syncing,
         ~c.ready => ~d.ready
  PROVE  LoadPlaced(x, d, l)
  BY Zenon DEF LoadPlaced

LEMMA QuietPlace ==
  ASSUME log' = log, issued' = issued, OneLoad(loads'),
         client'.ready => InPlace(client', log, issued),
         \A k \in Connections : LoadPlaced(loads'[k], client', log)
  PROVE  Placed'
  BY DEF Placed

\* Where the client keeps what the document depends on.
LEMMA ClientPlace ==
  ASSUME Placed, UNCHANGED <<log, issued, loads>>,
         client'.base = client.base, client'.remote = client.remote,
         client'.model = client.model, client'.syncing = client.syncing,
         client'.ready => (client.ready /\ IdsOf(client'.queue) = IdsOf(client.queue))
  PROVE  Placed'
<1>1. \A k \in Connections : LoadPlaced(loads[k], client', log)
  BY SameLoadPlaced DEF Placed
<1>2. client'.ready => InPlace(client', log, issued)
  BY SamePlace DEF Placed
<1>3. OneLoad(loads)
  BY DEF Placed
<1> QED
  BY <1>1, <1>2, <1>3, QuietPlace

\* Where one load goes on.
LEMMA OneLoadPlace ==
  ASSUME IInv, Placed, UNCHANGED <<log, issued>>,
         NEW k \in Connections, loads[k].stage # "idle",
         NEW x, loads' = [loads EXCEPT ![k] = x], ~client'.ready,
         LoadPlaced(x, client', log)
  PROVE  Placed'
<1>1. loads \in [Connections -> Load]
  BY DEF IInv, TypeOK
<1>2. \A j \in Connections : j # k => loads'[j] = loads[j] /\ loads[j].stage = "idle"
  BY <1>1 DEF Placed, OneLoad
<1>3. loads'[k] = x
  BY <1>1
<1>4. \A j \in Connections : LoadPlaced(loads'[j], client', log)
  BY <1>2, <1>3, IdlePlaced
<1>5. OneLoad(loads')
  BY <1>2 DEF OneLoad
<1> QED
  BY <1>4, <1>5, QuietPlace

LEMMA FlushPendingKeepsPlace ==
  ASSUME IInv, Placed, FlushPending \/ SendNext
  PROVE  Placed'
<1>1. SendHead(client) /\ UNCHANGED <<log, issued, loads>> /\ client \in Client
  BY DEF FlushPending, SendNext, IInv, TypeOK
<1>2. /\ client'.base = client.base /\ client'.remote = client.remote
      /\ client'.model = client.model
      /\ client'.ready = client.ready /\ client'.syncing = client.syncing
      /\ IdsOf(client'.queue) = IdsOf(client.queue)
  BY <1>1, SendHeadKeeps
<1> QED
  BY <1>1, <1>2, ClientPlace

LEMMA SendFailsKeepsPlace ==
  ASSUME IInv, Placed, SendFails
  PROVE  Placed'
<1> DEFINE c == Reject(client, request.id)
           e == [c EXCEPT !.own = @ \ {request.id}, !.ready = FALSE]
           q == [i \in DOMAIN client.queue |->
                   IF client.queue[i].id = request.id
                   THEN [client.queue[i] EXCEPT !.status = "rejected"] ELSE client.queue[i]]
<1>1. client' = e /\ UNCHANGED <<log, loads, issued>> /\ client \in Client
  BY DEF SendFails, IInv, TypeOK
<1>2. c = [client EXCEPT !.queue = q]
  BY DEF Reject
<1> HIDE DEF c, q
<1>3. /\ e.base = client.base /\ e.remote = client.remote /\ e.model = client.model
      /\ e.syncing = client.syncing /\ ~e.ready
  BY <1>1, <1>2 DEF Client
<1> HIDE DEF e
<1> QED
  BY <1>1, <1>3, ClientPlace

LEMMA DisconnectKeepsPlace ==
  ASSUME IInv, Placed, Disconnect
  PROVE  Placed'
<1>1. /\ client' = [client EXCEPT !.connected = FALSE, !.ready = FALSE]
      /\ UNCHANGED <<log, loads, issued>> /\ client \in Client
  BY DEF Disconnect, IInv, TypeOK
<1>2. /\ client'.base = client.base /\ client'.remote = client.remote
      /\ client'.model = client.model /\ client'.syncing = client.syncing
      /\ ~client'.ready
  BY <1>1 DEF Client
<1> QED
  BY <1>1, <1>2, ClientPlace

LEMMA BroadcastKeepsPlace ==
  ASSUME IInv, Placed, NEW r \in unsent, Broadcast(r)
  PROVE  Placed'
<1>1. client' = Receive(client, r) /\ UNCHANGED <<log, loads, issued>>
  BY DEF Broadcast
<1>2. TypeOK /\ Sound(client, log, issued) /\ r \in 1 .. Revision
  BY DEF IInv, TypeOK
<1>3. /\ InPlace(client, log, issued) =>
           InPlace(client', log, issued) \/ (client'.failed /\ ~client'.ready)
      /\ client'.ready => client.ready
      /\ client.syncing =>
           /\ client'.model = client.model /\ client'.base = client.base
           /\ client'.remote = client.remote
           /\ client'.queue = client.queue /\ client'.syncing = client.syncing
  BY <1>1, <1>2, LogOrderHolds, ReceiveInPlace
<1>4. client'.ready => InPlace(client', log, issued)
  BY <1>3, Zenon DEF Placed
<1>5. ~client.ready => ~client'.ready
  BY <1>3, Zenon
<1>6. ASSUME NEW k \in Connections PROVE LoadPlaced(loads[k], client', log)
  <2>1. LoadPlaced(loads[k], client, log)
    BY DEF Placed
  <2>2. CASE loads[k].stage = "idle"
    BY <2>2, IdlePlaced
  <2>3. CASE loads[k].stage # "idle"
    <3>1. client.syncing
      BY <2>1, <2>3 DEF LoadPlaced
    <3> QED
      BY <1>3, <1>5, <2>1, <3>1, SameLoadPlaced
  <2> QED
    BY <2>2, <2>3
<1> QED
  BY <1>1, <1>4, <1>6, QuietPlace DEF Placed

LEMMA OpenKeepsPlace ==
  ASSUME IInv, Placed, Undisturbed', Open
  PROVE  Placed'
<1>1. /\ opened < MaxConnections
      /\ client' = [client EXCEPT !.connected = TRUE, !.ready = FALSE,
                                  !.syncing = TRUE, !.failed = FALSE]
      /\ loads' = [loads EXCEPT ![opened + 1].stage = "opened"]
      /\ races' = races \cup {kind \in {"overlap"} : \E k \in Connections : Loading(k)}
      /\ UNCHANGED <<log, issued>>
  BY DEF Open
<1>2. client \in Client /\ loads \in [Connections -> Load] /\ opened + 1 \in Connections
  BY <1>1, OperationsAssumption DEF IInv, TypeOK, Connections
<1>3. ~client'.ready /\ client'.syncing
  BY <1>1, <1>2 DEF Client
<1>4. \A k \in Connections : loads[k].stage = "idle"
  BY <1>1 DEF Undisturbed, Loading
<1>5. \A k \in Connections : k # opened + 1 => loads'[k].stage = "idle"
  BY <1>1, <1>2, <1>4
<1>6. loads'[opened + 1].stage = "opened"
  BY <1>1, <1>2 DEF Load
<1>7. \A k \in Connections : LoadPlaced(loads'[k], client', log)
  BY <1>3, <1>5, <1>6, IdlePlaced DEF LoadPlaced
<1>8. OneLoad(loads')
  BY <1>5 DEF OneLoad
<1> QED
  BY <1>1, <1>3, <1>7, <1>8, QuietPlace

LEMMA LoadFailsKeepsPlace ==
  ASSUME IInv, Placed, NEW k \in Connections, LoadFails(k)
  PROVE  Placed'
<1>1. /\ client' = [client EXCEPT !.syncing = FALSE, !.failed = TRUE, !.ready = FALSE]
      /\ loads' = [loads EXCEPT ![k] = NotLoading] /\ loads[k].stage # "idle"
      /\ UNCHANGED <<log, issued>>
  BY DEF LoadFails, Loading
<1>2. client \in Client
  BY DEF IInv, TypeOK
<1>3. ~client'.ready
  BY <1>1, <1>2 DEF Client
<1>4. LoadPlaced(NotLoading, client', log)
  BY IdlePlaced DEF NotLoading
<1> QED
  BY <1>1, <1>3, <1>4, OneLoadPlace

\* An answer that no load has missed.
LEMMA AnsweredLoadPlaced ==
  ASSUME NEW x \in Load, NEW c \in Client, NEW l, LoadPlaced(x, c, l), NEW r \in Nat,
         NEW d \in Client, d.model = c.model, d.syncing = c.syncing, d.ready = c.ready,
         d.base \in {c.base, r}, d.remote \in {c.remote, r}, d.remote >= c.remote,
         d.remote >= r,
         x.stage \in {"newer", "finishing"} => r <= x.history
  PROVE  LoadPlaced(x, d, l)
<1>1. /\ x.history \in Nat /\ x.hydrated \in Nat /\ c.base \in Nat /\ d.base \in Nat
      /\ c.remote \in Nat /\ d.remote \in Nat
  BY DEF Load, Client
<1>2. c.base <= x.history \/ c.remote > x.history =>
        d.base <= x.history \/ d.remote > x.history
  BY <1>1
<1>3. ~c.ready => ~d.ready
  BY Zenon
<1>4. x.stage # "idle" => d.syncing /\ ~d.ready
  BY <1>3, Zenon DEF LoadPlaced
<1>5. x.stage = "newer" => d.base <= x.history /\ d.remote <= x.history
  BY <1>1 DEF LoadPlaced
<1>6. x.stage = "finishing" => d.base <= x.history /\ d.remote = x.history
  BY <1>1 DEF LoadPlaced
<1>7. x.hydrated <= c.remote => x.hydrated <= d.remote
  BY <1>1
<1> QED
  BY <1>2, <1>4, <1>5, <1>6, <1>7 DEF LoadPlaced

LEMMA ReadyPlaced ==
  ASSUME Placed, client.ready
  PROVE  \A k \in Connections : loads[k].stage = "idle"
  BY DEF Placed, LoadPlaced

LEMMA AcknowledgedKeepsPlace ==
  ASSUME IInv, Placed, Undisturbed', Acknowledged
  PROVE  Placed'
<1> DEFINE r == request.revision
           b == SetRemote(client, r)
           d == Acknowledge(b, request.id, r)
<1>1. /\ request.stage = "committed" /\ client' = [d EXCEPT !.own = @ \ {request.id}]
      /\ races' = races \cup RacesOf(r) \cup PassesOver(r - 1)
      /\ UNCHANGED <<log, loads, issued>>
  BY DEF Acknowledged
<1>2. /\ r \in DOMAIN log /\ log[r] = request.id
      /\ \E i \in DOMAIN issued : issued[i].id = log[r]
  <2>1. request # NoRequest
    BY <1>1 DEF NoRequest
  <2> QED
    BY <1>1, <2>1, PartsAreGood DEF GoodRequest, SentAfter
<1>3. /\ log \in Seq(Operations) /\ r \in 1 .. Len(log) /\ r \in 0 .. Len(log) /\ r \in Nat
      /\ client \in Client /\ loads \in [Connections -> Load] /\ client.remote \in Nat
      /\ Sound(client, log, issued)
  BY <1>2, LogAsPrefix DEF IInv, TypeOK, Client
<1>4. Sound(b, log, issued) /\ b \in Client
  BY <1>3, SetRemoteSound DEF Sound
<1>5. d \in Client
  BY <1>2, <1>3, <1>4, AcknowledgeSound DEF Sound
<1>6. /\ b.base = client.base /\ b.queue = client.queue /\ b.model = client.model
      /\ b.remote \in {client.remote, r} /\ b.remote >= client.remote /\ b.remote >= r
      /\ b.ready = client.ready /\ b.syncing = client.syncing
  <2>1. b = SetRemote(client, r)
    OBVIOUS
  <2> HIDE DEF b, d, r
  <2> QED
    BY <1>3, <2>1, SetRemoteFields
<1>7. d = Acknowledge(b, log[r], r)
  BY <1>2
<1> HIDE DEF b, d
<1>8. /\ d.model = b.model /\ d.remote = b.remote /\ d.ready = b.ready /\ d.syncing = b.syncing
      /\ d.base \in {b.base, r}
  <2> HIDE DEF r
  <2> QED
    BY <1>2, <1>3, <1>4, <1>7, LogOrderHolds, AcknowledgeFields DEF Counted
<1>9. /\ client'.base = d.base /\ client'.queue = d.queue /\ client'.model = d.model
      /\ client'.remote = d.remote /\ client'.ready = d.ready /\ client'.syncing = d.syncing
      /\ client' \in Client
  BY <1>1, <1>5 DEF Client
<1>10. "skips" \notin RacesOf(r) /\ "missed" \notin RacesOf(r)
  BY <1>1 DEF Undisturbed
<1>11. client.ready => r <= client.remote + 1
  <2>1. client.ready => \A k \in Connections : ~Loading(k)
    BY ReadyPlaced DEF Loading
  <2>2. client.ready => ~(r > client.remote + 1)
    BY <1>10, <2>1 DEF RacesOf
  <2> QED
    BY <1>3, <2>2
<1>12. \A k \in Connections : loads[k].stage \in {"newer", "finishing"} => r <= loads[k].history
  <2>1. \A k \in Connections : loads[k].stage \in {"newer", "finishing"} => ~(loads[k].history < r)
    BY <1>10 DEF RacesOf
  <2>2. \A k \in Connections : loads[k].history \in Nat
    BY <1>3 DEF Load
  <2> QED
    BY <1>3, <2>1, <2>2
<1> HIDE DEF r
<1>13. ASSUME NEW k \in Connections PROVE LoadPlaced(loads[k], client', log)
  <2>1. loads[k] \in Load /\ LoadPlaced(loads[k], client, log)
    BY <1>3 DEF Placed
  <2>2. /\ client'.model = client.model /\ client'.syncing = client.syncing
        /\ client'.ready = client.ready /\ client'.base \in {client.base, r}
        /\ client'.remote \in {client.remote, r} /\ client'.remote >= client.remote
        /\ client'.remote >= r
    BY <1>6, <1>8, <1>9
  <2> QED
    BY <1>3, <1>9, <1>12, <2>1, <2>2, AnsweredLoadPlaced
<1>14. ASSUME client'.ready PROVE InPlace(client', log, issued)
  <2>1. client.ready
    BY <1>6, <1>8, <1>9, <1>14, Zenon
  <2>2. InPlace(client, log, issued)
    BY <2>1 DEF Placed
  <2>3. r <= b.base + 1
    BY <1>6, <1>11, <2>1, <2>2 DEF InPlace
  <2>4. /\ IdsOf(client'.queue) = IdsOf(d.queue) /\ client'.model = client.model
        /\ client'.remote \in {client.remote, r} /\ client'.remote >= client.remote
        /\ client'.remote >= r /\ client'.base = d.base
    BY <1>6, <1>8, <1>9
  <2> QED
    BY <1>2, <1>3, <1>4, <1>6, <1>7, <2>2, <2>3, <2>4, LogOrderHolds, AnswerInPlace
<1> QED
  BY <1>1, <1>13, <1>14, QuietPlace DEF Placed

LEMMA CheckResultKeepsPlace ==
  ASSUME IInv, Placed, NEW k \in Connections, CheckResult(k)
  PROVE  Placed'
<1> DEFINE entry == Head(loads[k].todo)
           r == RevisionOf(entry.id)
           x == [loads[k] EXCEPT !.todo = Tail(@)]
<1>1. loads[k] \in Load /\ loads \in [Connections -> Load] /\ client \in Client
  BY PartsAreGood DEF IInv, TypeOK
<1>2. /\ loads[k].todo # << >> /\ loads[k].stage = "results"
      /\ loads' = [loads EXCEPT ![k] = x]
      /\ UNCHANGED <<log, issued>>
  BY <1>1 DEF CheckResult
<1>3. loads[k].todo \in Seq(Entry)
  BY <1>1 DEF Load
<1>4. entry \in Entry
  BY <1>2, <1>3, HeadTailProperties
<1>5. /\ x.stage = loads[k].stage /\ x.hydrated = loads[k].hydrated
      /\ x.history = loads[k].history /\ loads[k].hydrated \in Nat
  BY <1>1 DEF Load
<1> HIDE DEF x
<1>6. LoadPlaced(loads[k], client, log)
  BY DEF Placed
<1>7. /\ client.syncing /\ ~client.ready
      /\ HasRevision(client.model, log, loads[k].hydrated)
      /\ loads[k].hydrated <= client.remote
  BY <1>2, <1>6 DEF LoadPlaced
<1>8. /\ client'.model = client.model /\ client'.syncing = client.syncing
      /\ client'.ready = client.ready
      /\ loads[k].hydrated <= client'.remote
  <2>1. CASE InLog(entry.id)
             /\ client' = SetRemote([Acknowledge(client, entry.id, r) EXCEPT !.own = @ \ {entry.id}], r)
    <3> DEFINE c == Acknowledge(client, entry.id, r)
               d == [c EXCEPT !.own = @ \ {entry.id}]
    <3>1. r \in 1 .. Len(log) /\ r \in Nat /\ log[r] = entry.id /\ log \in Seq(Operations)
      <4>1. /\ log \in Seq(Operations) /\ Revision = Len(log) /\ Revision \in Nat
            /\ r \in 1 .. Revision /\ log[r] = entry.id
        <5>1. TypeOK /\ InLog(entry.id)
          BY <2>1 DEF IInv
        <5> QED
          BY ONLY <5>1, LogAsPrefix
      <4> QED
        BY ONLY <4>1
    <3>2. Sound(c, log, issued) /\ c \in Client
      BY <3>1, AcknowledgeSound DEF IInv, Sound
    <3>3. \E i \in DOMAIN issued : issued[i].id = log[r]
      <4>1. log[r] \in OwnOperations /\ r \in DOMAIN log
        BY <1>4, <3>1, LenProperties DEF Entry
      <4> QED
        BY <4>1 DEF IInv, OwnWereIssued
    <3>4. c = Acknowledge(client, log[r], r)
      BY <3>1
    <3> HIDE DEF c, r
    <3>5. /\ c.model = client.model /\ c.remote = client.remote /\ c.ready = client.ready
          /\ c.syncing = client.syncing
      BY <3>1, <3>3, <3>4, LogOrderHolds, AcknowledgeFields DEF IInv
    <3>6. /\ d.model = c.model /\ d.remote = c.remote
          /\ d.ready = c.ready /\ d.syncing = c.syncing /\ d \in Client
      BY <3>2 DEF Client
    <3>7. client' = SetRemote(d, r)
      BY <2>1 DEF c, r
    <3> HIDE DEF d
    <3>8. /\ client'.model = d.model /\ client'.remote >= d.remote
          /\ client'.remote \in {d.remote, r}
          /\ client'.ready = d.ready /\ client'.syncing = d.syncing
      BY <3>1, <3>6, <3>7, SetRemoteFields
    <3>9. client.remote \in Nat /\ client'.remote \in Nat
      BY <1>1, <3>1, <3>5, <3>6, <3>8 DEF Client
    <3> QED
      BY <1>5, <1>7, <3>5, <3>6, <3>8, <3>9
  <2>2. CASE client' = client
    BY <1>7, <2>2
  <2> QED
    BY <2>1, <2>2 DEF CheckResult
<1>9. ~client'.ready /\ client'.syncing
  BY <1>7, <1>8, Zenon
<1>10. LoadPlaced(x, client', log)
  BY <1>2, <1>5, <1>7, <1>8, <1>9 DEF LoadPlaced
<1> QED
  BY <1>2, <1>9, <1>10, OneLoadPlace

\* replaceModel
LEMMA HydratedHasRevision ==
  ASSUME TypeOK, NEW c \in Client, NEW r \in 0 .. Revision, NEW d, d = Hydrate(c, r)
  PROVE  /\ HasRevision(d.model, log, r) /\ d.remote = r /\ d.base \in {c.base, r}
         /\ d.ready = c.ready /\ d.syncing = c.syncing
<1> DEFINE base == Max({c.base, r})
           model == SubSeq(log, 1, r)
<1>1. /\ c.base \in Nat /\ r \in Nat /\ Revision \in Nat
      /\ Revision = Len(log) /\ log \in Seq(Operations)
  BY LogAsPrefix DEF Client
<1>2. base \in {c.base, r}
  BY <1>1, MaxOfTwo
<1> HIDE DEF base
<1>3. HasRevision(model, log, r)
  <2>1. \A i \in 1 .. r : log[i] \in Operations
    BY <1>1, LogAsPrefix, ElementOfSeq
  <2>2. model \in Seq(Operations) /\ Len(model) = r /\ \A i \in 1 .. r : model[i] = log[i]
    BY <1>1, <2>1, SubSeqProperties
  <2> HIDE DEF model
  <2> QED
    BY <2>2 DEF HasRevision
<1> HIDE DEF model
<1>4. d = [c EXCEPT !.model = model, !.remote = r, !.base = base]
  BY DEF Hydrate, model, base
<1>5. /\ d.model = model /\ d.remote = r /\ d.base = base
      /\ d.ready = c.ready /\ d.syncing = c.syncing
  BY <1>4 DEF Client
<1> QED
  BY <1>2, <1>3, <1>5

LEMMA HydratingKeepsPlace ==
  ASSUME IInv, Placed, NEW k \in Connections, HydrateSnapshot(k) \/ HydrateNewer(k)
  PROVE  Placed'
<1> DEFINE r == IF loads[k].stage = "snapshot" THEN loads[k].hydrated ELSE loads[k].history
           x == loads'[k]
<1>1. loads[k] \in Load /\ GoodLoad(loads[k]) /\ loads \in [Connections -> Load]
      /\ TypeOK /\ client \in Client
  BY PartsAreGood DEF IInv, TypeOK
<1>2. /\ UNCHANGED <<log, issued>>
      /\ loads[k].stage \in {"snapshot", "newer"}
      /\ client' = Hydrate(client, r)
  BY DEF HydrateSnapshot, HydrateNewer
<1>3. r \in 0 .. Revision /\ r \in Nat
  BY <1>1, LogAsPrefix DEF GoodLoad, Load
<1>4. /\ loads' = [loads EXCEPT ![k] = x]
      /\ x.hydrated = loads[k].hydrated /\ x.history = loads[k].history
      /\ loads[k].stage = "snapshot" => x.stage = "results"
      /\ loads[k].stage = "newer" => x.stage = "finishing"
  <2> HIDE DEF r
  <2>1. CASE HydrateSnapshot(k)
    <3> DEFINE y == [loads[k] EXCEPT !.stage = "results", !.todo = client.queue]
    <3>1. loads' = [loads EXCEPT ![k] = y] /\ loads[k].stage = "snapshot"
      BY <1>1, <2>1 DEF HydrateSnapshot
    <3>2. y.hydrated = loads[k].hydrated /\ y.history = loads[k].history /\ y.stage = "results"
      BY <1>1 DEF Load
    <3> HIDE DEF y
    <3> QED
      BY <1>1, <3>1, <3>2
  <2>2. CASE HydrateNewer(k)
    <3> DEFINE y == [loads[k] EXCEPT !.stage = "finishing"]
    <3>1. loads' = [loads EXCEPT ![k] = y] /\ loads[k].stage = "newer"
      BY <1>1, <2>2 DEF HydrateNewer
    <3>2. y.hydrated = loads[k].hydrated /\ y.history = loads[k].history /\ y.stage = "finishing"
      BY <1>1 DEF Load
    <3> HIDE DEF y
    <3> QED
      BY <1>1, <3>1, <3>2
  <2> QED
    BY <2>1, <2>2
<1>5. LoadPlaced(loads[k], client, log)
  BY DEF Placed
<1>6. /\ loads[k].stage = "snapshot" => r = loads[k].hydrated
      /\ loads[k].stage = "newer" => r = loads[k].history
  OBVIOUS
<1> HIDE DEF x, r
<1>7. /\ HasRevision(client'.model, log, r) /\ client'.remote = r
      /\ client'.base \in {client.base, r}
      /\ client'.ready = client.ready /\ client'.syncing = client.syncing
  BY <1>1, <1>2, <1>3, HydratedHasRevision
<1>8. ~client.ready /\ client.syncing
  BY <1>2, <1>5 DEF LoadPlaced
<1>9. ~client'.ready /\ client'.syncing
  BY <1>7, <1>8, Zenon
<1>10. LoadPlaced(x, client', log)
  <2>1. CASE loads[k].stage = "snapshot"
    BY <1>3, <1>4, <1>6, <1>7, <1>9, <2>1 DEF LoadPlaced
  <2>2. CASE loads[k].stage = "newer"
    <3>1. client.base <= loads[k].history
      BY <1>5, <2>2 DEF LoadPlaced
    <3>2. client'.base <= loads[k].history
      BY <1>3, <1>6, <1>7, <2>2, <3>1
    <3> QED
      BY <1>4, <1>6, <1>7, <1>9, <2>2, <3>2 DEF LoadPlaced
  <2> QED
    BY <1>2, <2>1, <2>2
<1>11. loads[k].stage # "idle"
  BY <1>2
<1> QED
  BY <1>2, <1>4, <1>9, <1>10, <1>11, OneLoadPlace

LEMMA ReadingKeepsPlace ==
  ASSUME IInv, Placed, NEW k \in Connections,
         ReadSnapshot(k) \/ ReadHistory(k) \/ ReceiveHistory(k)
  PROVE  Placed'
<1> DEFINE x == loads'[k]
<1>1. loads[k] \in Load /\ GoodLoad(loads[k]) /\ loads \in [Connections -> Load]
      /\ client \in Client /\ Revision \in Nat
      /\ client.base <= Revision
  BY PartsAreGood, LogAsPrefix DEF IInv, TypeOK, Sound
<1>2. /\ UNCHANGED <<log, client, issued>> /\ loads[k].stage # "idle"
  BY DEF ReadSnapshot, ReadHistory, ReceiveHistory
<1>3. LoadPlaced(loads[k], client, log)
  BY DEF Placed
<1>4. client.syncing /\ ~client.ready
  BY <1>2, <1>3 DEF LoadPlaced
<1>5. loads' = [loads EXCEPT ![k] = x] /\ LoadPlaced(x, client, log)
  <2>1. CASE ReadSnapshot(k)
    <3> DEFINE now == Revision
               y == [loads[k] EXCEPT !.stage = "snapshot", !.hydrated = now]
    <3>1. loads' = [loads EXCEPT ![k] = y]
      BY <1>1, <2>1 DEF ReadSnapshot
    <3> HIDE DEF now
    <3>2. y.stage = "snapshot"
      BY <1>1 DEF Load
    <3>3. LoadPlaced(y, client, log)
      <4> HIDE DEF y
      <4> QED
        BY <1>4, <3>2 DEF LoadPlaced
    <3> HIDE DEF y
    <3> QED
      BY <1>1, <3>1, <3>3
  <2>2. CASE ReadHistory(k)
    <3> DEFINE now == Revision
               y == [loads[k] EXCEPT !.stage = "history", !.history = now]
    <3>1. loads' = [loads EXCEPT ![k] = y] /\ loads[k].stage = "results"
      BY <1>1, <2>2 DEF ReadHistory
    <3>2. client.base <= now /\ loads[k].hydrated <= now
      BY <1>1 DEF GoodLoad
    <3> HIDE DEF now
    <3>3. y.history = now /\ y.hydrated = loads[k].hydrated /\ y.stage = "history"
      BY <1>1 DEF Load
    <3>4. LoadPlaced(y, client, log)
      <4> HIDE DEF y
      <4> QED
        BY <1>3, <1>4, <3>1, <3>2, <3>3 DEF LoadPlaced
    <3> HIDE DEF y
    <3> QED
      BY <1>1, <3>1, <3>4
  <2>3. CASE ReceiveHistory(k)
    <3> DEFINE stage == IF loads[k].history > loads[k].hydrated THEN "newer" ELSE "finishing"
               y == [loads[k] EXCEPT !.stage = stage]
    <3>1. loads' = [loads EXCEPT ![k] = y] /\ loads[k].stage = "history"
          /\ loads[k].history >= client.remote
      BY <1>1, <2>3 DEF ReceiveHistory
    <3>2. /\ stage \in {"newer", "finishing"}
          /\ stage = "finishing" => ~(loads[k].history > loads[k].hydrated)
      OBVIOUS
    <3> HIDE DEF stage
    <3>3. y.history = loads[k].history /\ y.hydrated = loads[k].hydrated /\ y.stage = stage
      BY <1>1 DEF Load
    <3> HIDE DEF y
    <3>4. /\ loads[k].history \in Nat /\ loads[k].hydrated \in Nat /\ client.remote \in Nat
          /\ client.base \in Nat
      BY <1>1 DEF Load, Client
    <3>5. /\ loads[k].hydrated <= loads[k].history /\ client.base <= loads[k].history
          /\ client.remote <= loads[k].history
          /\ HasRevision(client.model, log, loads[k].hydrated)
          /\ loads[k].hydrated <= client.remote
      BY <1>3, <3>1, <3>4 DEF LoadPlaced
    <3>6. stage = "finishing" =>
            loads[k].history = loads[k].hydrated /\ client.remote = loads[k].history
      BY <3>2, <3>4, <3>5
    <3>7. LoadPlaced(y, client, log)
      BY <1>4, <3>2, <3>3, <3>5, <3>6 DEF LoadPlaced
    <3> QED
      BY <1>1, <3>1, <3>7
  <2> QED
    BY <2>1, <2>2, <2>3
<1> HIDE DEF x
<1>6. client' = client
  BY <1>2
<1>7. ~client'.ready /\ LoadPlaced(x, client', log)
  BY <1>4, <1>5, <1>6
<1> QED
  BY <1>2, <1>5, <1>7, OneLoadPlace

LEMMA FinishLoadKeepsPlace ==
  ASSUME IInv, Placed, NEW k \in Connections, FinishLoad(k)
  PROVE  Placed'
<1> DEFINE history == loads[k].history
           loaded == LoadHistory(client, history)
           replay == Replay(loaded)
           replayed == ReceiveDeferred(replay)
           c == [replayed EXCEPT !.ready = TRUE]
<1>1. /\ \/ client' = replayed /\ replayed.failed
         \/ ~replayed.failed /\ FlushAll(c)
      /\ loads[k].stage = "finishing"
      /\ loads' = [loads EXCEPT ![k] = NotLoading]
      /\ UNCHANGED <<log, issued>>
  BY DEF FinishLoad
<1>2. history \in 0 .. Revision /\ TypeOK /\ client \in Client
      /\ loads \in [Connections -> Load] /\ Distinct(issued) /\ DOMAIN issued \subseteq Nat
  <2>1. TypeOK /\ Distinct(issued)
    BY DEF IInv
  <2>2. /\ client \in Client /\ loads \in [Connections -> Load]
        /\ loads[k] \in Load /\ issued \in Seq([id : OwnOperations, seen : SUBSET Operations])
    BY <2>1 DEF TypeOK
  <2>3. history <= Revision
    BY PartsAreGood DEF GoodLoad
  <2>4. history \in Nat /\ Revision \in Nat
    BY <2>1, <2>2, LogAsPrefix DEF Load
  <2>5. DOMAIN issued \subseteq Nat
    BY <2>2, LenProperties
  <2> QED
    BY <2>1, <2>2, <2>3, <2>4, <2>5
<1>3. LoadPlaced(loads[k], client, log) /\ Sound(client, log, issued)
  BY DEF Placed, IInv
<1>4. /\ ~client.ready /\ client.base <= history /\ client.remote = history
      /\ HasRevision(client.model, log, history)
  BY <1>1, <1>3 DEF LoadPlaced
<1> HIDE DEF history
<1>5. Sound(loaded, log, issued)
  BY <1>2, <1>3, LoadHistorySound
<1>6. InPlace(replay, log, issued) /\ replay.ready = client.ready
  <2>1. loaded = LoadHistory(client, history) /\ replay = Replay(loaded)
    OBVIOUS
  <2> HIDE DEF loaded, replay
  <2> QED
    BY <1>2, <1>3, <1>4, <2>1, LogOrderHolds, LoadedInPlace
<1> HIDE DEF loaded
<1>7. Sound(replay, log, issued)
  BY <1>5, ReplaySound
<1> HIDE DEF replay
<1>8. Sound(replayed, log, issued)
  BY <1>2, <1>7, ReceiveDeferredSound
<1>9. ~replay.ready
  BY <1>4, <1>6, Zenon
<1>10. ~replayed.ready /\ (replayed.failed \/ InPlace(replayed, log, issued))
  <2>1. replayed = ReceiveDeferred(replay)
    OBVIOUS
  <2> HIDE DEF replayed, c
  <2> QED
    BY <1>2, <1>6, <1>7, <1>9, <2>1, LogOrderHolds, ReceiveDeferredInPlace
<1> HIDE DEF replayed
<1>11. replayed \in Client
  BY <1>8 DEF Sound
<1>12. /\ c \in Client /\ c.base = replayed.base /\ c.remote = replayed.remote
       /\ c.queue = replayed.queue /\ c.model = replayed.model
  BY <1>11 DEF Client
<1> HIDE DEF c
<1>13. \A j \in Connections : loads'[j].stage = "idle"
  BY <1>1, <1>2 DEF Placed, OneLoad, NotLoading
<1>14. OneLoad(loads') /\ \A j \in Connections : LoadPlaced(loads'[j], client', log)
  BY <1>13, IdlePlaced DEF OneLoad
<1>15. client'.ready => InPlace(client', log, issued)
  <2>1. CASE client' = replayed
    BY <1>10, <2>1
  <2>2. CASE ~replayed.failed /\ FlushAll(c)
    <3>1. InPlace(c, log, issued)
      BY <1>10, <1>12, <2>2, SamePlace
    <3>2. /\ client'.base = c.base /\ client'.remote = c.remote /\ client'.model = c.model
          /\ IdsOf(client'.queue) = IdsOf(c.queue)
      BY <1>12, <2>2, FlushAllKeeps
    <3> QED
      BY <3>1, <3>2, SamePlace
  <2> QED
    BY <1>1, <2>1, <2>2
<1> QED
  BY <1>1, <1>14, <1>15, QuietPlace

\* What the page has does not change when something is committed.
LEMMA CommittingKeepsPlace ==
  ASSUME IInv, Placed, NEW id \in Operations, log' = Append(log, id),
         UNCHANGED <<client, issued, loads>>
  PROVE  Placed'
<1> DEFINE L == Append(log, id)
           s == issued
           c == client
<1>1. /\ log \in Seq(Operations) /\ c \in Client /\ c.remote \in Nat /\ c.remote <= Len(log)
      /\ Len(log) \in Nat
  BY LenProperties DEF IInv, TypeOK, Sound, Client
<1>2. \A i \in 1 .. Len(log) : L[i] = log[i]
  BY <1>1, AppendProperties
<1>3. \A r \in Nat : r <= Len(log) => Prefix(L, r) = Prefix(log, r)
  BY <1>1, PrefixOfAppend
<1> HIDE DEF L
<1>4. ASSUME InPlace(c, log, s) PROVE InPlace(c, L, s)
  <2>1. Prefix(L, c.remote) = Prefix(log, c.remote)
    BY <1>1, <1>3
  <2>2. \A i \in 1 .. c.remote : L[i] = log[i]
    BY <1>1, <1>2
  <2>3. \A x, y : Precedes(x, y, c, log, s) => Precedes(x, y, c, L, s)
    BY <2>1, <2>2 DEF Precedes
  <2> QED
    BY <1>4, <2>1, <2>3 DEF InPlace
<1>5. ASSUME NEW r \in Nat, r <= Len(log), HasRevision(c.model, log, r)
      PROVE  HasRevision(c.model, L, r)
  <2>1. \A i \in 1 .. r : L[i] = log[i]
    BY <1>1, <1>2, <1>5
  <2> QED
    BY <1>5, <2>1 DEF HasRevision
<1>6. ASSUME NEW k \in Connections PROVE LoadPlaced(loads[k], c, L)
  <2>1. /\ LoadPlaced(loads[k], c, log)
        /\ loads[k].hydrated \in Nat /\ loads[k].hydrated <= Len(log)
        /\ loads[k].history \in Nat /\ loads[k].history <= Len(log)
    BY PartsAreGood, LogAsPrefix DEF GoodLoad, Load, IInv, Placed
  <2> QED
    BY <1>5, <2>1 DEF LoadPlaced
<1> QED
  BY <1>4, <1>6 DEF Placed, L

LEMMA ServerHandlesKeepsPlace ==
  ASSUME IInv, Placed, ServerHandles
  PROVE  Placed'
<1>1. /\ request \in Request /\ request.stage = "posting"
      /\ UNCHANGED <<client, loads, issued>>
  BY DEF ServerHandles, IInv, TypeOK, NoRequest
<1>2. CASE ~Accepts(request.id, request.base)
  <2>1. log' = log
    BY <1>1, <1>2 DEF ServerHandles
  <2> QED
    BY <1>1, <2>1 DEF Placed
<1>3. CASE Accepts(request.id, request.base)
  <2>1. log' = Append(log, request.id)
    BY <1>1, <1>3 DEF ServerHandles, AppendToLog
  <2>2. request.id \in Operations
    BY <1>1 DEF Request, Operations
  <2> QED
    BY <1>1, <2>1, <2>2, CommittingKeepsPlace
<1> QED
  BY <1>2, <1>3

LEMMA ServerHandlesLateKeepsPlace ==
  ASSUME IInv, Placed, ServerHandlesLate
  PROVE  Placed'
<1>1. PICK r \in late : AppendToLog(r.id) /\ UNCHANGED <<client, loads, issued>>
  BY DEF ServerHandlesLate
<1>2. r.id \in Operations
  BY DEF IInv, TypeOK, Operations
<1> QED
  BY <1>1, <1>2, CommittingKeepsPlace DEF AppendToLog

LEMMA OtherCommitsKeepsPlace ==
  ASSUME IInv, Placed, NEW id \in OtherOperations, OtherCommits(id)
  PROVE  Placed'
<1>1. log' = Append(log, id) /\ UNCHANGED <<client, loads, issued>>
  BY DEF OtherCommits, AppendToLog
<1>2. id \in Operations
  BY DEF Operations
<1> QED
  BY <1>1, <1>2, CommittingKeepsPlace

\* A local operation goes to the end of the document, of the queue and of what was
\* issued.
LEMMA EditKeepsPlace ==
  ASSUME IInv, Placed, NEW id \in OwnOperations, Edit(id)
  PROVE  Placed'
<1> DEFINE e == [id |-> id, seen |-> ToSet(client.model)]
           s == Append(issued, e)
           entry == [id |-> id, base |-> client.base, status |-> "pending"]
           q == Append(client.queue, entry)
           model == Append(client.model, id)
           own == client.own \cup {id}
           n == Len(client.model)
           c == [client EXCEPT !.model = model, !.queue = q, !.own = own]
<1>1. /\ log' = log /\ loads' = loads /\ issued' = s
      /\ client.ready
      /\ id \notin {issued[i].id : i \in DOMAIN issued}
      /\ FlushAll(c)
  BY DEF Edit
<1>2. /\ client \in Client /\ Sound(client, log, issued) /\ log \in Seq(Operations)
      /\ issued \in Seq(Issue) /\ id \in Operations
      /\ client.queue \in Seq(Entry) /\ client.model \in Seq(Operations) /\ client.base \in Nat
      /\ InPlace(client, log, issued) /\ client.remote \in Nat
      /\ client.remote <= Len(log) /\ DOMAIN log = 1 .. Len(log) /\ Len(log) \in Nat
  BY <1>1, LenProperties DEF IInv, TypeOK, Issue, Operations, Client, Sound, Placed
<1>3. /\ ToSet(client.model) \subseteq Operations
      /\ ToSet(model) = ToSet(client.model) \cup {id}
  BY <1>2, InSeq
<1>4. e \in Issue /\ e.id = id
  BY <1>3 DEF Issue
<1>5. entry \in Entry /\ entry.id = id
  BY <1>2 DEF Entry
<1> HIDE DEF e, entry
<1>6. /\ DOMAIN s = 1 .. Len(issued) + 1
      /\ \A i \in 1 .. Len(issued) : s[i] = issued[i]
      /\ s[Len(issued) + 1] = e
      /\ DOMAIN issued = 1 .. Len(issued) /\ Len(issued) \in Nat
  BY <1>2, <1>4, AppendProperties, LenProperties
<1>7. /\ q \in Seq(Entry) /\ DOMAIN q = 1 .. Len(client.queue) + 1
      /\ \A i \in 1 .. Len(client.queue) : q[i] = client.queue[i]
      /\ q[Len(client.queue) + 1] = entry
      /\ DOMAIN client.queue = 1 .. Len(client.queue) /\ Len(client.queue) \in Nat
  BY <1>2, <1>5, AppendProperties, LenProperties
<1>8. /\ model \in Seq(Operations) /\ own \in SUBSET OwnOperations
      /\ DOMAIN model = 1 .. n + 1 /\ n \in Nat /\ DOMAIN client.model = 1 .. n
      /\ \A i \in 1 .. n : model[i] = client.model[i]
      /\ model[n + 1] = id
  <2>1. model \in Seq(Operations) /\ Len(model) = n + 1 /\ n \in Nat
    BY <1>2, AppendProperties, LenProperties
  <2> QED
    BY <1>2, <2>1, AppendProperties, LenProperties DEF Client
<1> HIDE DEF s, q, model, own, n
<1>9. /\ c \in Client /\ c.base = client.base /\ c.remote = client.remote
      /\ c.queue = q /\ c.model = model /\ c.ready = client.ready
      /\ c.syncing = client.syncing
  BY <1>2, <1>7, <1>8 DEF Client
<1> HIDE DEF c
<1>10. \A i \in DOMAIN issued : issued[i].id # id
  BY <1>1
<1>11. IdsOf(q) = IdsOf(client.queue) \cup {id}
  BY <1>5, <1>7 DEF IdsOf
<1>12. \A x \in IdsOf(client.queue) : \E i \in DOMAIN issued : issued[i].id = x
  <2>1. \A m \in DOMAIN client.queue : \E i \in DOMAIN issued : issued[i].id = client.queue[m].id
    BY <1>2 DEF Sound, InIssueOrder
  <2> QED
    BY <2>1 DEF IdsOf
<1>13. id \notin IdsOf(client.queue) /\ id \notin Prefix(log, client.remote)
  <2>1. id \notin Prefix(log, client.remote)
    <3> SUFFICES ASSUME NEW r \in 1 .. client.remote, log[r] = id PROVE FALSE
      BY DEF Prefix
    <3>1. r \in DOMAIN log
      BY <1>2
    <3>2. \E i \in DOMAIN issued : issued[i].id = log[r]
      BY <3>1 DEF IInv, OwnWereIssued
    <3> QED
      BY <1>10, <3>2
  <2> QED
    BY <1>10, <1>12, <2>1
<1>14. \A i \in 1 .. n : client.model[i] # id
                         /\ client.model[i] \in Prefix(log, client.remote) \cup IdsOf(client.queue)
  <2>1. \A i \in 1 .. n : client.model[i] \in ToSet(client.model)
    BY <1>8 DEF ToSet
  <2> QED
    BY <1>2, <1>13, <2>1 DEF InPlace
<1>15. ASSUME NEW x, NEW y, Precedes(x, y, client, log, issued) PROVE Precedes(x, y, c, log, s)
  <2>1. \A i \in DOMAIN issued : i \in DOMAIN s /\ s[i] = issued[i]
    BY <1>6
  <2> QED
    BY <1>9, <1>11, <1>15, <2>1 DEF Precedes
<1>16. ASSUME NEW i \in 1 .. n PROVE Precedes(client.model[i], id, c, log, s)
  <2>1. CASE client.model[i] \in Prefix(log, client.remote)
    BY <1>9, <1>11, <2>1 DEF Precedes
  <2>2. CASE client.model[i] \in IdsOf(client.queue)
    <3>1. PICK a \in DOMAIN issued : issued[a].id = client.model[i]
      BY <1>12, <2>2
    <3>2. /\ a \in DOMAIN s /\ Len(issued) + 1 \in DOMAIN s /\ a < Len(issued) + 1
          /\ s[a].id = client.model[i] /\ s[Len(issued) + 1].id = id
      BY <1>4, <1>6, <3>1
    <3> QED
      BY <1>9, <1>11, <2>2, <3>2 DEF Precedes
  <2> QED
    BY <1>14, <2>1, <2>2
<1>17. \A i, j \in 1 .. n + 1 : model[i] = model[j] => i = j
  <2> SUFFICES ASSUME NEW i \in 1 .. n + 1, NEW j \in 1 .. n + 1, model[i] = model[j]
               PROVE  i = j
    OBVIOUS
  <2>1. CASE i \in 1 .. n /\ j \in 1 .. n
    BY <1>2, <1>8, <2>1 DEF InPlace
  <2>2. CASE ~(i \in 1 .. n /\ j \in 1 .. n)
    BY <1>8, <1>14, <2>2
  <2> QED
    BY <2>1, <2>2
<1>18. ASSUME NEW i \in 1 .. n + 1, NEW j \in 1 .. n + 1, i < j, Overlap(model[i], model[j])
       PROVE  Precedes(model[i], model[j], c, log, s)
  <2>1. i \in 1 .. n /\ model[i] = client.model[i]
    BY <1>8, <1>18
  <2>2. CASE j \in 1 .. n
    <3>1. Precedes(client.model[i], client.model[j], client, log, issued)
      BY <1>2, <1>8, <1>18, <2>1, <2>2 DEF InPlace
    <3> QED
      BY <1>8, <1>15, <2>1, <2>2, <3>1
  <2>3. CASE j = n + 1
    BY <1>8, <1>16, <2>1, <2>3
  <2> QED
    BY <1>8, <2>2, <2>3
<1>19. InPlace(c, log, s)
  <2>1. /\ IdsOf(c.queue) \cap Prefix(log, c.remote) = {}
        /\ ToSet(c.model) = Prefix(log, c.remote) \cup IdsOf(c.queue)
        /\ c.remote = c.base
    BY <1>2, <1>3, <1>9, <1>11, <1>13 DEF InPlace
  <2> QED
    BY <1>8, <1>9, <1>17, <1>18, <2>1 DEF InPlace
<1>20. /\ client'.base = c.base /\ client'.remote = c.remote /\ client'.model = c.model
       /\ IdsOf(client'.queue) = IdsOf(c.queue)
  BY <1>1, <1>9, FlushAllKeeps
<1>21. InPlace(client', log, s)
  BY <1>19, <1>20, SamePlace
<1>22. OneLoad(loads) /\ \A k \in Connections : LoadPlaced(loads[k], client', log)
  BY <1>1, ReadyPlaced, IdlePlaced DEF Placed
<1> QED
  BY <1>1, <1>21, <1>22 DEF Placed

LEMMA InitImpliesPlace ==
  ASSUME Init
  PROVE  Placed
<1> USE DEF Init
<1>1. OneLoad(loads) /\ ~client.ready
  BY DEF OneLoad, NotLoading
<1>2. \A k \in Connections : LoadPlaced(loads[k], client, log)
  BY IdlePlaced DEF NotLoading
<1> QED
  BY <1>1, <1>2 DEF Placed

LEMMA NextKeepsPlace ==
  ASSUME IInv, PlaceInv, [Next]_vars
  PROVE  PlaceInv'
<1> SUFFICES ASSUME Undisturbed' PROVE Placed'
  BY DEF PlaceInv
<1>0. Placed
  BY RacesRemain DEF PlaceInv, Undisturbed
<1>1. CASE UNCHANGED vars
  BY <1>0, <1>1 DEF vars, Placed
<1>2. ASSUME NEW id \in OwnOperations, Edit(id) PROVE Placed'
  BY <1>0, <1>2, EditKeepsPlace
<1>3. ASSUME NEW id \in OtherOperations, OtherCommits(id) PROVE Placed'
  BY <1>0, <1>3, OtherCommitsKeepsPlace
<1>4. ASSUME NEW r \in unsent, Broadcast(r) PROVE Placed'
  BY <1>0, <1>4, BroadcastKeepsPlace
<1>5. CASE FlushPending \/ SendNext
  BY <1>0, <1>5, FlushPendingKeepsPlace
<1>6. CASE ServerHandles
  BY <1>0, <1>6, ServerHandlesKeepsPlace
<1>7. CASE Acknowledged
  BY <1>0, <1>7, AcknowledgedKeepsPlace
<1>8. CASE SendFails
  BY <1>0, <1>8, SendFailsKeepsPlace
<1>9. CASE ServerHandlesLate
  BY <1>0, <1>9, ServerHandlesLateKeepsPlace
<1>10. CASE Disconnect
  BY <1>0, <1>10, DisconnectKeepsPlace
<1>11. CASE Open
  BY <1>0, <1>11, OpenKeepsPlace
<1>12. ASSUME NEW k \in Connections,
              \/ ReadSnapshot(k) \/ HydrateSnapshot(k) \/ CheckResult(k) \/ ReadHistory(k)
              \/ ReceiveHistory(k) \/ HydrateNewer(k) \/ FinishLoad(k) \/ LoadFails(k)
       PROVE  Placed'
  BY <1>0, <1>12, ReadingKeepsPlace, HydratingKeepsPlace, CheckResultKeepsPlace,
     FinishLoadKeepsPlace, LoadFailsKeepsPlace
<1> QED
  BY <1>1, <1>2, <1>3, <1>4, <1>5, <1>6, <1>7, <1>8, <1>9, <1>10, <1>11, <1>12 DEF Next

\* While the page may be edited, every cell of its document has gone through the
\* operations of the revision it is at and then through its own pending ones, each
\* once and in that order, unless an acknowledgement skipped revisions or was
\* missed by a load, or two loads ran into each other.  It does not say that this
\* revision is the last one of the log.
THEOREM PageIsInStep == Spec => []InStepUnlessRaced
<1>1. Init => PlaceInv
  BY InitImpliesPlace DEF PlaceInv
<1>2. IInv /\ PlaceInv /\ [Next]_vars => PlaceInv'
  BY NextKeepsPlace
<1>3. IInv /\ PlaceInv => InStepUnlessRaced
  BY InPlaceIsInStep DEF PlaceInv, Undisturbed, Placed, InStepUnlessRaced
<1> QED
  BY <1>1, <1>2, <1>3, InvariantHolds, PTL DEF Spec
=============================================================================
