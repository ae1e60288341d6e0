------------------------ MODULE RecoveryJournal_proofs ------------------------
(***************************************************************************)
(* Proofs about RecoveryJournal, for any number of pages, restarts, drafts *)
(* and faults.  IInv holds the state together; the other invariants are    *)
(* proved on top of it, one after the other: what a page holds is written  *)
(* before it is sent (Journalled), what was written is written again until *)
(* a checkpoint covers it (Chained), a document holds each operation once  *)
(* (ReplayedOnce), and no two pages hold the same one (Apart).             *)
(***************************************************************************)
EXTENDS RecoveryJournal, Queues_proofs

\* What the variables hold, for the operations D drafted until now.
Memory(D) ==
  [queue : Seq([op : D, base : Nat, fixed : BOOLEAN]), sequence : Nat,
   confirmed : SUBSET [op : D, base : Nat, revision : Nat], revision : Nat,
   hydrated : Nat, applied : SUBSET D, checked : Nat, inFlight : D \cup {None},
   sentBase : Nat, answer : Nat, broken : BOOLEAN, restarted : BOOLEAN]

Written(D) == [op : D, base : Nat]

Saver == [requested : Nat, covered : Nat, timer : BOOLEAN, target : Nat, result : Nat,
          failed : BOOLEAN]

Typed(D) ==
  /\ drafts \in 0 .. MaxDrafts
  /\ D \subseteq [session : Pages, sequence : 1 .. drafts, id : 1 .. drafts]
  /\ log \in Seq(D) /\ saved \in 0 .. Len(log)
  /\ network \subseteq D /\ sent \subseteq D /\ durable \subseteq D /\ dropped \subseteq D
  /\ record \in [Pages -> SUBSET Written(D)]
  /\ tail \in [Pages -> Seq(SUBSET Written(D))]
  /\ phase \in [Pages -> {"new", "checking", "ready", "stopped", "closing", "closed", "crashed"}]
  /\ page \in [Pages -> Memory(D)]
  /\ saver \in [Pages -> Saver]

CommittedOnce == \A i, j \in DOMAIN log : log[i] = log[j] => i = j

\* A client sequence names one operation, unless its page was started again.
Numbered(D) ==
  /\ \A a, b \in D : a.session = b.session /\ a.sequence = b.sequence =>
                       a = b \/ page[a.session].restarted
  /\ \A o \in D : \/ page[o.session].restarted \/ phase[o.session] \in {"closed", "crashed"}
                  \/ o.sequence <= page[o.session].sequence
  /\ \A p \in Pages : page[p].sequence <= drafts

\* A memory and a checkpoint coordinator, by themselves and against the log.
GoodMemory(m, l) ==
  /\ m.hydrated <= m.revision /\ m.revision <= Len(l)
  /\ IsFiniteSet(m.confirmed)
  /\ \A c \in m.confirmed : c.revision \in 1 .. Len(l) /\ l[c.revision] = c.op
  /\ m.answer > 0 => m.inFlight # None /\ m.answer \in 1 .. Len(l) /\ l[m.answer] = m.inFlight

GoodSaver(s, newest) ==
  /\ s.covered <= newest /\ s.result <= newest /\ s.target <= s.requested
  /\ s.result > 0 => s.target > 0
  /\ s.timer => Due(s) /\ ~s.failed /\ s.target = 0

\* What is at rest in which phase.
GoodPhase(p) ==
  /\ phase[p] = "new" => page[p] = Empty
  /\ ~Owned(p) => tail[p] = <<>>
  /\ page[p].broken => tail[p] = <<>>
  /\ phase[p] \in {"new", "closing", "closed", "crashed"} => saver[p] = Idle
  /\ page[p].inFlight # None => phase[p] \in {"ready", "stopped"}
  /\ phase[p] = "ready" /\ page[p].inFlight # None =>
       page[p].inFlight \in Ops(ToSet(page[p].queue))
  /\ phase[p] = "checking" =>
       /\ page[p].checked <= Len(page[p].queue)
       /\ \A i, j \in DOMAIN page[p].queue : page[p].queue[i].op = page[p].queue[j].op => i = j

FiniteRecords(p) == IsFiniteSet(record[p]) /\ \A i \in DOMAIN tail[p] : IsFiniteSet(tail[p][i])

GoodPage(p) ==
  GoodMemory(page[p], log) /\ GoodSaver(saver[p], saved) /\ GoodPhase(p) /\ FiniteRecords(p)

Base(D) == Typed(D) /\ CommittedOnce /\ Numbered(D) /\ \A p \in Pages : GoodPage(p)

IInv == \E D \in SUBSET Op : Base(D)

\* What is queued is in the journal, or will be before the page sends it.
Journalled(p) ==
  /\ Ops(record[p]) \subseteq durable
  /\ page[p].broken \/ \A op \in Ops(ToSet(page[p].queue)) :
       op \in durable \/ \E i \in DOMAIN tail[p] : op \in Ops(tail[p][i])

\* Given up, or covered by a checkpoint.
Done(op) == op \in dropped \/ \E k \in 1 .. saved : log[k] = op

\* What a page keeps, and the pages that still write it.
Held(m) == Ops(ToSet(m.queue)) \cup Ops(m.confirmed)

Busy(p) ==
  \/ phase[p] \in {"checking", "ready"} \/ page[p].inFlight # None
  \/ saver[p].timer \/ saver[p].target > 0

\* Each write of a page holds what the ones before it held, and so does its memory.
Chained(p) ==
  /\ \A op \in Ops(record[p]) : Done(op) \/
       /\ \A i \in DOMAIN tail[p] : op \in Ops(tail[p][i])
       /\ Busy(p) /\ ~page[p].broken => op \in Held(page[p])
  /\ \A i \in DOMAIN tail[p] : \A op \in Ops(tail[p][i]) : Done(op) \/
       /\ \A j \in DOMAIN tail[p] : i < j => op \in Ops(tail[p][j])
       /\ op \in Held(page[p])
  /\ page[p].answer > 0 /\ page[p].inFlight \in Ops(ToSet(page[p].queue)) =>
       Done(page[p].inFlight) \/ page[p].inFlight \in Ops(page[p].confirmed)

-----------------------------------------------------------------------------
(* The functions of a page's memory. *)

LEMMA QueueOps ==
  ASSUME NEW q
  PROVE  Ops(ToSet(q)) = {q[i].op : i \in DOMAIN q}
  BY DEF Ops, ToSet

LEMMA AcknowledgedProperties ==
  ASSUME NEW D, NEW m \in Memory(D), NEW ops, NEW r \in Nat
  PROVE  LET a == Acknowledged(m, ops, r)
         IN  /\ a \in Memory(D)
             /\ a.revision \in {r, m.revision} /\ a.revision >= r /\ a.revision >= m.revision
             /\ Ops(ToSet(a.queue)) = Ops(ToSet(m.queue)) \ ops
             /\ a.sequence = m.sequence /\ a.confirmed = m.confirmed
             /\ a.hydrated = m.hydrated /\ a.applied = m.applied /\ a.checked = m.checked
             /\ a.inFlight = m.inFlight /\ a.answer = m.answer /\ a.broken = m.broken
             /\ a.restarted = m.restarted /\ a.sentBase = m.sentBase
<1> DEFINE E == [op : D, base : Nat, fixed : BOOLEAN]
           K == {i \in DOMAIN m.queue : m.queue[i].op \notin ops}
           rest == Kept(m.queue, K)
           latest == IF r > m.revision THEN r ELSE m.revision
           q == [i \in DOMAIN rest |-> IF rest[i].fixed THEN rest[i]
                                       ELSE [rest[i] EXCEPT !.base = latest + i - 1]]
           a == Acknowledged(m, ops, r)
<1>1. m.queue \in Seq(E) /\ m.revision \in Nat
  BY DEF Memory
<1>2. /\ latest \in Nat /\ latest \in {r, m.revision} /\ latest >= r /\ latest >= m.revision
  BY <1>1
<1>3. a = [m EXCEPT !.revision = latest, !.queue = q]
  BY DEF Acknowledged
<1> HIDE DEF a, latest
<1>4. K \in SUBSET DOMAIN m.queue
  OBVIOUS
<1>5. /\ rest \in Seq(E) /\ Len(rest) \in Nat /\ DOMAIN rest = 1 .. Len(rest)
      /\ \A i \in DOMAIN rest : rest[i] \in E
  <2> HIDE DEF K, E
  <2>1. rest \in Seq(E)
    BY <1>1, <1>4, KeptProperties
  <2> HIDE DEF rest
  <2> QED
    BY <2>1, LenProperties, ElementOfSeq
<1>6. /\ \A i \in DOMAIN rest : \E k \in K : rest[i] = m.queue[k]
      /\ \A k \in K : \E i \in DOMAIN rest : rest[i] = m.queue[k]
  BY <1>1, <1>4, KeptElements
<1> HIDE DEF rest
<1>7. ASSUME NEW i \in DOMAIN rest
      PROVE  q[i] \in E /\ q[i].op = rest[i].op
  <2>1. latest + i - 1 \in Nat
    BY <1>2, <1>5
  <2> QED
    BY <1>5, <2>1
<1>8. q \in Seq(E) /\ DOMAIN q = DOMAIN rest
  <2>1. q \in [1 .. Len(rest) -> E]
    BY <1>5, <1>7
  <2> QED
    BY <1>5, <2>1, SeqDef
<1> HIDE DEF q
<1>9. Ops(ToSet(q)) = Ops(ToSet(m.queue)) \ ops
  <2>1. Ops(ToSet(q)) = {rest[i].op : i \in DOMAIN rest}
    BY <1>7, <1>8, QueueOps
  <2>2. {rest[i].op : i \in DOMAIN rest} = {m.queue[k].op : k \in K}
    BY <1>6
  <2>3. {m.queue[k].op : k \in K} = {m.queue[k].op : k \in DOMAIN m.queue} \ ops
    OBVIOUS
  <2> QED
    BY <2>1, <2>2, <2>3, QueueOps
<1>10. /\ a \in Memory(D) /\ a.revision = latest /\ a.queue = q
       /\ a.sequence = m.sequence /\ a.confirmed = m.confirmed
       /\ a.hydrated = m.hydrated /\ a.applied = m.applied /\ a.checked = m.checked
       /\ a.inFlight = m.inFlight /\ a.answer = m.answer /\ a.broken = m.broken
       /\ a.restarted = m.restarted /\ a.sentBase = m.sentBase
  BY <1>2, <1>3, <1>8 DEF Memory
<1> QED
  BY <1>2, <1>9, <1>10 DEF a

LEMMA FirstPositions ==
  ASSUME NEW n \in Nat
  PROVE  IsFiniteSet(1 .. n) /\ Cardinality(1 .. n) = n
  BY FS_Interval

\* Where the operations of a queue differ, the acknowledgement of one takes one entry.
LEMMA AcknowledgedOne ==
  ASSUME NEW D, NEW m \in Memory(D), NEW r \in Nat, NEW n \in DOMAIN m.queue,
         \A i, j \in DOMAIN m.queue : m.queue[i].op = m.queue[j].op => i = j,
         NEW ops, ops = {m.queue[n].op}, NEW a, a = Acknowledged(m, ops, r)
  PROVE  /\ Len(a.queue) = Len(m.queue) - 1
         /\ \A i, j \in DOMAIN a.queue : a.queue[i].op = a.queue[j].op => i = j
<1> DEFINE E == [op : D, base : Nat, fixed : BOOLEAN]
           K == {i \in DOMAIN m.queue : m.queue[i].op \notin ops}
           rest == Kept(m.queue, K)
           latest == IF r > m.revision THEN r ELSE m.revision
           q == [i \in DOMAIN rest |-> IF rest[i].fixed THEN rest[i]
                                       ELSE [rest[i] EXCEPT !.base = latest + i - 1]]
<1>1. m.queue \in Seq(E) /\ DOMAIN m.queue = 1 .. Len(m.queue) /\ Len(m.queue) \in Nat
  BY LenProperties DEF Memory
<1>2. Acknowledged(m, ops, r).queue = q
  BY DEF Acknowledged, Memory
<1> HIDE DEF latest
<1>3. K \in SUBSET DOMAIN m.queue
  OBVIOUS
<1>4. /\ rest \in Seq(E) /\ Len(rest) = Cardinality(K) /\ DOMAIN rest = 1 .. Cardinality(K)
      /\ \A i \in DOMAIN rest : Nth(K, i) \in K /\ rest[i] = m.queue[Nth(K, i)]
      /\ \A i, j \in DOMAIN rest : i < j => Nth(K, i) < Nth(K, j)
  <2> HIDE DEF K, E
  <2>1. /\ rest \in Seq(E) /\ Len(rest) = Cardinality(K) /\ DOMAIN rest = 1 .. Cardinality(K)
        /\ \A i \in 1 .. Cardinality(K) : Nth(K, i) \in K /\ rest[i] = m.queue[Nth(K, i)]
        /\ \A i, j \in 1 .. Cardinality(K) : i < j => Nth(K, i) < Nth(K, j)
    BY <1>1, <1>3, KeptProperties
  <2> HIDE DEF rest
  <2> QED
    BY <2>1
<1>5. \A i \in DOMAIN rest : rest[i] \in E
  <2> HIDE DEF K, E, rest
  <2> QED
    BY <1>4, LenProperties, ElementOfSeq
<1>6. Cardinality(K) = Len(m.queue) - 1
  <2>1. K = (1 .. Len(m.queue)) \ {n}
    BY <1>1
  <2>2. IsFiniteSet(1 .. Len(m.queue)) /\ Cardinality(1 .. Len(m.queue)) = Len(m.queue)
    BY <1>1, FirstPositions
  <2>3. Cardinality((1 .. Len(m.queue)) \ {n}) = Cardinality(1 .. Len(m.queue)) - 1
    BY <1>1, <2>2, FS_RemoveElement
  <2> QED
    BY <2>1, <2>2, <2>3
<1> HIDE DEF rest
<1>7. DOMAIN q = DOMAIN rest /\ \A i \in DOMAIN rest : q[i].op = rest[i].op
  BY <1>5
<1>8. Len(q) = Len(rest)
  <2>1. Cardinality(K) \in Nat
    <3>1. 1 \in 1 .. Len(m.queue) => Len(m.queue) - 1 \in Nat
      BY <1>1
    <3> QED
      BY <1>1, <1>6
  <2> HIDE DEF K, E, q
  <2>2. DOMAIN q = 1 .. Cardinality(K) /\ DOMAIN rest = 1 .. Cardinality(K)
    BY <1>4, <1>7
  <2> QED
    BY <1>4, <2>1, <2>2
<1> HIDE DEF q
<1>9. ASSUME NEW i \in DOMAIN q, NEW j \in DOMAIN q, q[i].op = q[j].op PROVE i = j
  <2>1. /\ Nth(K, i) \in DOMAIN m.queue /\ Nth(K, j) \in DOMAIN m.queue
        /\ i \in DOMAIN rest /\ j \in DOMAIN rest
        /\ q[i].op = m.queue[Nth(K, i)].op /\ q[j].op = m.queue[Nth(K, j)].op
    <3> HIDE DEF K, E
    <3> QED
      BY <1>3, <1>4, <1>7
  <2>2. Nth(K, i) = Nth(K, j)
    BY <1>9, <2>1
  <2> HIDE DEF K, E
  <2>3. i \in Int /\ j \in Int /\ Nth(K, i) \in Int
    <3>1. DOMAIN rest = 1 .. Cardinality(K)
      BY <1>4
    <3> QED
      BY <1>1, <2>1, <3>1
  <2> QED
    BY <1>4, <2>1, <2>2, <2>3
<1> QED
  BY <1>2, <1>4, <1>6, <1>8, <1>9

LEMMA ImageIsFinite ==
  ASSUME NEW S, IsFiniteSet(S), NEW T, NEW f \in [S -> T], \A t \in T : \E x \in S : f[x] = t
  PROVE  IsFiniteSet(T)
<1>1. f \in Surjection(S, T)
  BY DEF Surjection
<1> QED
  BY <1>1, FS_Surjection

LEMMA QueueIsFinite ==
  ASSUME NEW S, NEW s \in Seq(S)
  PROVE  IsFiniteSet(DOMAIN s) /\ IsFiniteSet(ToSet(s))
<1>1. DOMAIN s = 1 .. Len(s) /\ Len(s) \in Nat
  BY LenProperties
<1>2. IsFiniteSet(DOMAIN s)
  BY <1>1, FS_Interval
<1> DEFINE f == [i \in DOMAIN s |-> s[i]]
<1>3. f \in [DOMAIN s -> ToSet(s)] /\ \A t \in ToSet(s) : \E i \in DOMAIN s : f[i] = t
  BY DEF ToSet
<1> HIDE DEF f
<1>4. IsFiniteSet(ToSet(s))
  BY <1>2, <1>3, ImageIsFinite
<1> QED
  BY <1>2, <1>4

\* The revision that RevisionOf finds.
LEMMA RevisionOfCommitted ==
  ASSUME NEW D, log \in Seq(D), NEW op, Committed(op)
  PROVE  /\ RevisionOf(op) \in 1 .. Len(log) /\ log[RevisionOf(op)] = op
         /\ RevisionOf(op) \in Nat /\ RevisionOf(op) > 0
<1>1. DOMAIN log = 1 .. Len(log) /\ Len(log) \in Nat
  BY LenProperties
<1>2. \E k \in DOMAIN log : log[k] = op
  BY DEF Committed
<1>3. RevisionOf(op) \in DOMAIN log /\ log[RevisionOf(op)] = op
  BY <1>2 DEF RevisionOf
<1> QED
  BY <1>1, <1>3

\* Landed: nothing is in flight.
LEMMA LandedProperties ==
  ASSUME NEW D, NEW m \in Memory(D), NEW l, GoodMemory(m, l)
  PROVE  LET a == Landed(m)
         IN  /\ a \in Memory(D) /\ GoodMemory(a, l)
             /\ a.inFlight = None /\ a.sentBase = 0 /\ a.answer = 0
             /\ a.sequence = m.sequence /\ a.queue = m.queue /\ a.revision = m.revision
             /\ a.confirmed = m.confirmed
             /\ a.hydrated = m.hydrated /\ a.applied = m.applied /\ a.checked = m.checked
             /\ a.broken = m.broken /\ a.restarted = m.restarted
<1> DEFINE a == Landed(m)
<1>1. /\ a \in Memory(D) /\ a.inFlight = None /\ a.sentBase = 0 /\ a.answer = 0
      /\ a.sequence = m.sequence /\ a.queue = m.queue /\ a.revision = m.revision
      /\ a.confirmed = m.confirmed
      /\ a.hydrated = m.hydrated /\ a.applied = m.applied /\ a.checked = m.checked
      /\ a.broken = m.broken /\ a.restarted = m.restarted
  BY DEF Landed, Memory
<1> HIDE DEF a
<1>2. GoodMemory(a, l)
  BY <1>1 DEF GoodMemory
<1> QED
  BY <1>1, <1>2 DEF a

LEMMA ConfirmedProperties ==
  ASSUME NEW D, log \in Seq(D), NEW m \in Memory(D), GoodMemory(m, log), NEW entries,
         IsFiniteSet(entries), \A e \in entries : e.base \in Nat /\ Committed(e.op)
  PROVE  LET a == Confirmed(m, entries)
         IN  /\ a \in Memory(D)
             /\ GoodMemory(a, log)
             /\ Ops(a.confirmed) = Ops(m.confirmed) \cup Ops(entries)
             /\ a.sequence = m.sequence /\ a.queue = m.queue /\ a.revision = m.revision
             /\ a.hydrated = m.hydrated /\ a.applied = m.applied /\ a.checked = m.checked
             /\ a.inFlight = m.inFlight /\ a.answer = m.answer /\ a.broken = m.broken
             /\ a.restarted = m.restarted /\ a.sentBase = m.sentBase
<1> DEFINE C == [op : D, base : Nat, revision : Nat]
           Noted(e) == [op |-> e.op, base |-> e.base, revision |-> RevisionOf(e.op)]
           new == {Noted(e) : e \in entries}
           both == m.confirmed \cup new
           a == Confirmed(m, entries)
<1>1. m.confirmed \in SUBSET C
  BY DEF Memory
<1>3. ASSUME NEW e \in entries
      PROVE  /\ e.op \in D /\ e.base \in Nat
             /\ RevisionOf(e.op) \in 1 .. Len(log) /\ log[RevisionOf(e.op)] = e.op
             /\ RevisionOf(e.op) \in Nat
  <2>1. Committed(e.op) /\ e.base \in Nat
    OBVIOUS
  <2>2. /\ RevisionOf(e.op) \in 1 .. Len(log) /\ log[RevisionOf(e.op)] = e.op
        /\ RevisionOf(e.op) \in Nat
    BY <2>1, RevisionOfCommitted
  <2>3. e.op \in D
    BY <2>2, ElementOfSeq
  <2> QED
    BY <2>1, <2>2, <2>3
<1>4. new \in SUBSET C
  BY <1>3
<1>5. \A c \in new : c.revision \in 1 .. Len(log) /\ log[c.revision] = c.op
  BY <1>3
<1>6. IsFiniteSet(new)
  <2> DEFINE f == [e \in entries |-> Noted(e)]
  <2>3. f \in [entries -> new] /\ \A t \in new : \E e \in entries : f[e] = t
    OBVIOUS
  <2> HIDE DEF f, new
  <2> QED
    BY <2>3, ImageIsFinite
<1>7. Ops(new) = Ops(entries)
  <2>1. ASSUME NEW e \in entries PROVE \E c \in new : c.op = e.op
    <3> DEFINE c == Noted(e)
    <3>1. c \in new /\ c.op = e.op
      OBVIOUS
    <3> HIDE DEF c, new
    <3> QED
      BY <3>1
  <2>2. \A c \in new : \E e \in entries : c.op = e.op
    OBVIOUS
  <2> HIDE DEF new
  <2> QED
    BY <2>1, <2>2 DEF Ops
<1>8. a = [m EXCEPT !.confirmed = both]
  BY DEF Confirmed
<1> HIDE DEF new, Noted
<1>9. both \in SUBSET C
  BY <1>1, <1>4
<1>10. Ops(both) = Ops(m.confirmed) \cup Ops(new)
  BY DEF Ops
<1>11. IsFiniteSet(both)
  BY <1>6, FS_Union DEF GoodMemory
<1>12. \A c \in both : c.revision \in 1 .. Len(log) /\ log[c.revision] = c.op
  BY <1>5 DEF GoodMemory
<1> HIDE DEF both, a
<1>13. /\ a \in Memory(D) /\ a.confirmed = both
       /\ a.sequence = m.sequence /\ a.queue = m.queue /\ a.revision = m.revision
       /\ a.hydrated = m.hydrated /\ a.applied = m.applied /\ a.checked = m.checked
       /\ a.inFlight = m.inFlight /\ a.answer = m.answer /\ a.broken = m.broken
       /\ a.restarted = m.restarted /\ a.sentBase = m.sentBase
  BY <1>8, <1>9 DEF Memory
<1>14. GoodMemory(a, log)
  BY <1>11, <1>12, <1>13 DEF GoodMemory
<1> QED
  BY <1>7, <1>10, <1>13, <1>14 DEF a

\* What a queue holds that is committed by now.
LEMMA KnownProperties ==
  ASSUME NEW D, NEW m \in Memory(D)
  PROVE  LET known == {e \in ToSet(m.queue) : Committed(e.op)}
         IN  /\ IsFiniteSet(known) /\ \A e \in known : e.base \in Nat /\ Committed(e.op)
             /\ Ops(known) = {op \in Ops(ToSet(m.queue)) : Committed(op)}
<1> DEFINE E == [op : D, base : Nat, fixed : BOOLEAN]
           known == {e \in ToSet(m.queue) : Committed(e.op)}
<1>1. m.queue \in Seq(E)
  BY DEF Memory
<1>2. IsFiniteSet(known)
  <2>1. IsFiniteSet(ToSet(m.queue))
    BY <1>1, QueueIsFinite
  <2>2. known \in SUBSET ToSet(m.queue)
    OBVIOUS
  <2> HIDE DEF known
  <2> QED
    BY <2>1, <2>2, FS_Subset
<1>3. \A e \in known : e.base \in Nat /\ Committed(e.op)
  <2>1. \A i \in 1 .. Len(m.queue) : m.queue[i] \in E
    BY <1>1, ElementOfSeq
  <2>2. \A e \in ToSet(m.queue) : e \in E
    BY <1>1, <2>1, LenProperties DEF ToSet
  <2> QED
    BY <2>2
<1>4. Ops(known) = {op \in Ops(ToSet(m.queue)) : Committed(op)}
  BY DEF Ops
<1> QED
  BY <1>2, <1>3, <1>4

\* What is written is what is held.
LEMMA CapturedProperties ==
  ASSUME NEW D, NEW m \in Memory(D), IsFiniteSet(m.confirmed)
  PROVE  /\ Captured(m) \in SUBSET Written(D) /\ IsFiniteSet(Captured(m))
         /\ Ops(Captured(m)) = Held(m)
<1> DEFINE E == [op : D, base : Nat, fixed : BOOLEAN]
           C == [op : D, base : Nat, revision : Nat]
           pending == {Entry(m.queue[i]) : i \in DOMAIN m.queue}
           rest == {d \in m.confirmed : d.op \notin Ops(pending)}
           kept == {Entry(c) : c \in rest}
<1>1. /\ m.queue \in Seq(E) /\ m.confirmed \in SUBSET C
      /\ \A i \in DOMAIN m.queue : m.queue[i] \in E
  <2>1. m.queue \in Seq(E) /\ m.confirmed \in SUBSET C
    BY DEF Memory
  <2> HIDE DEF E
  <2> QED
    BY <2>1, LenProperties, ElementOfSeq
<1>2. Captured(m) = pending \cup kept
  BY DEF Captured
<1>3. pending \in SUBSET Written(D) /\ kept \in SUBSET Written(D)
  <2>1. \A i \in DOMAIN m.queue : Entry(m.queue[i]) \in Written(D)
    BY <1>1 DEF Entry, Written
  <2>2. \A c \in m.confirmed : Entry(c) \in Written(D)
    BY <1>1 DEF Entry, Written
  <2> QED
    BY <2>1, <2>2
<1>4. IsFiniteSet(pending)
  <2> DEFINE f == [i \in DOMAIN m.queue |-> Entry(m.queue[i])]
  <2>1. f \in [DOMAIN m.queue -> pending] /\ \A t \in pending : \E i \in DOMAIN m.queue : f[i] = t
    OBVIOUS
  <2>2. IsFiniteSet(DOMAIN m.queue)
    BY <1>1, QueueIsFinite
  <2> HIDE DEF f, pending
  <2> QED
    BY <2>1, <2>2, ImageIsFinite
<1>5. IsFiniteSet(kept)
  <2> DEFINE f == [c \in rest |-> Entry(c)]
  <2>1. f \in [rest -> kept] /\ \A t \in kept : \E c \in rest : f[c] = t
    OBVIOUS
  <2>2. IsFiniteSet(rest)
    <3>1. rest \in SUBSET m.confirmed
      OBVIOUS
    <3> HIDE DEF rest
    <3> QED
      BY <3>1, FS_Subset
  <2> HIDE DEF f, kept, rest
  <2> QED
    BY <2>1, <2>2, ImageIsFinite
<1>6. Ops(pending) = Ops(ToSet(m.queue))
  <2>1. \A i \in DOMAIN m.queue : Entry(m.queue[i]).op = m.queue[i].op
    BY DEF Entry
  <2>2. Ops(pending) = {m.queue[i].op : i \in DOMAIN m.queue}
    BY <2>1 DEF Ops
  <2> QED
    BY <2>2, QueueOps
<1>7. Ops(kept) = Ops(m.confirmed) \ Ops(pending)
  <2>1. \A c \in rest : Entry(c).op = c.op
    BY DEF Entry
  <2>2. Ops(kept) = {c.op : c \in rest}
    BY <2>1 DEF Ops
  <2>3. {c.op : c \in rest} = {c.op : c \in m.confirmed} \ Ops(pending)
    OBVIOUS
  <2> QED
    BY <2>2, <2>3 DEF Ops
<1> HIDE DEF pending, kept
<1>8. Ops(pending \cup kept) = Ops(pending) \cup Ops(kept)
  BY DEF Ops
<1>9. IsFiniteSet(pending \cup kept)
  BY ONLY <1>4, <1>5, FS_Union
<1>10. Ops(pending \cup kept) = Held(m)
  <2>1. Ops(pending) \cup Ops(kept) = Ops(pending) \cup Ops(m.confirmed)
    BY ONLY <1>7
  <2> QED
    BY ONLY <1>6, <1>8, <2>1 DEF Held
<1>11. pending \cup kept \in SUBSET Written(D)
  BY ONLY <1>3
<1> QED
  BY ONLY <1>2, <1>9, <1>10, <1>11

\* The write that persist queues.
LEMMA PersistedTail ==
  ASSUME NEW D, tail \in [Pages -> Seq(SUBSET Written(D))], NEW p \in Pages,
         NEW m \in Memory(D), IsFiniteSet(m.confirmed), Persisted(p, m), ~m.broken
  PROVE  /\ tail' = [tail EXCEPT ![p] = tail'[p]] /\ tail'[p] \in Seq(SUBSET Written(D))
         /\ DOMAIN tail[p] = 1 .. Len(tail[p]) /\ Len(tail[p]) \in Nat
         /\ DOMAIN tail'[p] = 1 .. Len(tail[p]) + 1
         /\ \A i \in 1 .. Len(tail[p]) : tail'[p][i] = tail[p][i]
         /\ Ops(tail'[p][Len(tail[p]) + 1]) = Held(m)
         /\ tail'[p][Len(tail[p]) + 1] = Captured(m)
         /\ IsFiniteSet(tail'[p][Len(tail[p]) + 1])
<1> DEFINE t == Append(tail[p], Captured(m))
<1>1. /\ Captured(m) \in SUBSET Written(D) /\ IsFiniteSet(Captured(m))
      /\ Ops(Captured(m)) = Held(m)
  BY CapturedProperties
<1>2. /\ t \in Seq(SUBSET Written(D))
      /\ DOMAIN tail[p] = 1 .. Len(tail[p]) /\ Len(tail[p]) \in Nat
      /\ DOMAIN t = 1 .. Len(tail[p]) + 1
      /\ \A i \in 1 .. Len(tail[p]) : t[i] = tail[p][i]
      /\ t[Len(tail[p]) + 1] = Captured(m)
  BY <1>1, AppendProperties, LenProperties
<1>3. tail' = [tail EXCEPT ![p] = t]
  BY DEF Persisted
<1> HIDE DEF t
<1>4. tail'[p] = t /\ tail' = [tail EXCEPT ![p] = tail'[p]]
  BY <1>3
<1> QED
  BY <1>1, <1>2, <1>4

LEMMA PersistedProperties ==
  ASSUME NEW D, page \in [Pages -> Memory(D)], tail \in [Pages -> Seq(SUBSET Written(D))],
         NEW p \in Pages, NEW m \in Memory(D), IsFiniteSet(m.confirmed),
         FiniteRecords(p), Persisted(p, m)
  PROVE  /\ page' \in [Pages -> Memory(D)] /\ page'[p] = m
         /\ tail' \in [Pages -> Seq(SUBSET Written(D))]
         /\ \A q \in Pages : q # p => page'[q] = page[q] /\ tail'[q] = tail[q]
         /\ record' = record /\ durable' = durable
         /\ FiniteRecords(p)'
         /\ m.broken => tail'[p] = tail[p]
<1>1. page' = [page EXCEPT ![p] = m] /\ record' = record /\ durable' = durable
  BY DEF Persisted
<1>2. /\ page' \in [Pages -> Memory(D)] /\ page'[p] = m
      /\ \A q \in Pages : q # p => page'[q] = page[q]
  BY <1>1
<1>3. CASE m.broken
  <2>1. tail' = tail
    BY <1>3 DEF Persisted
  <2>2. FiniteRecords(p)'
    BY <1>1, <2>1 DEF FiniteRecords
  <2> QED
    BY <1>1, <1>2, <2>1, <2>2
<1>4. CASE ~m.broken
  <2>1. /\ tail' = [tail EXCEPT ![p] = tail'[p]] /\ tail'[p] \in Seq(SUBSET Written(D))
        /\ DOMAIN tail[p] = 1 .. Len(tail[p]) /\ Len(tail[p]) \in Nat
        /\ DOMAIN tail'[p] = 1 .. Len(tail[p]) + 1
        /\ \A i \in 1 .. Len(tail[p]) : tail'[p][i] = tail[p][i]
        /\ IsFiniteSet(tail'[p][Len(tail[p]) + 1])
    BY <1>4, PersistedTail
  <2>2. ASSUME NEW i \in DOMAIN tail'[p] PROVE IsFiniteSet(tail'[p][i])
    <3>1. CASE i = Len(tail[p]) + 1
      BY <2>1, <3>1
    <3>2. CASE i \in 1 .. Len(tail[p])
      BY <2>1, <3>2 DEF FiniteRecords
    <3> QED
      BY <2>1, <3>1, <3>2
  <2>3. FiniteRecords(p)'
    BY <1>1, <2>2 DEF FiniteRecords
  <2>4. /\ tail' \in [Pages -> Seq(SUBSET Written(D))]
        /\ \A q \in Pages : q # p => tail'[q] = tail[q]
    BY <2>1
  <2> QED
    BY <1>1, <1>2, <1>4, <2>3, <2>4
<1> QED
  BY <1>3, <1>4

-----------------------------------------------------------------------------
(* A step of one page. *)

Phases == {"new", "checking", "ready", "stopped", "closing", "closed", "crashed"}

LEMMA PageStep ==
  ASSUME NEW D, Base(D), NEW p \in Pages,
         drafts' = drafts, log' = log, saved' \in saved .. Len(log),
         network' \subseteq D, sent' \subseteq D, durable' \subseteq D, dropped' \subseteq D,
         record' \in [Pages -> SUBSET Written(D)], \A q \in Pages : IsFiniteSet(record'[q]),
         tail' \in [Pages -> Seq(SUBSET Written(D))],
         phase' \in [Pages -> Phases],
         page' \in [Pages -> Memory(D)],
         saver' \in [Pages -> Saver],
         \A q \in Pages : q # p => /\ page'[q] = page[q] /\ tail'[q] = tail[q]
                                   /\ phase'[q] = phase[q] /\ saver'[q] = saver[q],
         page[p].restarted => page'[p].restarted, page'[p].sequence <= drafts,
         \/ page'[p].restarted \/ phase'[p] \in {"closed", "crashed"}
         \/ page'[p].sequence >= page[p].sequence /\ phase[p] \notin {"closed", "crashed"},
         GoodMemory(page'[p], log), GoodSaver(saver'[p], saved'), GoodPhase(p)',
         \A i \in DOMAIN tail'[p] : IsFiniteSet(tail'[p][i])
  PROVE  Base(D)'
<1>1. Typed(D)'
  BY DEF Base, Typed, Phases
<1>2. CommittedOnce'
  BY DEF Base, CommittedOnce
<1>3. Numbered(D)'
  <2>1. D \subseteq [session : Pages, sequence : 1 .. drafts, id : 1 .. drafts] /\ Numbered(D)
    BY DEF Base, Typed
  <2>2. ASSUME NEW o \in D
        PROVE  \/ page'[o.session].restarted \/ phase'[o.session] \in {"closed", "crashed"}
               \/ o.sequence <= page'[o.session].sequence
    <3>1. o.session \in Pages /\ o.sequence \in Nat
      BY <2>1 DEF Base, Typed
    <3>2. CASE o.session # p
      BY <2>1, <3>1, <3>2 DEF Numbered
    <3>3. CASE o.session = p
      <4>1. page[p].sequence \in Nat /\ page'[p].sequence \in Nat
        BY DEF Base, Typed, Memory
      <4>2. \/ page[p].restarted \/ phase[p] \in {"closed", "crashed"}
            \/ o.sequence <= page[p].sequence
        BY <2>1, <3>3 DEF Numbered
      <4>3. \/ page'[p].restarted \/ phase'[p] \in {"closed", "crashed"}
            \/ o.sequence <= page'[p].sequence
        BY <3>1, <4>1, <4>2
      <4> QED
        BY <3>3, <4>3
    <3> QED
      BY <3>2, <3>3
  <2>3. \A a \in D : a.session \in Pages /\ (page[a.session].restarted => page'[a.session].restarted)
    BY <2>1
  <2>4. \A q \in Pages : page'[q].sequence <= drafts'
    BY <2>1 DEF Numbered
  <2> QED
    BY <2>1, <2>2, <2>3, <2>4 DEF Numbered
<1>4. ASSUME NEW q \in Pages PROVE GoodPage(q)'
  <2>1. CASE q = p
    BY <2>1 DEF GoodPage, FiniteRecords
  <2>2. CASE q # p
    <3>1. GoodMemory(page[q], log) /\ GoodSaver(saver[q], saved) /\ GoodPhase(q) /\ FiniteRecords(q)
      BY DEF Base, GoodPage
    <3>2. GoodSaver(saver'[q], saved')
      <4>1. saver[q] \in Saver /\ saved \in Nat /\ Len(log) \in Nat
        BY LenProperties DEF Base, Typed
      <4> QED
        BY <2>2, <3>1, <4>1 DEF GoodSaver, Saver
    <3>3. GoodPhase(q)'
      BY <2>2, <3>1 DEF GoodPhase, Owned
    <3> QED
      BY <2>2, <3>1, <3>2, <3>3 DEF GoodPage, FiniteRecords
  <2> QED
    BY <2>1, <2>2
<1> QED
  BY <1>1, <1>2, <1>3, <1>4 DEF Base
LEMMA BaseFacts ==
  ASSUME NEW D, Base(D)
  PROVE  /\ Typed(D)
         /\ log \in Seq(D) /\ Len(log) \in Nat /\ DOMAIN log = 1 .. Len(log)
         /\ saved \in Nat /\ saved \in 0 .. Len(log)
         /\ network \subseteq D /\ sent \subseteq D /\ durable \subseteq D /\ dropped \subseteq D
         /\ record \in [Pages -> SUBSET Written(D)]
         /\ tail \in [Pages -> Seq(SUBSET Written(D))]
         /\ phase \in [Pages -> Phases] /\ page \in [Pages -> Memory(D)]
         /\ saver \in [Pages -> Saver]
<1>1. Typed(D)
  BY DEF Base
<1>2. log \in Seq(D) /\ saved \in 0 .. Len(log)
  BY <1>1 DEF Typed
<1>3. Len(log) \in Nat /\ DOMAIN log = 1 .. Len(log)
  BY <1>2, LenProperties
<1> QED
  BY <1>1, <1>2, <1>3 DEF Typed, Phases

LEMMA PageFacts ==
  ASSUME NEW D, Base(D), NEW p \in Pages
  PROVE  /\ page[p] \in Memory(D) /\ saver[p] \in Saver /\ phase[p] \in Phases
         /\ GoodMemory(page[p], log) /\ GoodSaver(saver[p], saved) /\ GoodPhase(p)
         /\ FiniteRecords(p)
         /\ page[p].queue \in Seq([op : D, base : Nat, fixed : BOOLEAN])
         /\ Len(page[p].queue) \in Nat /\ DOMAIN page[p].queue = 1 .. Len(page[p].queue)
         /\ \A i \in 1 .. Len(page[p].queue) :
              page[p].queue[i] \in [op : D, base : Nat, fixed : BOOLEAN]
         /\ Ops(ToSet(page[p].queue)) \subseteq D
<1> DEFINE E == [op : D, base : Nat, fixed : BOOLEAN]
<1>1. /\ page[p] \in Memory(D) /\ saver[p] \in Saver /\ phase[p] \in Phases
      /\ GoodPage(p) /\ page[p].queue \in Seq(E)
  BY BaseFacts DEF Base, Memory
<1> HIDE DEF E
<1>2. /\ Len(page[p].queue) \in Nat /\ DOMAIN page[p].queue = 1 .. Len(page[p].queue)
      /\ \A i \in 1 .. Len(page[p].queue) : page[p].queue[i] \in E
  BY <1>1, LenProperties, ElementOfSeq
<1>3. Ops(ToSet(page[p].queue)) \subseteq D
  BY <1>2, QueueOps DEF E
<1> QED
  BY <1>1, <1>2, <1>3 DEF GoodPage, E

\* The checkpoint coordinator.
LEMMA RequestedProperties ==
  ASSUME NEW s \in Saver, NEW n \in Nat, GoodSaver(s, n), NEW r \in Nat
  PROVE  Requested(s, r) \in Saver /\ GoodSaver(Requested(s, r), n)
<1> DEFINE requested == IF r > s.requested THEN r ELSE s.requested
           due == s.timer \/ (~s.failed /\ s.target = 0 /\ requested > s.covered)
           t == Requested(s, r)
<1>1. requested \in Nat /\ requested >= s.requested
  BY DEF Saver
<1> HIDE DEF requested
<1>2. due \in BOOLEAN
  BY DEF Saver
<1> HIDE DEF due
<1>3. t = [s EXCEPT !.requested = requested, !.timer = due]
  BY DEF Requested, requested, due, Saver
<1> HIDE DEF t
<1>4. /\ t \in Saver /\ t.requested = requested /\ t.timer = due
      /\ t.covered = s.covered /\ t.target = s.target /\ t.result = s.result /\ t.failed = s.failed
  BY <1>1, <1>2, <1>3 DEF Saver
<1>5. due => requested > s.covered /\ ~s.failed /\ s.target = 0
  BY <1>1 DEF due, GoodSaver, Due, Saver
<1>6. GoodSaver(t, n)
  BY <1>1, <1>4, <1>5 DEF GoodSaver, Due, Saver
<1> QED
  BY <1>4, <1>6 DEF t

LEMMA FinishedProperties ==
  ASSUME NEW s \in Saver, NEW n \in Nat, GoodSaver(s, n), s.result > 0
  PROVE  Finished(s) \in Saver /\ GoodSaver(Finished(s), n)
<1> DEFINE t == [s EXCEPT !.covered = s.result, !.target = 0, !.result = 0, !.failed = FALSE]
<1>1. /\ t \in Saver /\ t.requested = s.requested /\ t.timer = s.timer
      /\ t.covered = s.result /\ t.target = 0 /\ t.result = 0 /\ t.failed = FALSE
  BY DEF Saver
<1>2. Finished(s) = Requested(t, s.requested)
  BY DEF Finished
<1> HIDE DEF t
<1>3. ~s.timer
  BY DEF GoodSaver, Saver
<1>4. GoodSaver(t, n) /\ s.requested \in Nat
  BY <1>1, <1>3 DEF GoodSaver, Saver
<1> QED
  BY <1>1, <1>2, <1>4, RequestedProperties

LEMMA IdleProperties ==
  ASSUME NEW n \in Nat
  PROVE  Idle \in Saver /\ GoodSaver(Idle, n)
  BY DEF Idle, Saver, GoodSaver

LEMMA EmptyProperties ==
  ASSUME NEW D, NEW l, Len(l) \in Nat, NEW r \in BOOLEAN
  PROVE  LET m == [Empty EXCEPT !.restarted = r]
         IN  m \in Memory(D) /\ GoodMemory(m, l) /\ m.inFlight = None /\ m.queue = <<>>
<1> DEFINE m == [Empty EXCEPT !.restarted = r]
<1>1. /\ m.queue = <<>> /\ m.sequence = 0 /\ m.confirmed = {} /\ m.revision = 0 /\ m.hydrated = 0
      /\ m.applied = {} /\ m.checked = 0 /\ m.inFlight = None /\ m.sentBase = 0
      /\ m.answer = 0
      /\ m.broken = FALSE /\ m.restarted = r
  BY DEF Empty
<1>2. m \in Memory(D)
  BY EmptySeq DEF Empty, Memory
<1> HIDE DEF m
<1>3. GoodMemory(m, l)
  BY <1>1, FS_EmptySet DEF GoodMemory
<1> QED
  BY <1>1, <1>2, <1>3 DEF m
\* A step that writes the memory of a page behind its earlier writes.
LEMMA PersistedStep ==
  ASSUME NEW D, Base(D), NEW p \in Pages, NEW m \in Memory(D), Persisted(p, m),
         drafts' = drafts, log' = log, saved' \in saved .. Len(log),
         network' = network, sent' = sent, dropped' \subseteq D,
         NEW f \in Phases, phase' = [phase EXCEPT ![p] = f],
         NEW s \in Saver, saver' = [saver EXCEPT ![p] = s],
         page[p].restarted => m.restarted,
         m.sequence = page[p].sequence, phase[p] \notin {"closed", "crashed"},
         GoodMemory(m, log), GoodSaver(s, saved'), m.broken => tail[p] = <<>>,
         f \in {"checking", "ready", "stopped", "closing"},
         f = "closing" => s = Idle,
         m.inFlight # None => f \in {"ready", "stopped"},
         f = "ready" /\ m.inFlight # None => m.inFlight \in Ops(ToSet(m.queue)),
         f = "checking" =>
           /\ m.checked <= Len(m.queue)
           /\ \A i, j \in DOMAIN m.queue : m.queue[i].op = m.queue[j].op => i = j
  PROVE  Base(D)'
<1>1. /\ Typed(D) /\ FiniteRecords(p) /\ IsFiniteSet(m.confirmed) /\ page[p] \in Memory(D)
      /\ m.sequence \in Nat
      /\ network \subseteq D /\ sent \subseteq D /\ durable \subseteq D
      /\ record \in [Pages -> SUBSET Written(D)] /\ \A q \in Pages : IsFiniteSet(record[q])
      /\ phase \in [Pages -> Phases] /\ saver \in [Pages -> Saver]
  <2>1. \A q \in Pages : IsFiniteSet(record[q])
    BY PageFacts DEF FiniteRecords
  <2> QED
    BY <2>1, BaseFacts, PageFacts DEF GoodMemory, Memory
<1>2. /\ page' \in [Pages -> Memory(D)] /\ page'[p] = m
      /\ tail' \in [Pages -> Seq(SUBSET Written(D))]
      /\ \A q \in Pages : q # p => page'[q] = page[q] /\ tail'[q] = tail[q]
      /\ record' = record /\ durable' = durable
      /\ FiniteRecords(p)'
      /\ m.broken => tail'[p] = tail[p]
  <2>1. /\ page \in [Pages -> Memory(D)] /\ tail \in [Pages -> Seq(SUBSET Written(D))]
        /\ FiniteRecords(p) /\ IsFiniteSet(m.confirmed)
    BY <1>1, BaseFacts
  <2> QED
    BY <2>1, PersistedProperties
<1>3. /\ phase' \in [Pages -> Phases] /\ phase'[p] = f
      /\ saver' \in [Pages -> Saver] /\ saver'[p] = s
      /\ \A q \in Pages : q # p => phase'[q] = phase[q] /\ saver'[q] = saver[q]
  BY <1>1
<1>4. GoodPhase(p)'
  BY <1>2, <1>3 DEF GoodPhase, Owned
<1>5. \A i \in DOMAIN tail'[p] : IsFiniteSet(tail'[p][i])
  BY <1>2 DEF FiniteRecords
<1>6. m.sequence >= page[p].sequence /\ m.sequence <= drafts
  BY <1>1 DEF Base, Numbered
<1>7. /\ drafts' = drafts /\ log' = log /\ saved' \in saved .. Len(log)
      /\ network' \subseteq D /\ sent' \subseteq D /\ durable' \subseteq D /\ dropped' \subseteq D
      /\ record' \in [Pages -> SUBSET Written(D)] /\ \A q \in Pages : IsFiniteSet(record'[q])
  BY <1>1, <1>2
<1>8. /\ \A q \in Pages : q # p => /\ page'[q] = page[q] /\ tail'[q] = tail[q]
                                  /\ phase'[q] = phase[q] /\ saver'[q] = saver[q]
      /\ tail' \in [Pages -> Seq(SUBSET Written(D))] /\ phase' \in [Pages -> Phases]
      /\ page' \in [Pages -> Memory(D)] /\ saver' \in [Pages -> Saver]
  BY ONLY <1>2, <1>3
<1>9. /\ page[p].restarted => page'[p].restarted
      /\ page'[p].sequence <= drafts
      /\ page'[p].sequence >= page[p].sequence /\ phase[p] \notin {"closed", "crashed"}
      /\ GoodMemory(page'[p], log) /\ GoodSaver(saver'[p], saved')
  BY <1>2, <1>3, <1>6
<1> QED
  BY ONLY Base(D), p \in Pages, <1>4, <1>5, <1>7, <1>8, <1>9, PageStep

\* A step that changes what a page is at, and what is in flight, at most.
LEMMA QuietStep ==
  ASSUME NEW D, Base(D), NEW p \in Pages, NEW m \in Memory(D), page' = [page EXCEPT ![p] = m],
         UNCHANGED <<storage, drafts, server, dropped>>, network' \subseteq D, sent' \subseteq D,
         NEW f \in Phases, phase' = [phase EXCEPT ![p] = f],
         NEW s \in Saver, saver' = [saver EXCEPT ![p] = s],
         page[p].restarted => m.restarted, m.broken = page[p].broken,
         m.sequence = page[p].sequence,
         phase[p] \notin {"new", "closed", "crashed"}, f # "new",
         GoodMemory(m, log), GoodSaver(s, saved),
         f \in {"closed", "crashed"} => tail[p] = <<>>,
         f \in {"closing", "closed", "crashed"} => s = Idle,
         m.inFlight # None => f \in {"ready", "stopped"},
         f = "ready" /\ m.inFlight # None => m.inFlight \in Ops(ToSet(m.queue)),
         f = "checking" =>
           /\ m.checked <= Len(m.queue)
           /\ \A i, j \in DOMAIN m.queue : m.queue[i].op = m.queue[j].op => i = j
  PROVE  Base(D)'
<1>1. /\ page[p] \in Memory(D) /\ m.sequence \in Nat /\ GoodPhase(p) /\ FiniteRecords(p)
      /\ durable \subseteq D /\ dropped \subseteq D
      /\ record \in [Pages -> SUBSET Written(D)] /\ \A q \in Pages : IsFiniteSet(record[q])
      /\ tail \in [Pages -> Seq(SUBSET Written(D))] /\ page \in [Pages -> Memory(D)]
      /\ phase \in [Pages -> Phases] /\ saver \in [Pages -> Saver]
      /\ saved \in Nat /\ saved \in saved .. Len(log)
  <2>1. \A q \in Pages : IsFiniteSet(record[q])
    BY PageFacts DEF FiniteRecords
  <2>2. saved \in Nat /\ saved \in saved .. Len(log)
    <3>1. saved \in 0 .. Len(log) /\ Len(log) \in Nat
      BY BaseFacts
    <3> QED
      BY <3>1
  <2> QED
    BY <2>1, <2>2, BaseFacts, PageFacts DEF Memory, storage
<1>2. /\ page' \in [Pages -> Memory(D)] /\ page'[p] = m
      /\ phase' \in [Pages -> Phases] /\ phase'[p] = f
      /\ saver' \in [Pages -> Saver] /\ saver'[p] = s
      /\ tail' = tail /\ record' = record /\ durable' = durable /\ drafts' = drafts
      /\ log' = log /\ saved' = saved /\ dropped' = dropped
      /\ \A q \in Pages : q # p => page'[q] = page[q] /\ phase'[q] = phase[q] /\ saver'[q] = saver[q]
  BY <1>1 DEF storage, server
<1>3. GoodPhase(p)'
  BY <1>1, <1>2 DEF GoodPhase, Owned
<1>4. \A i \in DOMAIN tail'[p] : IsFiniteSet(tail'[p][i])
  BY <1>1, <1>2 DEF FiniteRecords
<1>5. m.sequence >= page[p].sequence /\ m.sequence <= drafts
  BY <1>1 DEF Base, Numbered
<1>6. \/ page'[p].restarted \/ phase'[p] \in {"closed", "crashed"}
      \/ page'[p].sequence >= page[p].sequence /\ phase[p] \notin {"closed", "crashed"}
  BY <1>2, <1>5
<1> QED
  BY <1>1, <1>2, <1>3, <1>4, <1>5, <1>6, PageStep
-----------------------------------------------------------------------------
(* The steps of a page, one by one. *)

\* A coordinator that is at work belongs to a page that is not disposed.
LEMMA AtWork ==
  ASSUME NEW D, Base(D), NEW p \in Pages,
         saver[p].timer \/ saver[p].target > 0 \/ saver[p].result > 0 \/ Active(p)
  PROVE  phase[p] \in {"checking", "ready", "stopped"}
<1>1. phase[p] \in Phases /\ GoodPhase(p)
  BY PageFacts
<1>2. CASE Active(p)
  BY <1>2 DEF Active
<1>3. CASE saver[p] # Idle
  BY <1>1, <1>3 DEF GoodPhase, Phases
<1>4. ~Idle.timer /\ ~(Idle.target > 0) /\ ~(Idle.result > 0)
  BY DEF Idle
<1> QED
  BY <1>2, <1>3, <1>4

\* A step of the coordinator of a page that is not disposed.
LEMMA SaverStep ==
  ASSUME NEW D, Base(D), NEW p \in Pages, phase[p] \in {"checking", "ready", "stopped"},
         NEW s \in Saver, saver' = [saver EXCEPT ![p] = s], GoodSaver(s, saved),
         UNCHANGED <<server, network, storage, page, drafts, sent, dropped>>,
         NEW f \in {phase[p], "stopped"}, phase' = [phase EXCEPT ![p] = f]
  PROVE  Base(D)'
<1>1. /\ page[p] \in Memory(D) /\ GoodMemory(page[p], log) /\ GoodPhase(p)
      /\ page = [page EXCEPT ![p] = page[p]] /\ network \subseteq D /\ sent \subseteq D
  BY BaseFacts, PageFacts
<1>2. /\ f \in Phases /\ f \notin {"new", "closing", "closed", "crashed"}
      /\ phase[p] \notin {"new", "closed", "crashed"}
      /\ page' = [page EXCEPT ![p] = page[p]] /\ network' \subseteq D /\ sent' \subseteq D
      /\ UNCHANGED <<storage, drafts, server, dropped>>
  BY <1>1 DEF Phases
<1>3. /\ page[p].inFlight # None => f \in {"ready", "stopped"}
      /\ f = "ready" /\ page[p].inFlight # None => page[p].inFlight \in Ops(ToSet(page[p].queue))
      /\ f = "checking" =>
           /\ page[p].checked <= Len(page[p].queue)
           /\ \A i, j \in DOMAIN page[p].queue : page[p].queue[i].op = page[p].queue[j].op => i = j
  BY <1>1 DEF GoodPhase
<1> QED
  BY <1>1, <1>2, <1>3, QuietStep

LEMMA StartFlushStep ==
  ASSUME NEW D, Base(D), NEW p \in Pages, phase[p] \in {"checking", "ready", "stopped"},
         StartFlush(p)
  PROVE  Base(D)'
<1> DEFINE target == IF Due(saver[p]) THEN saver[p].requested ELSE 0
           s == [saver[p] EXCEPT !.timer = FALSE, !.target = target]
<1>1. saver[p] \in Saver /\ GoodSaver(saver[p], saved) /\ saver \in [Pages -> Saver]
  BY BaseFacts, PageFacts
<1>2. target \in Nat /\ target <= saver[p].requested
  BY <1>1 DEF Saver
<1> HIDE DEF target
<1>3. /\ saver' = [saver EXCEPT ![p] = s] /\ saver[p].target = 0
      /\ UNCHANGED <<server, network, storage, page, drafts, sent, dropped>>
      /\ phase' = [phase EXCEPT ![p] = phase[p]]
  BY <1>1, BaseFacts DEF StartFlush, history, target
<1>4. /\ s \in Saver /\ s.timer = FALSE /\ s.target = target /\ s.requested = saver[p].requested
      /\ s.covered = saver[p].covered /\ s.result = saver[p].result
  BY <1>1, <1>2 DEF Saver
<1> HIDE DEF s
<1>5. GoodSaver(s, saved)
  BY <1>1, <1>2, <1>3, <1>4 DEF GoodSaver, Saver
<1> QED
  BY <1>3, <1>4, <1>5, SaverStep

LEMMA FailedStep ==
  ASSUME NEW D, Base(D), NEW p \in Pages, saver[p].target > 0 \/ saver[p].result > 0, Failed(p)
  PROVE  Base(D)'
<1> DEFINE s == [saver[p] EXCEPT !.target = 0, !.result = 0, !.failed = TRUE]
           f == IF Settling(p) THEN "stopped" ELSE phase[p]
<1>1. /\ saver[p] \in Saver /\ GoodSaver(saver[p], saved) /\ saver \in [Pages -> Saver]
      /\ phase[p] \in {"checking", "ready", "stopped"} /\ phase \in [Pages -> Phases]
  BY BaseFacts, PageFacts, AtWork
<1>2. /\ saver' = [saver EXCEPT ![p] = s]
      /\ UNCHANGED <<server, network, storage, page, drafts, sent, dropped>>
      /\ phase' = [phase EXCEPT ![p] = f] /\ f \in {phase[p], "stopped"}
  BY <1>1 DEF Failed, Stop
<1>3. /\ s \in Saver /\ s.timer = saver[p].timer /\ s.target = 0 /\ s.result = 0
      /\ s.requested = saver[p].requested /\ s.covered = saver[p].covered
  BY <1>1 DEF Saver
<1> HIDE DEF s, f
<1>4. ~saver[p].timer
  BY <1>1 DEF GoodSaver, Saver
<1>6. saved \in Nat
  BY BaseFacts
<1>5. GoodSaver(s, saved)
  BY <1>1, <1>3, <1>4, <1>6 DEF GoodSaver, Saver
<1> QED
  BY <1>1, <1>2, <1>3, <1>5, SaverStep

LEMMA CoveredStep ==
  ASSUME NEW D, Base(D), NEW p \in Pages, Covered(p)
  PROVE  Base(D)'
<1> DEFINE s == Finished(saver[p])
<1>1. /\ saver[p] \in Saver /\ GoodSaver(saver[p], saved) /\ saver[p].result > 0 /\ saved \in Nat
      /\ phase[p] \in {"checking", "ready", "stopped"} /\ phase \in [Pages -> Phases]
  BY BaseFacts, PageFacts, AtWork DEF Covered
<1>2. s \in Saver /\ GoodSaver(s, saved)
  BY <1>1, FinishedProperties
<1>3. /\ saver' = [saver EXCEPT ![p] = s]
      /\ UNCHANGED <<server, network, storage, page, drafts, sent, dropped>>
      /\ phase' = [phase EXCEPT ![p] = phase[p]]
  BY <1>1 DEF Covered, history
<1> HIDE DEF s
<1> QED
  BY <1>1, <1>2, <1>3, SaverStep

LEMMA ReleaseStep ==
  ASSUME NEW D, Base(D), NEW p \in Pages, Release(p)
  PROVE  Base(D)'
<1>1. /\ page[p] \in Memory(D) /\ GoodMemory(page[p], log) /\ GoodPhase(p)
      /\ saver[p] \in Saver /\ GoodSaver(saver[p], saved)
      /\ network \subseteq D /\ sent \subseteq D
      /\ page = [page EXCEPT ![p] = page[p]] /\ saver = [saver EXCEPT ![p] = saver[p]]
  BY BaseFacts, PageFacts
<1>2. /\ page' = [page EXCEPT ![p] = page[p]] /\ saver' = [saver EXCEPT ![p] = saver[p]]
      /\ phase' = [phase EXCEPT ![p] = "closed"] /\ phase[p] = "closing" /\ tail[p] = <<>>
      /\ UNCHANGED <<storage, drafts, server, dropped>> /\ network' = network /\ sent' = sent
      /\ "closed" \in Phases
  BY <1>1 DEF Release, history, Phases
<1>3. saver[p] = Idle /\ page[p].inFlight = None
  BY <1>1, <1>2 DEF GoodPhase
<1> QED
  BY <1>1, <1>2, <1>3, QuietStep

LEMMA FailsStep ==
  ASSUME NEW D, Base(D), NEW p \in Pages, Fails(p)
  PROVE  Base(D)'
<1> DEFINE m == Landed(page[p])
<1>1. /\ page[p] \in Memory(D) /\ GoodMemory(page[p], log)
      /\ saver[p] \in Saver /\ GoodSaver(saver[p], saved) /\ saver \in [Pages -> Saver]
      /\ page \in [Pages -> Memory(D)] /\ network \subseteq D /\ sent \subseteq D
  BY BaseFacts, PageFacts
<1>2. /\ page' = [page EXCEPT ![p] = m] /\ saver' = [saver EXCEPT ![p] = saver[p]]
      /\ phase' = [phase EXCEPT ![p] = "stopped"] /\ phase[p] = "ready"
      /\ UNCHANGED <<storage, drafts, server, dropped>> /\ network' = network /\ sent' = sent
      /\ "stopped" \in Phases
  BY <1>1 DEF Fails, Stop, Phases, storage
<1>3. /\ m \in Memory(D) /\ m.inFlight = None /\ m.answer = 0 /\ m.restarted = page[p].restarted
      /\ m.broken = page[p].broken /\ m.sequence = page[p].sequence /\ m.hydrated = page[p].hydrated
      /\ m.revision = page[p].revision /\ m.confirmed = page[p].confirmed
  BY <1>1, LandedProperties
<1>4. GoodMemory(m, log)
  BY <1>1, LandedProperties
<1> HIDE DEF m
<1> QED
  BY <1>1, <1>2, <1>3, <1>4, QuietStep
\* A queue of which the first entry is fixed.
LEMMA FixedFirst ==
  ASSUME NEW D, NEW q \in Seq([op : D, base : Nat, fixed : BOOLEAN]), q # <<>>
  PROVE  LET r == [q EXCEPT ![1].fixed = TRUE]
         IN  /\ r \in Seq([op : D, base : Nat, fixed : BOOLEAN])
             /\ Ops(ToSet(r)) = Ops(ToSet(q)) /\ q[1].op \in Ops(ToSet(q)) /\ q[1].op \in D
             /\ q[1].base \in Nat
<1> DEFINE E == [op : D, base : Nat, fixed : BOOLEAN]
           r == [q EXCEPT ![1].fixed = TRUE]
<1>1. /\ q \in Seq(E) /\ Len(q) \in Nat /\ DOMAIN q = 1 .. Len(q)
      /\ \A i \in DOMAIN q : q[i] \in E
  <2> HIDE DEF E
  <2> QED
    BY LenProperties, ElementOfSeq DEF E
<1>2. 1 \in DOMAIN q
  BY <1>1, EmptySeq
<1>3. r = [q EXCEPT ![1] = [q[1] EXCEPT !.fixed = TRUE]]
  OBVIOUS
<1> HIDE DEF r
<1>4. /\ DOMAIN r = DOMAIN q /\ \A i \in DOMAIN q : r[i] \in E /\ r[i].op = q[i].op
      /\ q[1].op \in D /\ q[1].base \in Nat
  BY <1>1, <1>2, <1>3
<1>5. r \in Seq(E)
  <2> HIDE DEF E
  <2>1. r \in [1 .. Len(q) -> E]
    BY <1>1, <1>3, <1>4
  <2> QED
    BY <1>1, <2>1, SeqDef
<1>6. /\ Ops(ToSet(r)) = Ops(ToSet(q)) /\ q[1].op \in Ops(ToSet(q)) /\ q[1].op \in D
  <2>1. Ops(ToSet(r)) = {r[i].op : i \in DOMAIN r} /\ Ops(ToSet(q)) = {q[i].op : i \in DOMAIN q}
    BY QueueOps
  <2> QED
    BY <1>2, <1>4, <2>1
<1> QED
  BY <1>4, <1>5, <1>6 DEF r

LEMMA SendStep ==
  ASSUME NEW D, Base(D), NEW p \in Pages, Send(p)
  PROVE  Base(D)'
<1> DEFINE op == page[p].queue[1].op
           q == [page[p].queue EXCEPT ![1].fixed = TRUE]
           b == page[p].queue[1].base
           m == [page[p] EXCEPT !.inFlight = op, !.sentBase = b, !.queue = q]
<1>1. /\ page[p] \in Memory(D) /\ GoodMemory(page[p], log)
      /\ saver[p] \in Saver /\ GoodSaver(saver[p], saved) /\ saver \in [Pages -> Saver]
      /\ page \in [Pages -> Memory(D)] /\ network \subseteq D /\ sent \subseteq D
      /\ phase \in [Pages -> Phases]
      /\ page[p].queue \in Seq([op : D, base : Nat, fixed : BOOLEAN])
  BY BaseFacts, PageFacts
<1>2. page[p].queue # <<>> /\ phase[p] = "ready" /\ page[p].inFlight = None
  BY DEF Send
<1>3. /\ q \in Seq([op : D, base : Nat, fixed : BOOLEAN])
      /\ Ops(ToSet(q)) = Ops(ToSet(page[p].queue)) /\ op \in Ops(ToSet(q)) /\ op \in D
      /\ b \in Nat
  BY <1>1, <1>2, FixedFirst
<1>4. page' = [page EXCEPT ![p] = m] /\ saver' = [saver EXCEPT ![p] = saver[p]]
  BY <1>1 DEF Send, Memory
<1>5. /\ phase' = [phase EXCEPT ![p] = "ready"] /\ "ready" \in Phases
      /\ UNCHANGED <<storage, drafts, server, dropped>>
      /\ network' \subseteq D /\ sent' \subseteq D
  BY <1>1, <1>2, <1>3 DEF Send, Phases
<1> HIDE DEF op, q, b
<1>6. /\ m \in Memory(D) /\ m.inFlight = op /\ m.queue = q /\ m.answer = page[p].answer
      /\ m.restarted = page[p].restarted
      /\ m.broken = page[p].broken /\ m.sequence = page[p].sequence /\ m.hydrated = page[p].hydrated
      /\ m.revision = page[p].revision /\ m.confirmed = page[p].confirmed
  BY <1>1, <1>3 DEF Memory
<1> HIDE DEF m
<1>7. GoodMemory(m, log)
  BY <1>1, <1>2, <1>6 DEF GoodMemory
<1> QED
  BY <1>1, <1>2, <1>3, <1>4, <1>5, <1>6, <1>7, QuietStep

LEMMA WriteStep ==
  ASSUME NEW D, Base(D), NEW p \in Pages, Write(p)
  PROVE  Base(D)'
<1> DEFINE t == tail[p]
           S == SUBSET Written(D)
<1>1. /\ record \in [Pages -> S] /\ tail \in [Pages -> Seq(S)] /\ t \in Seq(S) /\ t # <<>>
      /\ page[p] \in Memory(D) /\ GoodMemory(page[p], log) /\ GoodSaver(saver[p], saved)
      /\ GoodPhase(p) /\ \A q \in Pages : FiniteRecords(q)
      /\ network \subseteq D /\ sent \subseteq D /\ durable \subseteq D /\ dropped \subseteq D
      /\ page \in [Pages -> Memory(D)] /\ phase \in [Pages -> Phases] /\ saver \in [Pages -> Saver]
      /\ saved \in 0 .. Len(log) /\ Len(log) \in Nat
  <2>1. \A q \in Pages : FiniteRecords(q)
    BY PageFacts
  <2>2. /\ page[p] \in Memory(D) /\ GoodMemory(page[p], log) /\ GoodSaver(saver[p], saved)
        /\ GoodPhase(p)
    BY PageFacts
  <2>3. t # <<>>
    BY DEF Write
  <2>4. /\ record \in [Pages -> S] /\ tail \in [Pages -> Seq(S)]
        /\ network \subseteq D /\ sent \subseteq D /\ durable \subseteq D /\ dropped \subseteq D
        /\ page \in [Pages -> Memory(D)] /\ phase \in [Pages -> Phases] /\ saver \in [Pages -> Saver]
        /\ saved \in 0 .. Len(log) /\ Len(log) \in Nat
    BY BaseFacts
  <2>5. t \in Seq(S)
    BY <2>4
  <2> QED
    BY <2>1, <2>2, <2>3, <2>4, <2>5
<1>2. /\ Head(t) \in S /\ Tail(t) \in Seq(S)
      /\ Len(t) \in Nat /\ DOMAIN t = 1 .. Len(t) /\ Head(t) = t[1] /\ 1 \in DOMAIN t
      /\ Len(Tail(t)) = Len(t) - 1 /\ DOMAIN Tail(t) = 1 .. Len(t) - 1
      /\ \A i \in 1 .. Len(t) - 1 : Tail(t)[i] = t[i + 1]
  <2> HIDE DEF t, S
  <2>1. /\ Head(t) \in S /\ Tail(t) \in Seq(S) /\ Len(t) \in Nat /\ DOMAIN t = 1 .. Len(t)
        /\ Len(Tail(t)) = Len(t) - 1 /\ \A i \in 1 .. Len(Tail(t)) : Tail(t)[i] = t[i + 1]
    BY <1>1, HeadTailProperties, LenProperties
  <2>2. Head(t) = t[1] /\ DOMAIN Tail(t) = 1 .. Len(Tail(t))
    BY <1>1, <2>1, LenProperties
  <2>3. 1 \in DOMAIN t
    BY <1>1, <2>1, EmptySeq
  <2> QED
    BY <2>1, <2>2, <2>3
<1>3. /\ record' = [record EXCEPT ![p] = Head(t)] /\ durable' = durable \cup Ops(Head(t))
      /\ tail' = [tail EXCEPT ![p] = Tail(t)]
      /\ page' = page /\ phase' = phase /\ saver' = saver /\ drafts' = drafts /\ log' = log
      /\ saved' = saved /\ network' = network /\ sent' = sent /\ dropped' = dropped
  BY DEF Write, server, history
<1>4. durable' \subseteq D
  <2>1. Ops(Head(t)) \subseteq D
    BY <1>2 DEF Ops, Written
  <2> QED
    BY <1>1, <1>3, <2>1
<1>5. \A i \in DOMAIN t : IsFiniteSet(t[i])
  BY <1>1 DEF FiniteRecords
<1> HIDE DEF S, t
<1>6. /\ record' \in [Pages -> S] /\ record'[p] = Head(t)
      /\ tail' \in [Pages -> Seq(S)] /\ tail'[p] = Tail(t)
      /\ \A q \in Pages : q # p => record'[q] = record[q] /\ tail'[q] = tail[q]
  BY <1>1, <1>2, <1>3
<1>7. ASSUME NEW q \in Pages PROVE IsFiniteSet(record'[q])
  BY <1>1, <1>2, <1>5, <1>6 DEF FiniteRecords
<1>8. ASSUME NEW i \in DOMAIN tail'[p] PROVE IsFiniteSet(tail'[p][i])
  <2>1. i \in 1 .. Len(t) - 1 /\ i + 1 \in 1 .. Len(t) /\ tail'[p][i] = t[i + 1]
    BY <1>2, <1>6
  <2> QED
    BY <1>2, <1>5, <2>1
<1>9. GoodPhase(p)'
  <2>1. Owned(p) /\ ~page[p].broken
    BY <1>1 DEF GoodPhase, t
  <2> QED
    BY <1>1, <1>3, <2>1 DEF GoodPhase, Owned
<1>10. /\ saved' \in saved .. Len(log)
       /\ phase[p] \notin {"closed", "crashed"} /\ page'[p].sequence >= page[p].sequence
       /\ page'[p].sequence <= drafts
  <2>1. Owned(p) /\ page[p].sequence \in Nat /\ page[p].sequence <= drafts
    BY <1>1 DEF GoodPhase, t, Memory, Base, Numbered
  <2> QED
    BY <1>1, <1>3, <2>1 DEF Owned
<1>11. /\ record' \in [Pages -> SUBSET Written(D)] /\ tail' \in [Pages -> Seq(SUBSET Written(D))]
       /\ page' \in [Pages -> Memory(D)] /\ phase' \in [Pages -> Phases]
       /\ saver' \in [Pages -> Saver]
       /\ network' \subseteq D /\ sent' \subseteq D /\ durable' \subseteq D /\ dropped' \subseteq D
       /\ \A q \in Pages : q # p => /\ page'[q] = page[q] /\ tail'[q] = tail[q]
                                    /\ phase'[q] = phase[q] /\ saver'[q] = saver[q]
       /\ GoodMemory(page'[p], log) /\ GoodSaver(saver'[p], saved')
  BY <1>1, <1>3, <1>4, <1>6 DEF S
<1> QED
  BY <1>3, <1>7, <1>8, <1>9, <1>10, <1>11, PageStep
\* A step that leaves the writes of the other pages, and those of this one shorter.
LEMMA CutStep ==
  ASSUME NEW D, Base(D), NEW p \in Pages, NEW m \in Memory(D), page' = [page EXCEPT ![p] = m],
         NEW t \in {tail[p], <<>>}, tail' = [tail EXCEPT ![p] = t],
         UNCHANGED <<server, network, drafts, durable, sent>>, dropped' \subseteq D,
         record' \in [Pages -> SUBSET Written(D)], \A q \in Pages : IsFiniteSet(record'[q]),
         NEW f \in Phases, phase' = [phase EXCEPT ![p] = f],
         NEW s \in Saver, saver' = [saver EXCEPT ![p] = s],
         page[p].restarted => m.restarted,
         \/ m.restarted \/ f = "crashed"
         \/ m.sequence >= page[p].sequence /\ phase[p] \notin {"closed", "crashed"},
         m.sequence <= drafts,
         f # "new", GoodMemory(m, log), GoodSaver(s, saved),
         f \in {"closed", "crashed"} \/ m.broken => t = <<>>,
         f \in {"closing", "closed", "crashed"} => s = Idle,
         m.inFlight # None => f \in {"ready", "stopped"},
         f = "ready" /\ m.inFlight # None => m.inFlight \in Ops(ToSet(m.queue)),
         f = "checking" =>
           /\ m.checked <= Len(m.queue)
           /\ \A i, j \in DOMAIN m.queue : m.queue[i].op = m.queue[j].op => i = j
  PROVE  Base(D)'
<1>1. page[p] \in Memory(D) /\ FiniteRecords(p)
  BY PageFacts
<1>2. /\ network \subseteq D /\ sent \subseteq D /\ durable \subseteq D
      /\ tail \in [Pages -> Seq(SUBSET Written(D))] /\ page \in [Pages -> Memory(D)]
      /\ phase \in [Pages -> Phases] /\ saver \in [Pages -> Saver]
      /\ saved \in 0 .. Len(log) /\ Len(log) \in Nat
  BY BaseFacts
<1>3. t \in Seq(SUBSET Written(D)) /\ \A i \in DOMAIN t : IsFiniteSet(t[i])
  <2>1. CASE t = tail[p]
    BY <1>1, <1>2, <2>1 DEF FiniteRecords
  <2>2. CASE t = <<>>
    BY <2>2, EmptySeq
  <2> QED
    BY <2>1, <2>2
<1>4. /\ page' \in [Pages -> Memory(D)] /\ page'[p] = m
      /\ phase' \in [Pages -> Phases] /\ phase'[p] = f
      /\ saver' \in [Pages -> Saver] /\ saver'[p] = s
      /\ tail' \in [Pages -> Seq(SUBSET Written(D))] /\ tail'[p] = t
      /\ \A q \in Pages : q # p => /\ page'[q] = page[q] /\ phase'[q] = phase[q]
                                   /\ saver'[q] = saver[q] /\ tail'[q] = tail[q]
  BY <1>2, <1>3
<1>5. GoodPhase(p)'
  BY <1>4 DEF GoodPhase, Owned
<1>6. /\ drafts' = drafts /\ log' = log /\ saved' = saved /\ saved' \in saved .. Len(log)
      /\ network' \subseteq D /\ sent' \subseteq D /\ durable' \subseteq D
      /\ \A i \in DOMAIN tail'[p] : IsFiniteSet(tail'[p][i])
  BY <1>2, <1>3, <1>4 DEF server
<1>7. \/ page'[p].restarted \/ phase'[p] \in {"closed", "crashed"}
      \/ page'[p].sequence >= page[p].sequence /\ phase[p] \notin {"closed", "crashed"}
  BY <1>1, <1>4
<1>8. /\ drafts' = drafts /\ log' = log /\ saved' \in saved .. Len(log)
      /\ network' \subseteq D /\ sent' \subseteq D /\ durable' \subseteq D
      /\ dropped' \subseteq D
      /\ record' \in [Pages -> SUBSET Written(D)] /\ \A q \in Pages : IsFiniteSet(record'[q])
  BY ONLY <1>6, dropped' \subseteq D, record' \in [Pages -> SUBSET Written(D)],
          \A q \in Pages : IsFiniteSet(record'[q])
<1>9. /\ page[p].restarted => page'[p].restarted
      /\ page'[p].sequence <= drafts
      /\ GoodMemory(page'[p], log) /\ GoodSaver(saver'[p], saved')
  BY <1>4, <1>6
<1>10. /\ \A q \in Pages : q # p => /\ page'[q] = page[q] /\ tail'[q] = tail[q]
                                   /\ phase'[q] = phase[q] /\ saver'[q] = saver[q]
       /\ tail' \in [Pages -> Seq(SUBSET Written(D))] /\ phase' \in [Pages -> Phases]
       /\ page' \in [Pages -> Memory(D)] /\ saver' \in [Pages -> Saver]
  BY ONLY <1>4
<1>11. \A i \in DOMAIN tail'[p] : IsFiniteSet(tail'[p][i])
  BY ONLY <1>6
<1> QED
  BY ONLY Base(D), p \in Pages, <1>5, <1>7, <1>8, <1>9, <1>10, <1>11, PageStep

LEMMA WriteFailsStep ==
  ASSUME NEW D, Base(D), NEW p \in Pages, WriteFails(p)
  PROVE  Base(D)'
<1> DEFINE m == [page[p] EXCEPT !.broken = TRUE]
<1>1. /\ page[p] \in Memory(D) /\ GoodMemory(page[p], log) /\ GoodPhase(p)
      /\ saver[p] \in Saver /\ GoodSaver(saver[p], saved) /\ phase[p] \in Phases
  BY PageFacts
<1>2. /\ saver \in [Pages -> Saver] /\ dropped \subseteq D /\ page \in [Pages -> Memory(D)]
      /\ record \in [Pages -> SUBSET Written(D)] /\ phase \in [Pages -> Phases]
  BY BaseFacts
<1>3. \A q \in Pages : IsFiniteSet(record[q])
  BY PageFacts DEF FiniteRecords
<1>4. /\ page' = [page EXCEPT ![p] = m] /\ saver' = [saver EXCEPT ![p] = saver[p]]
      /\ phase' = [phase EXCEPT ![p] = phase[p]] /\ tail' = [tail EXCEPT ![p] = <<>>]
      /\ UNCHANGED <<server, network, drafts, durable, sent>> /\ dropped' \subseteq D
      /\ record' \in [Pages -> SUBSET Written(D)] /\ \A q \in Pages : IsFiniteSet(record'[q])
      /\ Owned(p)
  BY <1>1, <1>2, <1>3 DEF WriteFails, GoodPhase
<1>5. /\ m \in Memory(D) /\ m.inFlight = page[p].inFlight /\ m.answer = page[p].answer
      /\ m.restarted = page[p].restarted /\ m.queue = page[p].queue /\ m.checked = page[p].checked
      /\ m.sequence = page[p].sequence /\ m.hydrated = page[p].hydrated
      /\ m.revision = page[p].revision /\ m.confirmed = page[p].confirmed
  BY <1>1 DEF Memory
<1> HIDE DEF m
<1>6. GoodMemory(m, log) /\ m.sequence >= page[p].sequence /\ m.sequence <= drafts
  <2>1. page[p].sequence \in Nat /\ page[p].sequence <= drafts
    BY <1>1 DEF Memory, Base, Numbered
  <2> QED
    BY <1>1, <1>5, <2>1 DEF GoodMemory
<1>7. /\ phase[p] \notin {"new", "closed", "crashed"}
      /\ phase[p] \in {"closing", "closed", "crashed"} => saver[p] = Idle
      /\ m.inFlight # None => phase[p] \in {"ready", "stopped"}
      /\ phase[p] = "ready" /\ m.inFlight # None => m.inFlight \in Ops(ToSet(m.queue))
      /\ phase[p] = "checking" =>
           /\ m.checked <= Len(m.queue)
           /\ \A i, j \in DOMAIN m.queue : m.queue[i].op = m.queue[j].op => i = j
  BY <1>1, <1>4, <1>5 DEF GoodPhase, Owned
<1> QED
  BY <1>1, <1>4, <1>5, <1>6, <1>7, CutStep

LEMMA CrashStep ==
  ASSUME NEW D, Base(D), NEW p \in Pages, Crash(p)
  PROVE  Base(D)'
<1> DEFINE m == [Empty EXCEPT !.restarted = page[p].restarted]
           f == "crashed"
           t == <<>>
<1>1. page[p].restarted \in BOOLEAN
  BY PageFacts DEF Memory
<1>2. /\ saver \in [Pages -> Saver] /\ dropped \subseteq D /\ page \in [Pages -> Memory(D)]
      /\ record \in [Pages -> SUBSET Written(D)] /\ phase \in [Pages -> Phases]
      /\ Len(log) \in Nat /\ saved \in Nat
  BY BaseFacts
<1>3. \A q \in Pages : IsFiniteSet(record[q])
  BY PageFacts DEF FiniteRecords
<1>4. /\ page' = [page EXCEPT ![p] = m] /\ saver' = [saver EXCEPT ![p] = Idle]
      /\ phase' = [phase EXCEPT ![p] = "crashed"] /\ tail' = [tail EXCEPT ![p] = <<>>]
      /\ UNCHANGED <<server, network, drafts, durable, sent>> /\ dropped' \subseteq D
      /\ record' \in [Pages -> SUBSET Written(D)] /\ \A q \in Pages : IsFiniteSet(record'[q])
      /\ "crashed" \in Phases
  BY <1>2, <1>3 DEF Crash, Phases, history
<1>5. m \in Memory(D) /\ GoodMemory(m, log) /\ m.inFlight = None
  BY <1>1, <1>2, EmptyProperties
<1>6. m.restarted = page[p].restarted /\ m.sequence <= drafts
  <2>1. m.restarted = page[p].restarted /\ m.sequence = 0
    BY DEF Empty
  <2>2. drafts \in Nat
    BY DEF Base, Typed
  <2> QED
    BY <2>1, <2>2
<1> HIDE DEF m
<1>7. Idle \in Saver /\ GoodSaver(Idle, saved)
  BY <1>2, IdleProperties
<1>8. /\ page[p].restarted => m.restarted
      /\ m.sequence <= drafts
      /\ f \in Phases /\ phase' = [phase EXCEPT ![p] = f] /\ f = "crashed" /\ f # "new"
      /\ t \in {tail[p], <<>>} /\ tail' = [tail EXCEPT ![p] = t] /\ t = <<>>
      /\ m.inFlight # None => f \in {"ready", "stopped"}
      /\ f = "ready" /\ m.inFlight # None => m.inFlight \in Ops(ToSet(m.queue))
      /\ f = "checking" =>
           /\ m.checked <= Len(m.queue)
           /\ \A i, j \in DOMAIN m.queue : m.queue[i].op = m.queue[j].op => i = j
  BY <1>4, <1>5, <1>6
<1> HIDE DEF f, t
<1> QED
  BY <1>4, <1>5, <1>7, <1>8, CutStep

LEMMA PurgeStep ==
  ASSUME NEW D, Base(D), NEW p \in Pages, Purge(p)
  PROVE  Base(D)'
<1> DEFINE m == [page[p] EXCEPT !.queue = <<>>, !.confirmed = {}]
<1>1. /\ page[p] \in Memory(D) /\ GoodMemory(page[p], log)
      /\ saver[p] \in Saver /\ GoodSaver(saver[p], saved) /\ phase[p] = "ready"
  BY PageFacts DEF Purge
<1>2. /\ saver \in [Pages -> Saver] /\ dropped \subseteq D /\ page \in [Pages -> Memory(D)]
      /\ record \in [Pages -> SUBSET Written(D)] /\ tail \in [Pages -> Seq(SUBSET Written(D))]
  BY BaseFacts
<1>3. dropped' \subseteq D
  <2>1. \A q \in Pages : Ops(record[q]) \subseteq D
    BY <1>2 DEF Ops, Written
  <2> QED
    BY <1>2, <2>1 DEF Purge
<1>4. /\ page' = [page EXCEPT ![p] = m] /\ saver' = [saver EXCEPT ![p] = saver[p]]
      /\ phase' = [phase EXCEPT ![p] = "stopped"] /\ tail' = [tail EXCEPT ![p] = tail[p]]
      /\ UNCHANGED <<server, network, drafts, durable, sent>>
      /\ record' = [q \in Pages |-> {}] /\ tail[p] = <<>>
      /\ "stopped" \in Phases
  BY <1>1, <1>2 DEF Purge, Phases, Stop, Flushed
<1>5. record' \in [Pages -> SUBSET Written(D)] /\ \A q \in Pages : IsFiniteSet(record'[q])
  BY <1>4, FS_EmptySet
<1>6. /\ m \in Memory(D) /\ m.inFlight = page[p].inFlight /\ m.answer = page[p].answer
      /\ m.restarted = page[p].restarted /\ m.confirmed = {}
      /\ m.sequence = page[p].sequence /\ m.hydrated = page[p].hydrated
      /\ m.revision = page[p].revision
  BY <1>1, EmptySeq DEF Memory
<1> HIDE DEF m
<1>7. GoodMemory(m, log) /\ m.sequence >= page[p].sequence /\ m.sequence <= drafts
  <2>1. page[p].sequence \in Nat /\ page[p].sequence <= drafts
    BY <1>1 DEF Memory, Base, Numbered
  <2> QED
    BY <1>1, <1>6, <2>1, FS_EmptySet DEF GoodMemory
<1> QED
  BY <1>1, <1>3, <1>4, <1>5, <1>6, <1>7, CutStep
LEMMA GreatestExists ==
  ASSUME NEW T \in SUBSET Nat, T # {}, NEW n \in Nat, \A k \in T : k <= n
  PROVE  \E m \in T : \A k \in T : m >= k
<1> DEFINE U == {u \in Nat : \A k \in T : k <= u}
<1>1. U \in SUBSET Nat /\ n \in U
  OBVIOUS
<1>2. PICK u \in U : \A v \in U : u <= v
  <2> HIDE DEF U
  <2> QED
    BY <1>1, LeastExists
<1>3. u \in T
  <2>1. SUFFICES ASSUME u \notin T PROVE FALSE
    OBVIOUS
  <2>2. PICK k \in T : TRUE
    OBVIOUS
  <2>3. u \in Nat /\ \A x \in T : x \in Nat /\ x < u
    BY <1>2, <2>1
  <2>4. u - 1 \in U
    BY <2>2, <2>3
  <2> QED
    BY <1>2, <2>3, <2>4
<1> QED
  BY <1>2, <1>3

LEMMA MaxProperties ==
  ASSUME NEW T \in SUBSET Nat, T # {}, NEW n \in Nat, \A k \in T : k <= n
  PROVE  Max(T) \in T /\ Max(T) \in Nat
<1>1. \E x \in T : \A y \in T : x >= y
  BY GreatestExists
<1>2. Max(T) \in T
  BY <1>1 DEF Max
<1> QED
  BY <1>2

LEMMA LoadedProperties ==
  ASSUME NEW D, log \in Seq(D), NEW m \in Memory(D), GoodMemory(m, log)
  PROVE  LET a == Loaded(m)
         IN  /\ a \in Memory(D)
             /\ GoodMemory(a, log)
             /\ Ops(ToSet(a.queue)) = {op \in Ops(ToSet(m.queue)) : ~Committed(op)}
             /\ Ops(a.confirmed) = Ops(m.confirmed) \cup {op \in Ops(ToSet(m.queue)) : Committed(op)}
             /\ a.hydrated = Len(log) /\ a.revision = Len(log)
             /\ a.sequence = m.sequence /\ a.applied = m.applied /\ a.checked = m.checked
             /\ a.inFlight = m.inFlight /\ a.answer = m.answer /\ a.broken = m.broken
             /\ a.restarted = m.restarted
<1> DEFINE known == {e \in ToSet(m.queue) : Committed(e.op)}
           ops == Ops(known)
           n == Len(log)
           b == [m EXCEPT !.hydrated = n]
           c == Confirmed(b, known)
           a == Loaded(m)
<1>1. n \in Nat
  BY LenProperties
<1>0. /\ IsFiniteSet(known) /\ \A e \in known : e.base \in Nat /\ Committed(e.op)
      /\ ops = {op \in Ops(ToSet(m.queue)) : Committed(op)}
  BY KnownProperties
<1>3. /\ b \in Memory(D) /\ b.hydrated = n /\ b.queue = m.queue /\ b.revision = m.revision
      /\ b.sequence = m.sequence /\ b.applied = m.applied /\ b.checked = m.checked
      /\ b.inFlight = m.inFlight /\ b.answer = m.answer /\ b.broken = m.broken
      /\ b.restarted = m.restarted /\ b.confirmed = m.confirmed
  BY <1>1 DEF Memory
<1>2. a = Acknowledged(c, ops, n)
  BY DEF Loaded
<1> HIDE DEF a, n, b
<1>4. /\ m.revision \in Nat /\ m.revision <= n
      /\ \A x \in b.confirmed : x.revision \in 1 .. n /\ log[x.revision] = x.op
  BY <1>3 DEF GoodMemory, Memory, n
\* GoodMemory of b asks hydrated <= revision, which the acknowledgement restores.
<1>5. /\ c \in Memory(D) /\ IsFiniteSet(c.confirmed)
      /\ \A x \in c.confirmed : x.revision \in 1 .. n /\ log[x.revision] = x.op
      /\ Ops(c.confirmed) = Ops(m.confirmed) \cup ops
      /\ c.sequence = m.sequence /\ c.queue = m.queue /\ c.revision = m.revision
      /\ c.hydrated = n /\ c.applied = m.applied /\ c.checked = m.checked
      /\ c.inFlight = m.inFlight /\ c.answer = m.answer /\ c.broken = m.broken
      /\ c.restarted = m.restarted
  <2> DEFINE d == Confirmed(m, known)
  <2>2. /\ d \in Memory(D) /\ GoodMemory(d, log)
        /\ Ops(d.confirmed) = Ops(m.confirmed) \cup ops
        /\ d.sequence = m.sequence /\ d.queue = m.queue /\ d.revision = m.revision
        /\ d.hydrated = m.hydrated /\ d.applied = m.applied /\ d.checked = m.checked
        /\ d.inFlight = m.inFlight /\ d.answer = m.answer /\ d.broken = m.broken
        /\ d.restarted = m.restarted
    <3> HIDE DEF known
    <3> QED
      BY <1>0, ConfirmedProperties
  <2> HIDE DEF known
  <2>3. c = [d EXCEPT !.hydrated = n]
    BY <1>3 DEF Confirmed, b, Memory
  <2> HIDE DEF c, d
  <2>4. /\ c \in Memory(D) /\ c.confirmed = d.confirmed
        /\ c.sequence = d.sequence /\ c.queue = d.queue /\ c.revision = d.revision
        /\ c.hydrated = n /\ c.applied = d.applied /\ c.checked = d.checked
        /\ c.inFlight = d.inFlight /\ c.answer = d.answer /\ c.broken = d.broken
        /\ c.restarted = d.restarted
    BY <1>1, <2>2, <2>3 DEF Memory
  <2> QED
    BY <2>2, <2>4 DEF GoodMemory, n
<1> HIDE DEF c, ops, known
<1>6. /\ a \in Memory(D) /\ a.revision \in {n, m.revision} /\ a.revision >= n
      /\ Ops(ToSet(a.queue)) = Ops(ToSet(m.queue)) \ ops
      /\ a.confirmed = c.confirmed
      /\ a.sequence = m.sequence /\ a.hydrated = n /\ a.applied = m.applied
      /\ a.checked = m.checked /\ a.inFlight = m.inFlight /\ a.answer = m.answer
      /\ a.broken = m.broken /\ a.restarted = m.restarted
  BY <1>1, <1>2, <1>5, AcknowledgedProperties
<1>7. a.revision = n
  BY <1>1, <1>4, <1>6
<1>8. GoodMemory(a, log)
  <2>1. a.answer > 0 => a.inFlight # None /\ a.answer \in 1 .. Len(log) /\ log[a.answer] = a.inFlight
    BY <1>6 DEF GoodMemory
  <2> QED
    BY <1>1, <1>5, <1>6, <1>7, <2>1 DEF GoodMemory, n
<1>9. Ops(ToSet(a.queue)) = {op \in Ops(ToSet(m.queue)) : ~Committed(op)}
  BY <1>0, <1>6
<1>10. Ops(a.confirmed) = Ops(m.confirmed) \cup {op \in Ops(ToSet(m.queue)) : Committed(op)}
  BY <1>0, <1>5, <1>6
<1> QED
  BY <1>6, <1>7, <1>8, <1>9, <1>10 DEF n, a
\* The memory of a page that acknowledged its answer.
LEMMA AnsweredProperties ==
  ASSUME NEW D, NEW m \in Memory(D), NEW l, GoodMemory(m, l), m.answer > 0
  PROVE  LET a == Answered(m)
         IN  /\ a \in Memory(D) /\ GoodMemory(a, l)
             /\ a.inFlight = None /\ a.answer = 0
             /\ Ops(ToSet(a.queue)) = Ops(ToSet(m.queue)) \ {m.inFlight}
             /\ a.confirmed = m.confirmed /\ a.sequence = m.sequence
             /\ a.hydrated = m.hydrated /\ a.applied = m.applied /\ a.checked = m.checked
             /\ a.broken = m.broken /\ a.restarted = m.restarted
<1> DEFINE ops == {m.inFlight}
           r == m.answer
           b == Acknowledged(m, ops, r)
           a == Answered(m)
<1>1. /\ r \in Nat /\ m.answer \in Nat /\ m.answer <= Len(l) /\ m.hydrated \in Nat /\ m.revision \in Nat
      /\ m.hydrated <= m.revision /\ m.revision <= Len(l)
  BY DEF GoodMemory, Memory
<1>2. /\ b \in Memory(D)
      /\ b.revision \in {m.answer, m.revision} /\ b.revision >= m.revision
      /\ Ops(ToSet(b.queue)) = Ops(ToSet(m.queue)) \ {m.inFlight}
      /\ b.confirmed = m.confirmed /\ b.sequence = m.sequence
      /\ b.hydrated = m.hydrated /\ b.applied = m.applied /\ b.checked = m.checked
      /\ b.broken = m.broken /\ b.restarted = m.restarted
  <2>1. b = Acknowledged(m, ops, r)
    OBVIOUS
  <2> HIDE DEF b, ops, r
  <2>2. /\ b \in Memory(D)
        /\ b.revision \in {r, m.revision} /\ b.revision >= m.revision
        /\ Ops(ToSet(b.queue)) = Ops(ToSet(m.queue)) \ ops
        /\ b.confirmed = m.confirmed /\ b.sequence = m.sequence
        /\ b.hydrated = m.hydrated /\ b.applied = m.applied /\ b.checked = m.checked
        /\ b.broken = m.broken /\ b.restarted = m.restarted
    BY <1>1, <2>1, AcknowledgedProperties
  <2> QED
    BY <2>2 DEF ops, r
<1>3. a = Landed(b) /\ b \in Memory(D)
  BY <1>2 DEF Answered
<1> HIDE DEF a, b
<1>4. /\ a \in Memory(D) /\ a.inFlight = None /\ a.answer = 0 /\ a.queue = b.queue
      /\ a.confirmed = b.confirmed /\ a.sequence = b.sequence /\ a.revision = b.revision
      /\ a.hydrated = b.hydrated /\ a.applied = b.applied /\ a.checked = b.checked
      /\ a.broken = b.broken /\ a.restarted = b.restarted
  BY <1>3 DEF Landed, Memory
<1>5. GoodMemory(a, l)
  BY <1>1, <1>2, <1>4 DEF GoodMemory
<1> QED
  BY <1>2, <1>4, <1>5 DEF a

LEMMA CloseStep ==
  ASSUME NEW D, Base(D), NEW p \in Pages, Close(p)
  PROVE  Base(D)'
<1>1. /\ page[p] \in Memory(D) /\ GoodMemory(page[p], log) /\ GoodPhase(p)
      /\ phase[p] \in {"checking", "ready", "stopped"}
  BY PageFacts, AtWork DEF Close
<1>2. /\ network \subseteq D /\ sent \subseteq D /\ dropped \subseteq D
      /\ page \in [Pages -> Memory(D)] /\ saved \in 0 .. Len(log) /\ Len(log) \in Nat
  BY BaseFacts
<1>3. /\ phase' = [phase EXCEPT ![p] = "closing"] /\ saver' = [saver EXCEPT ![p] = Idle]
      /\ drafts' = drafts /\ log' = log /\ saved' = saved /\ network' = network /\ sent' = sent
      /\ dropped' = dropped /\ "closing" \in Phases
  BY DEF Close, server, history, Phases
<1>4. Idle \in Saver /\ GoodSaver(Idle, saved) /\ saved' \in saved .. Len(log)
  BY <1>2, <1>3, IdleProperties
<1>7. ASSUME NEW m \in Memory(D), GoodMemory(m, log), m.inFlight = None,
             m.sequence = page[p].sequence, m.restarted = page[p].restarted,
             m.broken = page[p].broken, page' = [page EXCEPT ![p] = m], UNCHANGED storage
      PROVE  Base(D)'
  <2>1. UNCHANGED <<storage, drafts, server, dropped>>
    BY <1>3, <1>7 DEF server
  <2>2. network' \subseteq D /\ sent' \subseteq D
    BY ONLY <1>2, <1>3
  <2>3. phase[p] \notin {"new", "closed", "crashed"}
    BY ONLY <1>1
  <2>4. /\ phase' = [phase EXCEPT ![p] = "closing"] /\ saver' = [saver EXCEPT ![p] = Idle]
        /\ "closing" \in Phases /\ Idle \in Saver /\ GoodSaver(Idle, saved)
    BY ONLY <1>3, <1>4
  <2> QED
    BY ONLY Base(D), p \in Pages, <1>7, <2>1, <2>2, <2>3, <2>4, QuietStep
<1>5. CASE page[p].answer > 0
  <2> DEFINE m == Answered(page[p])
  <2>1. Dequeued(p)
    BY <1>5 DEF Close
  <2>2. /\ m \in Memory(D) /\ GoodMemory(m, log) /\ m.inFlight = None
        /\ m.sequence = page[p].sequence /\ m.restarted = page[p].restarted
        /\ m.broken = page[p].broken
    BY <1>1, <1>5, AnsweredProperties
  <2> HIDE DEF m
  <2>3. m.broken => tail[p] = <<>>
    BY <1>1, <2>2 DEF GoodPhase
  <2>4. CASE Persisted(p, m)
    BY <1>1, <1>2, <1>3, <1>4, <2>4, <2>2, <2>3, PersistedStep
  <2>5. CASE page' = [page EXCEPT ![p] = m] /\ UNCHANGED storage
    BY ONLY <1>7, <2>2, <2>5
  <2> QED
    BY <1>2, <2>1, <2>4, <2>5 DEF Dequeued, m
<1>6. CASE ~(page[p].answer > 0)
  <2> DEFINE m == Landed(page[p])
  <2>1. page' = [page EXCEPT ![p] = m] /\ UNCHANGED storage
    BY <1>2, <1>6 DEF Close
  <2>2. /\ m \in Memory(D) /\ m.inFlight = None
        /\ m.restarted = page[p].restarted /\ m.confirmed = page[p].confirmed
        /\ m.sequence = page[p].sequence /\ m.hydrated = page[p].hydrated
        /\ m.revision = page[p].revision /\ m.broken = page[p].broken
    BY <1>1, LandedProperties
  <2>3. GoodMemory(m, log)
    BY <1>1, LandedProperties
  <2> HIDE DEF m
  <2> QED
    BY ONLY <1>7, <2>1, <2>2, <2>3
<1> QED
  BY <1>5, <1>6

LEMMA DiscardStep ==
  ASSUME NEW D, Base(D), NEW p \in Pages, Discard(p)
  PROVE  Base(D)'
<1> DEFINE b == Landed(page[p])
           m == [b EXCEPT !.queue = <<>>]
           f == IF page[p].broken THEN "stopped" ELSE "closing"
           s == IF page[p].broken THEN saver[p] ELSE Idle
<1>1. /\ page[p] \in Memory(D) /\ GoodMemory(page[p], log) /\ GoodPhase(p)
      /\ saver[p] \in Saver /\ GoodSaver(saver[p], saved) /\ Ops(ToSet(page[p].queue)) \subseteq D
  BY PageFacts
<1>2. /\ dropped \subseteq D /\ record \in [Pages -> SUBSET Written(D)]
      /\ saver \in [Pages -> Saver] /\ phase \in [Pages -> Phases]
      /\ saved \in 0 .. Len(log) /\ Len(log) \in Nat
  BY BaseFacts
<1>3. /\ phase' = [phase EXCEPT ![p] = f] /\ saver' = [saver EXCEPT ![p] = s]
      /\ drafts' = drafts /\ log' = log /\ saved' = saved /\ network' = network /\ sent' = sent
      /\ Persisted(p, m) /\ phase[p] = "stopped"
  BY <1>2 DEF Discard, server
<1>4. /\ f \in Phases /\ f \in {"stopped", "closing"}
      /\ f = "closing" => s = Idle
      /\ s \in Saver /\ GoodSaver(s, saved) /\ saved' \in saved .. Len(log)
  BY <1>1, <1>2, <1>3, IdleProperties DEF Phases
<1>5. dropped' \subseteq D
  <2>1. Ops(record[p]) \subseteq D
    BY <1>2 DEF Ops, Written
  <2> QED
    BY <1>1, <1>2, <2>1 DEF Discard
<1>6. /\ m \in Memory(D) /\ m.inFlight = None /\ m.answer = 0
      /\ m.restarted = page[p].restarted /\ m.confirmed = page[p].confirmed
      /\ m.sequence = page[p].sequence /\ m.hydrated = page[p].hydrated
      /\ m.revision = page[p].revision /\ m.broken = page[p].broken
  <2>1. /\ b \in Memory(D) /\ b.inFlight = None /\ b.answer = 0
        /\ b.restarted = page[p].restarted /\ b.confirmed = page[p].confirmed
        /\ b.sequence = page[p].sequence /\ b.hydrated = page[p].hydrated
        /\ b.revision = page[p].revision /\ b.broken = page[p].broken
    BY <1>1, LandedProperties
  <2> HIDE DEF b
  <2> QED
    BY <2>1, EmptySeq DEF Memory
<1> HIDE DEF m, f, s
<1>7. /\ m.broken => tail[p] = <<>>
      /\ f \in {"checking", "ready", "stopped", "closing"} /\ f # "checking"
      /\ phase[p] \notin {"closed", "crashed"}
  BY <1>1, <1>3, <1>4, <1>6 DEF GoodPhase
<1>8. GoodMemory(m, log)
  BY <1>1, <1>6 DEF GoodMemory
<1> QED
  BY <1>3, <1>4, <1>5, <1>6, <1>7, <1>8, PersistedStep

LEMMA CheckpointSavedStep ==
  ASSUME NEW D, Base(D), NEW p \in Pages, CheckpointSaved(p)
  PROVE  Base(D)'
<1> DEFINE m == [page[p] EXCEPT !.confirmed = Uncovered(page[p], Len(log))]
           s == [saver[p] EXCEPT !.result = Len(log)]
<1>1. /\ page[p] \in Memory(D) /\ GoodMemory(page[p], log) /\ GoodPhase(p)
      /\ saver[p] \in Saver /\ GoodSaver(saver[p], saved)
      /\ phase[p] \in {"checking", "ready", "stopped"} /\ saver[p].target > 0
  BY PageFacts, AtWork DEF CheckpointSaved
<1>2. /\ dropped \subseteq D /\ saver \in [Pages -> Saver] /\ phase \in [Pages -> Phases]
      /\ saved \in 0 .. Len(log) /\ Len(log) \in Nat
  BY BaseFacts
<1>3. /\ phase' = [phase EXCEPT ![p] = phase[p]] /\ saver' = [saver EXCEPT ![p] = s]
      /\ drafts' = drafts /\ log' = log /\ saved' = Len(log) /\ network' = network /\ sent' = sent
      /\ dropped' = dropped /\ Persisted(p, m)
  BY <1>2 DEF CheckpointSaved, history
<1>4. /\ s \in Saver /\ s.result = Len(log) /\ s.target = saver[p].target
      /\ s.requested = saver[p].requested /\ s.covered = saver[p].covered
      /\ s.timer = saver[p].timer /\ s.failed = saver[p].failed
  BY <1>1, <1>2 DEF Saver
<1> HIDE DEF s
<1>5. GoodSaver(s, saved') /\ saved' \in saved .. Len(log)
  BY <1>1, <1>2, <1>3, <1>4 DEF GoodSaver, Saver, Due
<1>6. /\ Uncovered(page[p], Len(log)) \in SUBSET page[p].confirmed
  BY DEF Uncovered
<1>7. /\ m \in Memory(D) /\ m.confirmed = Uncovered(page[p], Len(log))
      /\ m.inFlight = page[p].inFlight /\ m.answer = page[p].answer /\ m.queue = page[p].queue
      /\ m.restarted = page[p].restarted /\ m.checked = page[p].checked
      /\ m.sequence = page[p].sequence /\ m.hydrated = page[p].hydrated
      /\ m.revision = page[p].revision /\ m.broken = page[p].broken
  BY <1>1, <1>6 DEF Memory
<1> HIDE DEF m
<1>8. IsFiniteSet(m.confirmed)
  BY <1>1, <1>6, <1>7, FS_Subset DEF GoodMemory
<1>9. GoodMemory(m, log)
  BY <1>1, <1>6, <1>7, <1>8 DEF GoodMemory
<1>10. /\ m.broken => tail[p] = <<>>
       /\ m.inFlight # None => phase[p] \in {"ready", "stopped"}
       /\ phase[p] = "ready" /\ m.inFlight # None => m.inFlight \in Ops(ToSet(m.queue))
       /\ phase[p] = "checking" =>
           /\ m.checked <= Len(m.queue)
           /\ \A i, j \in DOMAIN m.queue : m.queue[i].op = m.queue[j].op => i = j
  BY <1>1, <1>7 DEF GoodPhase
<1>11. phase[p] \in Phases
  BY <1>2
<1> QED
  BY <1>1, <1>2, <1>3, <1>4, <1>5, <1>7, <1>9, <1>10, <1>11, PersistedStep
LEMMA AnswerStep ==
  ASSUME NEW D, Base(D), NEW p \in Pages, Answer(p)
  PROVE  Base(D)'
<1> DEFINE op == page[p].inFlight
           r == RevisionOf(op)
           e == [op |-> op, base |-> page[p].sentBase]
           known == {e}
           c == Confirmed(page[p], known)
           m == [c EXCEPT !.answer = r]
<1>1. /\ page[p] \in Memory(D) /\ GoodMemory(page[p], log) /\ GoodPhase(p)
      /\ saver[p] \in Saver /\ GoodSaver(saver[p], saved) /\ phase[p] \in Phases
  BY PageFacts
<1>2. /\ dropped \subseteq D /\ saver \in [Pages -> Saver] /\ phase \in [Pages -> Phases]
      /\ log \in Seq(D) /\ saved \in 0 .. Len(log) /\ Len(log) \in Nat
  BY BaseFacts
<1>3. op # None /\ Committed(op)
  BY DEF Answer
<1>4. r \in 1 .. Len(log) /\ log[r] = op /\ r \in Nat
  BY <1>2, <1>3, RevisionOfCommitted
<1>5. IsFiniteSet(known) /\ \A o \in known : o.base \in Nat /\ Committed(o.op)
  <2>1. page[p].sentBase \in Nat
    BY <1>1 DEF Memory
  <2>2. e.base \in Nat /\ Committed(e.op)
    BY <1>3, <2>1
  <2> HIDE DEF e
  <2>3. IsFiniteSet(known)
    BY FS_Singleton
  <2> QED
    BY <2>2, <2>3
<1>6. /\ phase' = [phase EXCEPT ![p] = phase[p]] /\ saver' = [saver EXCEPT ![p] = saver[p]]
      /\ drafts' = drafts /\ log' = log /\ saved' = saved /\ network' = network /\ sent' = sent
      /\ dropped' = dropped /\ Persisted(p, m) /\ saved' \in saved .. Len(log)
  BY <1>2 DEF Answer, history, server
<1> HIDE DEF known, r, op
<1>7. /\ c \in Memory(D) /\ GoodMemory(c, log)
      /\ c.sequence = page[p].sequence /\ c.queue = page[p].queue /\ c.checked = page[p].checked
      /\ c.inFlight = page[p].inFlight /\ c.broken = page[p].broken
      /\ c.restarted = page[p].restarted
  BY <1>1, <1>2, <1>5, ConfirmedProperties
<1> HIDE DEF c
<1>8. /\ m \in Memory(D) /\ m.answer = r /\ m.confirmed = c.confirmed /\ m.hydrated = c.hydrated
      /\ m.revision = c.revision
      /\ m.sequence = page[p].sequence /\ m.queue = page[p].queue /\ m.checked = page[p].checked
      /\ m.inFlight = page[p].inFlight /\ m.broken = page[p].broken
      /\ m.restarted = page[p].restarted
  BY <1>4, <1>7 DEF Memory
<1> HIDE DEF m
<1>9. GoodMemory(m, log)
  BY <1>3, <1>4, <1>7, <1>8 DEF GoodMemory, op
<1>10. /\ m.broken => tail[p] = <<>>
       /\ phase[p] \in {"ready", "stopped"}
       /\ phase[p] = "ready" /\ m.inFlight # None => m.inFlight \in Ops(ToSet(m.queue))
  BY <1>1, <1>3, <1>8 DEF GoodPhase, op
<1>11. /\ phase[p] \in {"checking", "ready", "stopped", "closing"}
       /\ phase[p] # "closing" /\ phase[p] # "checking" /\ phase[p] \notin {"closed", "crashed"}
  BY <1>10
<1> QED
  BY <1>1, <1>2, <1>6, <1>8, <1>9, <1>10, <1>11, PersistedStep

LEMMA AcknowledgeStep ==
  ASSUME NEW D, Base(D), NEW p \in Pages, Acknowledge(p)
  PROVE  Base(D)'
<1> DEFINE m == Answered(page[p])
           r == page[p].answer
           s == Requested(saver[p], r)
<1>1. /\ page[p] \in Memory(D) /\ GoodMemory(page[p], log) /\ GoodPhase(p)
      /\ saver[p] \in Saver /\ GoodSaver(saver[p], saved) /\ phase[p] \in Phases
      /\ r \in Nat /\ page[p].answer > 0
  <2>1. page[p].answer > 0
    BY DEF Acknowledge
  <2> QED
    BY <2>1, PageFacts DEF Memory
<1>2. /\ dropped \subseteq D /\ saver \in [Pages -> Saver] /\ phase \in [Pages -> Phases]
      /\ saved \in 0 .. Len(log) /\ Len(log) \in Nat
  BY BaseFacts
<1>3. s \in Saver /\ GoodSaver(s, saved)
  BY <1>1, <1>2, RequestedProperties
<1>4. /\ phase' = [phase EXCEPT ![p] = phase[p]] /\ saver' = [saver EXCEPT ![p] = s]
      /\ drafts' = drafts /\ log' = log /\ saved' = saved /\ network' = network /\ sent' = sent
      /\ dropped' = dropped /\ Dequeued(p) /\ saved' \in saved .. Len(log)
  BY <1>2 DEF Acknowledge, Request, history, server
<1>5. /\ m \in Memory(D) /\ GoodMemory(m, log) /\ m.inFlight = None
      /\ m.sequence = page[p].sequence /\ m.restarted = page[p].restarted
      /\ m.broken = page[p].broken
  BY <1>1, AnsweredProperties
<1>8. \/ Persisted(p, m)
      \/ page' = [page EXCEPT ![p] = m] /\ UNCHANGED <<storage, drafts, server, dropped>>
  <2>1. page[p] \in Memory(D) /\ page \in [Pages -> Memory(D)]
    BY BaseFacts, PageFacts
  <2> QED
    BY <1>4, <2>1 DEF Dequeued, server
<1> HIDE DEF m, r, s
<1>6. page[p].inFlight # None
  BY <1>1 DEF GoodMemory
<1>7. /\ m.broken => tail[p] = <<>>
      /\ phase[p] \in {"checking", "ready", "stopped", "closing"}
      /\ phase[p] # "closing" /\ phase[p] # "checking" /\ phase[p] \notin {"closed", "crashed"}
  BY <1>1, <1>5, <1>6 DEF GoodPhase
<1>9. CASE Persisted(p, m)
  BY <1>1, <1>2, <1>3, <1>4, <1>5, <1>7, <1>9, PersistedStep
<1>10. CASE page' = [page EXCEPT ![p] = m] /\ UNCHANGED <<storage, drafts, server, dropped>>
  <2>1. /\ phase[p] \notin {"new", "closed", "crashed"}
        /\ phase[p] \notin {"closed", "crashed", "closing", "new", "checking"}
    BY <1>1, <1>6 DEF GoodPhase
  <2>2. network' \subseteq D /\ sent' \subseteq D
    BY <1>4, BaseFacts
  <2> QED
    BY <1>1, <1>3, <1>4, <1>5, <1>10, <2>1, <2>2, QuietStep
<1> QED
  BY <1>8, <1>9, <1>10

LEMMA RefuseStep ==
  ASSUME NEW D, Base(D), NEW op, Refuse(op)
  PROVE  Base(D)'
<1>1. /\ network' \subseteq D
      /\ UNCHANGED <<server, storage, phase, page, saver, history>>
  BY BaseFacts DEF Refuse
<1>2. Typed(D)'
  BY <1>1 DEF Base, Typed, server, storage, history
<1>3. CommittedOnce' /\ Numbered(D)'
  BY <1>1 DEF Base, CommittedOnce, Numbered, server, storage, history
<1>4. ASSUME NEW q \in Pages PROVE GoodPage(q)'
  <2>1. GoodPage(q)
    BY DEF Base
  <2> QED
    BY <1>1, <2>1 DEF GoodPage, GoodPhase, Owned, FiniteRecords, server, storage, history
<1> QED
  BY <1>2, <1>3, <1>4 DEF Base

LEMMA HandleStep ==
  ASSUME NEW D, Base(D), NEW op, Handle(op)
  PROVE  Base(D)'
<1>1. /\ network' \subseteq D /\ op \in D
      /\ UNCHANGED <<saved, storage, phase, page, saver, history>>
  BY BaseFacts DEF Handle
<1>2. /\ log \in Seq(D) /\ Len(log) \in Nat /\ DOMAIN log = 1 .. Len(log) /\ saved \in 0 .. Len(log)
  BY BaseFacts
<1>3. /\ log' \in Seq(D) /\ Len(log') \in Nat /\ Len(log') >= Len(log)
      /\ DOMAIN log' = 1 .. Len(log')
      /\ \A k \in 1 .. Len(log) : log'[k] = log[k]
      /\ \A i, j \in DOMAIN log' : log'[i] = log'[j] => i = j
  <2>1. CASE UNCHANGED log
    BY <1>2, <2>1 DEF Base, CommittedOnce
  <2>2. CASE log' = Append(log, op) /\ ~Committed(op)
    <3>1. /\ log' \in Seq(D) /\ Len(log') = Len(log) + 1 /\ DOMAIN log' = 1 .. Len(log) + 1
          /\ \A k \in 1 .. Len(log) : log'[k] = log[k]
          /\ log'[Len(log) + 1] = op
      BY <1>1, <1>2, <2>2, AppendProperties, LenProperties
    <3>2. \A k \in 1 .. Len(log) : log[k] # op
      BY <1>2, <2>2 DEF Committed
    <3>3. \A i, j \in 1 .. Len(log) : log[i] = log[j] => i = j
      BY <1>2 DEF Base, CommittedOnce
    <3> QED
      BY <1>2, <3>1, <3>2, <3>3
  <2> QED
    BY <2>1, <2>2 DEF Handle
<1>4. Typed(D)'
  <2>1. saved' \in 0 .. Len(log')
    BY <1>1, <1>2, <1>3
  <2> QED
    BY <1>1, <1>3, <2>1 DEF Base, Typed, storage, history
<1>5. CommittedOnce'
  BY <1>3 DEF CommittedOnce
<1>6. Numbered(D)'
  BY <1>1 DEF Base, Numbered, storage, history
<1>7. ASSUME NEW q \in Pages PROVE GoodPage(q)'
  <2>1. GoodPage(q) /\ page[q] \in Memory(D)
    BY BaseFacts DEF Base
  <2>2. page'[q] = page[q] /\ saver'[q] = saver[q] /\ saved' = saved
    BY <1>1
  <2>3. GoodMemory(page[q], log')
    <3>1. GoodMemory(page[q], log) /\ page[q].revision \in Nat /\ page[q].answer \in Nat
      BY <2>1 DEF GoodPage, Memory
    <3>2. \A k \in 1 .. Len(log) : k \in 1 .. Len(log')
      BY <1>2, <1>3
    <3>3. page[q].revision <= Len(log')
      BY <1>2, <1>3, <3>1 DEF GoodMemory
    <3> QED
      BY <1>3, <3>1, <3>2, <3>3 DEF GoodMemory
  <2>4. GoodPhase(q)' /\ FiniteRecords(q)'
    BY <1>1, <2>1 DEF GoodPage, GoodPhase, Owned, FiniteRecords, storage
  <2> QED
    BY <2>1, <2>2, <2>3, <2>4 DEF GoodPage
<1> QED
  BY <1>4, <1>5, <1>6, <1>7 DEF Base
LEMMA CheckStep ==
  ASSUME NEW D, Base(D), NEW p \in Pages, Check(p)
  PROVE  Base(D)'
<1> DEFINE n == page[p].checked + 1
           x == page[p].queue[n]
           op == x.op
<1>1. /\ page[p] \in Memory(D) /\ GoodMemory(page[p], log) /\ GoodPhase(p)
      /\ saver[p] \in Saver /\ GoodSaver(saver[p], saved)
      /\ Len(page[p].queue) \in Nat /\ DOMAIN page[p].queue = 1 .. Len(page[p].queue)
  BY PageFacts
<1>2. /\ network \subseteq D /\ sent \subseteq D /\ dropped \subseteq D
      /\ saver \in [Pages -> Saver] /\ phase \in [Pages -> Phases] /\ page \in [Pages -> Memory(D)]
      /\ log \in Seq(D) /\ saved \in 0 .. Len(log) /\ Len(log) \in Nat
  BY BaseFacts
<1>3. /\ phase[p] = "checking" /\ page[p].checked < Len(page[p].queue)
      /\ UNCHANGED <<server, network, history>>
  BY DEF Check
<1>4. /\ page[p].inFlight = None /\ n \in DOMAIN page[p].queue /\ page[p].checked \in Nat
      /\ \A i, j \in DOMAIN page[p].queue : page[p].queue[i].op = page[p].queue[j].op => i = j
      /\ page[p].broken => tail[p] = <<>>
      /\ phase[p] \notin {"new", "closed", "crashed"} /\ "stopped" \in Phases
      /\ "checking" \in Phases
  <2>1. page[p].checked \in Nat
    BY <1>1 DEF Memory
  <2> QED
    BY <1>1, <1>3, <2>1 DEF GoodPhase, Phases
<1>5. /\ drafts' = drafts /\ log' = log /\ saved' = saved /\ network' = network /\ sent' = sent
      /\ dropped' = dropped /\ saved' \in saved .. Len(log)
  BY <1>2, <1>3 DEF history, server
<1>6. CASE page' = page /\ Stop(p) /\ UNCHANGED <<tail, record, durable, saver>>
  <2>1. /\ page' = [page EXCEPT ![p] = page[p]] /\ phase' = [phase EXCEPT ![p] = "stopped"]
        /\ saver' = [saver EXCEPT ![p] = saver[p]]
        /\ UNCHANGED <<storage, drafts, server, dropped>>
    BY <1>2, <1>5, <1>6 DEF Stop, storage, server
  <2> QED
    BY <1>1, <1>2, <1>4, <1>5, <2>1, QuietStep
<1>7. CASE /\ page' = [page EXCEPT ![p].checked = @ + 1] /\ UNCHANGED phase
           /\ UNCHANGED <<tail, record, durable, saver>>
  <2> DEFINE m == [page[p] EXCEPT !.checked = n]
  <2>1. /\ page' = [page EXCEPT ![p] = m] /\ phase' = [phase EXCEPT ![p] = "checking"]
        /\ saver' = [saver EXCEPT ![p] = saver[p]]
        /\ UNCHANGED <<storage, drafts, server, dropped>>
    BY <1>1, <1>2, <1>3, <1>5, <1>7 DEF storage, server, Memory
  <2>2. n \in Nat /\ n <= Len(page[p].queue)
    BY <1>1, <1>4
  <2> HIDE DEF n
  <2>3. /\ m \in Memory(D) /\ m.checked = n /\ m.confirmed = page[p].confirmed
        /\ m.hydrated = page[p].hydrated /\ m.revision = page[p].revision
        /\ m.answer = page[p].answer
        /\ m.sequence = page[p].sequence /\ m.queue = page[p].queue
        /\ m.inFlight = page[p].inFlight /\ m.broken = page[p].broken
        /\ m.restarted = page[p].restarted
    BY <1>1, <2>2 DEF Memory
  <2> HIDE DEF m
  <2>4. GoodMemory(m, log)
    BY <1>1, <2>3 DEF GoodMemory
  <2>5. /\ m.inFlight = None /\ m.checked <= Len(m.queue)
        /\ \A i, j \in DOMAIN m.queue : m.queue[i].op = m.queue[j].op => i = j
    BY <1>4, <2>2, <2>3
  <2>6. /\ Base(D) /\ p \in Pages /\ m \in Memory(D) /\ page' = [page EXCEPT ![p] = m]
        /\ UNCHANGED <<storage, drafts, server, dropped>>
        /\ "checking" \in Phases /\ phase' = [phase EXCEPT ![p] = "checking"]
        /\ saver[p] \in Saver /\ saver' = [saver EXCEPT ![p] = saver[p]]
    BY ONLY Base(D), p \in Pages, <1>1, <1>4, <2>1, <2>3
  <2>7. network' \subseteq D /\ sent' \subseteq D
    BY <1>2, <1>5
  <2>8. /\ page[p].restarted => m.restarted
        /\ m.broken = page[p].broken /\ m.sequence = page[p].sequence
        /\ phase[p] \notin {"new", "closed", "crashed"}
    BY ONLY <1>4, <2>3
  <2>9. GoodMemory(m, log) /\ GoodSaver(saver[p], saved)
    BY ONLY <1>1, <2>4
  <2> QED
    BY ONLY <2>5, <2>6, <2>7, <2>8, <2>9, QuietStep
<1>8. CASE /\ Committed(op) /\ ~page[p].broken
           /\ Persisted(p, Acknowledged(Confirmed(page[p], {x}), {op}, RevisionOf(op)))
           /\ Request(p, RevisionOf(op))
           /\ UNCHANGED phase
  <2> DEFINE r == RevisionOf(op)
             ops == {op}
             known == {x}
             c == Confirmed(page[p], known)
             m == Acknowledged(c, ops, r)
             s == Requested(saver[p], r)
  <2>1. r \in Nat /\ r <= Len(log)
    <3>1. log \in Seq(D) /\ Committed(op)
      BY ONLY <1>2, <1>8
    <3>2. r \in 1 .. Len(log) /\ r \in Nat
      BY ONLY <3>1, RevisionOfCommitted
    <3> QED
      BY ONLY <3>2
  <2>2. s \in Saver /\ GoodSaver(s, saved)
    BY <1>1, <1>2, <2>1, RequestedProperties
  <2>3. /\ phase' = [phase EXCEPT ![p] = "checking"] /\ saver' = [saver EXCEPT ![p] = s]
        /\ Persisted(p, m)
    BY <1>2, <1>3, <1>8 DEF Request
  <2>4. /\ ops = {page[p].queue[n].op}
        /\ IsFiniteSet(known) /\ \A o \in known : o.base \in Nat /\ Committed(o.op)
    <3>1. page[p].queue[n] \in [op : D, base : Nat, fixed : BOOLEAN]
      BY <1>1, <1>4, PageFacts
    <3> QED
      BY <1>8, <3>1, FS_Singleton
  <2> HIDE DEF op, r, s, n, ops, known, x
  <2>5. /\ c \in Memory(D) /\ GoodMemory(c, log)
        /\ c.sequence = page[p].sequence /\ c.queue = page[p].queue /\ c.checked = page[p].checked
        /\ c.inFlight = page[p].inFlight /\ c.broken = page[p].broken
        /\ c.restarted = page[p].restarted /\ c.revision = page[p].revision
    BY <1>1, <1>2, <2>4, ConfirmedProperties
  <2>6. m = Acknowledged(c, ops, r)
    OBVIOUS
  <2> HIDE DEF c, m
  <2>7. /\ m \in Memory(D) /\ m.revision \in {r, c.revision} /\ m.revision >= c.revision
        /\ m.sequence = page[p].sequence /\ m.confirmed = c.confirmed
        /\ m.hydrated = c.hydrated /\ m.checked = page[p].checked
        /\ m.inFlight = page[p].inFlight /\ m.answer = c.answer /\ m.broken = page[p].broken
        /\ m.restarted = page[p].restarted
    BY <2>1, <2>5, <2>6, AcknowledgedProperties
  <2>8. /\ Len(m.queue) = Len(c.queue) - 1
        /\ \A i, j \in DOMAIN m.queue : m.queue[i].op = m.queue[j].op => i = j
    <3>1. n \in DOMAIN c.queue /\ ops = {c.queue[n].op}
      BY <1>4, <2>4, <2>5
    <3>2. \A i, j \in DOMAIN c.queue : c.queue[i].op = c.queue[j].op => i = j
      BY <1>4, <2>5
    <3>3. c \in Memory(D) /\ r \in Nat /\ m = Acknowledged(c, ops, r)
      BY <2>1, <2>5, <2>6
    <3>4. Len(m.queue) = Len(c.queue) - 1
      BY <3>1, <3>2, <3>3, AcknowledgedOne
    <3>5. \A i, j \in DOMAIN m.queue : m.queue[i].op = m.queue[j].op => i = j
      BY <3>1, <3>2, <3>3, AcknowledgedOne
    <3> QED
      BY <3>4, <3>5
  <2>9. GoodMemory(m, log)
    <3>1. c.hydrated \in Nat /\ c.revision \in Nat
      BY <2>5 DEF Memory
    <3> QED
      BY <1>2, <2>1, <2>5, <2>7, <3>1 DEF GoodMemory
  <2>10. m.checked <= Len(m.queue) /\ m.inFlight = None
    BY <1>1, <1>3, <1>4, <2>5, <2>7, <2>8
  <2>11. m.broken => tail[p] = <<>>
    BY <1>4, <2>7
  <2> QED
    <3>1. /\ Base(D) /\ p \in Pages /\ m \in Memory(D) /\ Persisted(p, m)
          /\ s \in Saver /\ saver' = [saver EXCEPT ![p] = s]
      BY ONLY Base(D), p \in Pages, <2>2, <2>3, <2>7
    <3>2. /\ drafts' = drafts /\ log' = log /\ saved' \in saved .. Len(log)
          /\ network' = network /\ sent' = sent
      BY ONLY <1>5
    <3>3. dropped' \subseteq D
      BY <1>2, <1>5
    <3>4. phase' = [phase EXCEPT ![p] = "checking"] /\ "checking" \in Phases
      BY ONLY <1>4, <2>3
    <3>5. /\ page[p].restarted => m.restarted
          /\ m.sequence = page[p].sequence /\ phase[p] \notin {"closed", "crashed"}
      BY ONLY <1>4, <2>7
    <3>6. GoodMemory(m, log) /\ GoodSaver(s, saved') /\ (m.broken => tail[p] = <<>>)
      BY ONLY <1>5, <2>2, <2>9, <2>11
    <3>7. /\ m.checked <= Len(m.queue) /\ m.inFlight = None
          /\ \A i, j \in DOMAIN m.queue : m.queue[i].op = m.queue[j].op => i = j
      BY ONLY <2>8, <2>10
    <3> QED
      BY ONLY <3>1, <3>2, <3>3, <3>4, <3>5, <3>6, <3>7, PersistedStep
<1> QED
  <2>1. CASE Committed(op)
    BY <1>6, <1>8, <2>1 DEF Check
  <2>2. CASE ~Committed(op)
    BY <1>6, <1>7, <2>2 DEF Check
  <2> QED
    BY <2>1, <2>2

LEMMA FinishStep ==
  ASSUME NEW D, Base(D), NEW p \in Pages, Finish(p)
  PROVE  Base(D)'
<1> DEFINE a == Loaded(page[p])
           ops == Ops(ToSet(a.queue))
           late == {c.revision : c \in a.confirmed \ page[p].confirmed}
           m == [a EXCEPT !.applied = ops]
           f == IF \A e \in ToSet(a.queue) : e.base = a.revision THEN "ready" ELSE "stopped"
<1>1. /\ page[p] \in Memory(D) /\ GoodMemory(page[p], log) /\ GoodPhase(p)
      /\ saver[p] \in Saver /\ GoodSaver(saver[p], saved)
      /\ Ops(ToSet(page[p].queue)) \subseteq D
  BY PageFacts
<1>2. /\ network \subseteq D /\ sent \subseteq D /\ dropped \subseteq D
      /\ saver \in [Pages -> Saver] /\ phase \in [Pages -> Phases] /\ page \in [Pages -> Memory(D)]
      /\ log \in Seq(D) /\ saved \in 0 .. Len(log) /\ Len(log) \in Nat
  BY BaseFacts
<1>3. phase[p] = "checking" /\ UNCHANGED <<server, network, history>>
  BY DEF Finish, Settling
<1>4. /\ page[p].inFlight = None
      /\ page[p].broken => tail[p] = <<>>
      /\ phase[p] \notin {"new", "closed", "crashed"} /\ "stopped" \in Phases
      /\ f \in Phases /\ f \in {"ready", "stopped"}
  BY <1>1, <1>3 DEF GoodPhase, Phases
<1>5. /\ drafts' = drafts /\ log' = log /\ saved' = saved /\ network' = network /\ sent' = sent
      /\ dropped' = dropped /\ saved' \in saved .. Len(log)
  BY <1>2, <1>3 DEF history, server
<1>6. CASE page' = page /\ Stop(p) /\ UNCHANGED <<tail, record, durable, saver>>
  <2>1. /\ page' = [page EXCEPT ![p] = page[p]] /\ phase' = [phase EXCEPT ![p] = "stopped"]
        /\ saver' = [saver EXCEPT ![p] = saver[p]]
        /\ UNCHANGED <<storage, drafts, server, dropped>>
    BY <1>2, <1>5, <1>6 DEF Stop, storage, server
  <2> QED
    BY <1>1, <1>2, <1>4, <1>5, <2>1, QuietStep
<1>7. /\ a \in Memory(D) /\ GoodMemory(a, log)
      /\ ops = {op \in Ops(ToSet(page[p].queue)) : ~Committed(op)}
      /\ a.sequence = page[p].sequence /\ a.inFlight = None /\ a.broken = page[p].broken
      /\ a.restarted = page[p].restarted
  BY <1>1, <1>2, <1>4, LoadedProperties
<1>8. ops \in SUBSET D
  BY <1>1, <1>7
<1>9. phase' = [phase EXCEPT ![p] = f] => f # "new" /\ f # "checking" /\ f # "closing"
  BY <1>4
<1>10. CASE /\ late = {} /\ page' = [page EXCEPT ![p] = m]
            /\ UNCHANGED <<tail, record, durable, saver>> /\ phase' = [phase EXCEPT ![p] = f]
  <2> HIDE DEF a, ops, f, late
  <2>1. /\ m \in Memory(D) /\ m.confirmed = a.confirmed
        /\ m.hydrated = a.hydrated /\ m.revision = a.revision /\ m.answer = a.answer
        /\ m.sequence = page[p].sequence /\ m.inFlight = None /\ m.broken = page[p].broken
        /\ m.restarted = page[p].restarted
    BY <1>7, <1>8 DEF Memory
  <2>2. page' = [page EXCEPT ![p] = m]
    BY <1>10
  <2> HIDE DEF m
  <2>3. GoodMemory(m, log)
    BY <1>4, <1>7, <2>1 DEF GoodMemory
  <2>4. /\ phase' = [phase EXCEPT ![p] = f] /\ saver' = [saver EXCEPT ![p] = saver[p]]
        /\ UNCHANGED <<storage, drafts, server, dropped>>
    BY <1>2, <1>5, <1>10 DEF storage, server
  <2> QED
    BY <1>1, <1>2, <1>4, <1>5, <1>9, <2>1, <2>2, <2>3, <2>4, QuietStep
<1>11. CASE /\ late # {} /\ Persisted(p, m) /\ Request(p, Max(late))
            /\ phase' = [phase EXCEPT ![p] = f]
  <2> DEFINE r == Max(late)
             s == Requested(saver[p], r)
  <2>1. late \in SUBSET Nat /\ \A k \in late : k <= Len(log)
    <3>1. \A c \in a.confirmed : c.revision \in 1 .. Len(log)
      BY <1>7 DEF GoodMemory
    <3> HIDE DEF a
    <3> QED
      BY <1>2, <3>1
  <2> HIDE DEF late
  <2>2. r \in Nat
    BY <1>2, <1>11, <2>1, MaxProperties
  <2>3. s \in Saver /\ GoodSaver(s, saved)
    BY <1>1, <1>2, <2>2, RequestedProperties
  <2>4. saver' = [saver EXCEPT ![p] = s] /\ phase' = [phase EXCEPT ![p] = f]
    BY <1>2, <1>11 DEF Request
  <2> HIDE DEF a, ops, f, s, r
  <2>5. /\ m \in Memory(D) /\ m.confirmed = a.confirmed
        /\ m.hydrated = a.hydrated /\ m.revision = a.revision /\ m.answer = a.answer
        /\ m.sequence = page[p].sequence /\ m.inFlight = None /\ m.broken = page[p].broken
        /\ m.restarted = page[p].restarted
    BY <1>7, <1>8 DEF Memory
  <2>6. Persisted(p, m)
    BY <1>11
  <2> HIDE DEF m
  <2>7. GoodMemory(m, log)
    BY <1>4, <1>7, <2>5 DEF GoodMemory
  <2>8. m.broken => tail[p] = <<>>
    BY <1>4, <2>5
  <2>9. f \in {"checking", "ready", "stopped", "closing"}
    BY <1>4
  <2> QED
    BY <1>2, <1>4, <1>5, <1>9, <2>3, <2>4, <2>5, <2>6, <2>7, <2>8, <2>9, PersistedStep
<1> QED
  BY <1>6, <1>10, <1>11 DEF Finish
LEMMA PagesAreFinite == IsFiniteSet(Pages)
<1>1. PageCount \in Nat
  BY BoundsAssumption
<1> QED
  BY <1>1, FS_Interval DEF Pages

\* The sequence a page goes on from.
LEMMA LastSequenceProperties ==
  ASSUME NEW n \in 0 .. MaxDrafts, NEW entries, \A e \in entries : e.op.sequence \in 1 .. n
  PROVE  LastSequence(entries) \in Nat /\ LastSequence(entries) <= n
<1> DEFINE T == {e.op.sequence : e \in entries}
           High(k) == /\ \A e \in entries : e.op.sequence <= k
                      /\ k = 0 \/ \E e \in entries : e.op.sequence = k
<1>1. n \in Nat /\ MaxDrafts \in Nat
  BY BoundsAssumption
<1>2. \E k \in 0 .. MaxDrafts : High(k)
  <2>1. CASE entries = {}
    <3>1. High(0) /\ 0 \in 0 .. MaxDrafts
      BY <1>1, <2>1
    <3> QED
      BY <3>1
  <2>2. CASE entries # {}
    <3>1. T \in SUBSET Nat /\ T # {} /\ \A k \in T : k <= n
      BY <1>1, <2>2
    <3>2. PICK k \in T : \A j \in T : k >= j
      <4> HIDE DEF T
      <4> QED
        BY <1>1, <3>1, GreatestExists
    <3>3. k \in 0 .. MaxDrafts
      BY <1>1, <3>1, <3>2
    <3>4. \A e \in entries : e.op.sequence <= k
      BY <1>1, <3>1, <3>2
    <3>5. \E e \in entries : e.op.sequence = k
      BY <3>2
    <3> QED
      BY <3>3, <3>4, <3>5
  <2> QED
    BY <2>1, <2>2
<1>3. High(LastSequence(entries)) /\ LastSequence(entries) \in 0 .. MaxDrafts
  <2>1. LastSequence(entries) = CHOOSE k \in 0 .. MaxDrafts : High(k)
    BY DEF LastSequence
  <2> HIDE DEF High
  <2> QED
    BY <1>2, <2>1
<1> QED
  BY <1>1, <1>3

\* The queue of a page that loaded its entries.
LEMMA RestoredProperties ==
  ASSUME NEW D, NEW entries \in SUBSET Written(D), IsFiniteSet(entries), NEW s \in Sorted(entries)
  PROVE  LET q == Restored(s)
         IN  /\ q \in Seq([op : D, base : Nat, fixed : BOOLEAN])
             /\ Ops(ToSet(q)) = Ops(entries)
             /\ SequencesDiffer(entries) =>
                  \A i, j \in DOMAIN q : q[i].op = q[j].op => i = j
<1> DEFINE E == [op : D, base : Nat, fixed : BOOLEAN]
           q == Restored(s)
           n == Cardinality(entries)
<1>1. n \in Nat
  BY FS_CardinalityType
<1> HIDE DEF n
<1>2. /\ s \in [1 .. n -> entries] /\ DOMAIN s = 1 .. n
      /\ \A e \in entries : \E i \in DOMAIN s : s[i] = e
      /\ \A i, j \in DOMAIN s : i < j => s[i] # s[j]
  BY DEF Sorted, n
<1>3. \A i \in 1 .. n : s[i] \in entries /\ s[i].op \in D /\ s[i].base \in Nat
  BY <1>2 DEF Written
<1>4. DOMAIN q = 1 .. n /\ \A i \in 1 .. n : q[i] \in E /\ q[i].op = s[i].op
  BY <1>2, <1>3 DEF Restored
<1>5. q \in Seq(E)
  <2> HIDE DEF E
  <2>1. q = [i \in 1 .. n |-> q[i]]
    BY <1>2 DEF Restored
  <2>2. q \in [1 .. n -> E]
    BY <1>4, <2>1
  <2> QED
    BY <1>1, <2>2, SeqDef
<1>6. Ops(ToSet(q)) = Ops(entries)
  <2>1. Ops(ToSet(q)) = {q[i].op : i \in DOMAIN q}
    BY QueueOps
  <2>2. {q[i].op : i \in DOMAIN q} = {e.op : e \in entries}
    <3> HIDE DEF q
    <3>1. \A i \in 1 .. n : q[i].op \in {e.op : e \in entries}
      BY <1>3, <1>4
    <3>2. \A e \in entries : \E i \in 1 .. n : q[i].op = e.op
      BY <1>2, <1>4
    <3>3. {q[i].op : i \in DOMAIN q} \subseteq {e.op : e \in entries}
      BY ONLY <1>4, <3>1
    <3>4. \A e \in entries : e.op \in {q[i].op : i \in DOMAIN q}
      BY ONLY <1>4, <3>2
    <3>5. {e.op : e \in entries} \subseteq {q[i].op : i \in DOMAIN q}
      BY ONLY <3>4
    <3> QED
      BY ONLY <3>3, <3>5
  <2> QED
    BY <2>1, <2>2 DEF Ops
<1> HIDE DEF q
<1>7. ASSUME SequencesDiffer(entries), NEW i \in 1 .. n, NEW j \in 1 .. n, q[i].op = q[j].op
      PROVE  i = j
  <2>1. s[i] = s[j]
    BY <1>3, <1>4, <1>7 DEF SequencesDiffer
  <2> QED
    BY <1>1, <1>2, <2>1
<1> QED
  BY <1>4, <1>5, <1>6, <1>7 DEF q, E

\* The memory of a page that starts.
OpenedMemory(p, entries, h, s) ==
  [Empty EXCEPT !.queue = Restored(s), !.sequence = LastSequence(entries),
                !.confirmed = page[p].confirmed, !.broken = page[p].broken,
                !.revision = h, !.hydrated = h, !.restarted = phase[p] = "closed"]

LEMMA OpenedProperties ==
  ASSUME NEW D, Base(D), NEW p \in Pages, phase[p] \in {"new", "closed"},
         NEW entries \in SUBSET Written(D), IsFiniteSet(entries),
         NEW h \in 0 .. Len(log), NEW s \in Sorted(entries),
         NEW m, m = OpenedMemory(p, entries, h, s)
  PROVE  /\ m \in Memory(D) /\ GoodMemory(m, log) /\ m.inFlight = None /\ m.answer = 0
         /\ m.queue = Restored(s) /\ m.confirmed = page[p].confirmed
         /\ m.broken = page[p].broken /\ m.checked = 0
         /\ m.sequence \in Nat /\ m.sequence <= drafts
         /\ \/ m.restarted
            \/ m.sequence >= page[p].sequence /\ phase[p] \notin {"closed", "crashed"}
         /\ page[p].restarted => m.restarted
         /\ m.hydrated = h
<1>1. /\ page[p] \in Memory(D) /\ GoodMemory(page[p], log) /\ GoodPhase(p)
      /\ Len(log) \in Nat /\ drafts \in 0 .. MaxDrafts
      /\ D \subseteq [session : Pages, sequence : 1 .. drafts, id : 1 .. drafts]
  BY PageFacts, BaseFacts DEF Typed
<1> DEFINE q == Restored(s)
           n == LastSequence(entries)
           r == phase[p] = "closed"
<1>2. q \in Seq([op : D, base : Nat, fixed : BOOLEAN])
  BY RestoredProperties
<1>3. n \in Nat /\ n <= drafts
  <2>1. \A e \in entries : e.op.sequence \in 1 .. drafts
    BY <1>1 DEF Written
  <2> QED
    BY <1>1, <2>1, LastSequenceProperties
<1>4. h \in Nat /\ h <= Len(log) /\ r \in BOOLEAN
  BY <1>1
<1> HIDE DEF q, n, r
<1>5. /\ page[p].confirmed \in SUBSET [op : D, base : Nat, revision : Nat]
      /\ page[p].broken \in BOOLEAN
  BY <1>1 DEF Memory
<1>6. /\ m.queue = q /\ m.sequence = n /\ m.confirmed = page[p].confirmed
      /\ m.revision = h /\ m.hydrated = h /\ m.applied = {} /\ m.checked = 0
      /\ m.inFlight = None /\ m.answer = 0 /\ m.broken = page[p].broken /\ m.restarted = r
      /\ m.sentBase = 0
  BY DEF OpenedMemory, Empty, q, n, r
<1>7. m \in Memory(D)
  BY <1>2, <1>3, <1>4, <1>5 DEF OpenedMemory, Empty, Memory, q, n, r
<1>8. GoodMemory(m, log)
  BY <1>1, <1>4, <1>6 DEF GoodMemory
<1>9. phase[p] = "new" => page[p].sequence = 0 /\ ~page[p].restarted
  BY <1>1 DEF GoodPhase, Empty
<1>10. /\ \/ m.restarted
          \/ m.sequence >= page[p].sequence /\ phase[p] \notin {"closed", "crashed"}
       /\ page[p].restarted => m.restarted
  <2>1. CASE phase[p] = "new"
    BY <1>3, <1>6, <1>9, <2>1
  <2>2. CASE phase[p] = "closed"
    BY <1>6, <2>2 DEF r
  <2> QED
    BY <2>1, <2>2
<1> HIDE DEF r, n
<1> QED
  BY <1>3, <1>6, <1>7, <1>8, <1>10 DEF q

\* What a page finds when it starts.
LEMMA ClaimedRecords ==
  ASSUME NEW D, Base(D), NEW p \in Pages
  PROVE  /\ UNION {record[q] : q \in Claimed(p)} \in SUBSET Written(D)
         /\ IsFiniteSet(UNION {record[q] : q \in Claimed(p)})
<1>1. record \in [Pages -> SUBSET Written(D)]
  BY BaseFacts
<1>2. \A q \in Pages : IsFiniteSet(record[q])
  BY PageFacts DEF FiniteRecords
<1> DEFINE merged == UNION {record[q] : q \in Claimed(p)}
<1>3. Claimed(p) \in SUBSET Pages
  BY DEF Claimed
<1>4. merged \in SUBSET Written(D) /\ IsFiniteSet(merged)
  <2>1. merged \in SUBSET Written(D)
    BY <1>1, <1>3
  <2>2. IsFiniteSet(Claimed(p))
    BY <1>3, PagesAreFinite, FS_Subset
  <2> DEFINE R == {record[q] : q \in Claimed(p)}
             g == [q \in Claimed(p) |-> record[q]]
  <2>3. g \in [Claimed(p) -> R] /\ \A t \in R : \E q \in Claimed(p) : g[q] = t
    OBVIOUS
  <2>4. \A t \in R : IsFiniteSet(t)
    BY <1>2, <1>3
  <2>5. merged = UNION R
    OBVIOUS
  <2> HIDE DEF R, g, merged
  <2>6. IsFiniteSet(R)
    BY <2>2, <2>3, ImageIsFinite
  <2> QED
    BY <2>1, <2>4, <2>5, <2>6, FS_UNION
<1> QED
  BY <1>4

LEMMA OpenStep ==
  ASSUME NEW D, Base(D), NEW p \in Pages, Open(p)
  PROVE  Base(D)'
<1>1. /\ page[p] \in Memory(D) /\ GoodPhase(p) /\ phase[p] \in {"new", "closed"}
  BY PageFacts DEF Open
<1>2. /\ network \subseteq D /\ sent \subseteq D /\ dropped \subseteq D
      /\ record \in [Pages -> SUBSET Written(D)] /\ saved \in Nat
  BY BaseFacts
<1>3. \A q \in Pages : IsFiniteSet(record[q])
  BY PageFacts DEF FiniteRecords
<1>4. tail[p] = <<>> /\ Idle \in Saver /\ GoodSaver(Idle, saved)
  BY <1>1, <1>2, IdleProperties DEF GoodPhase, Owned
<1>5. ASSUME NEW entries \in SUBSET Written(D), IsFiniteSet(entries), Opened(p, entries),
             record' \in [Pages -> SUBSET Written(D)], \A q \in Pages : IsFiniteSet(record'[q]),
             NEW f \in {"checking", "stopped"}, phase' = [phase EXCEPT ![p] = f],
             f = "checking" => SequencesDiffer(entries)
      PROVE  Base(D)'
  <2>1. PICK h \in 0 .. Len(log), s \in Sorted(entries) :
          page' = [page EXCEPT ![p] = OpenedMemory(p, entries, h, s)]
    BY <1>5 DEF Opened, OpenedMemory
  <2> DEFINE m == OpenedMemory(p, entries, h, s)
  <2>2. page' = [page EXCEPT ![p] = m]
    BY <2>1
  <2>3. /\ m \in Memory(D) /\ GoodMemory(m, log) /\ m.inFlight = None
        /\ m.queue = Restored(s) /\ m.broken = page[p].broken /\ m.checked = 0
        /\ m.sequence <= drafts
        /\ \/ m.restarted
           \/ m.sequence >= page[p].sequence /\ phase[p] \notin {"closed", "crashed"}
        /\ page[p].restarted => m.restarted
    <3>1. m = OpenedMemory(p, entries, h, s)
      OBVIOUS
    <3> HIDE DEF m
    <3> QED
      BY <1>1, <1>5, <3>1, OpenedProperties
  <2> HIDE DEF m
  <2>4. f = "checking" =>
          /\ m.checked <= Len(m.queue)
          /\ \A i, j \in DOMAIN m.queue : m.queue[i].op = m.queue[j].op => i = j
    <3>1. m.queue \in Seq([op : D, base : Nat, fixed : BOOLEAN])
      BY <2>3 DEF Memory
    <3>2. Len(m.queue) \in Nat
      BY <3>1, LenProperties
    <3>3. ASSUME f = "checking"
          PROVE  \A i, j \in DOMAIN m.queue : m.queue[i].op = m.queue[j].op => i = j
      <4>1. /\ SequencesDiffer(entries) /\ m.queue = Restored(s)
            /\ entries \in SUBSET Written(D) /\ IsFiniteSet(entries) /\ s \in Sorted(entries)
        BY <1>5, <2>3, <3>3
      <4> QED
        BY <4>1, RestoredProperties
    <3> QED
      BY <2>3, <3>2, <3>3
  <2>5. /\ UNCHANGED <<server, network, drafts, durable, sent>> /\ dropped' \subseteq D
        /\ saver' = [saver EXCEPT ![p] = Idle] /\ tail' = [tail EXCEPT ![p] = tail[p]]
    <3>1. tail \in [Pages -> Seq(SUBSET Written(D))]
      BY BaseFacts
    <3> QED
      BY <1>2, <1>5, <3>1 DEF Opened, history
  <2>6. f \in Phases /\ f # "new" /\ f # "ready" /\ f \notin {"closing", "closed", "crashed"}
    BY <1>5 DEF Phases
  <2>7. phase' = [phase EXCEPT ![p] = f]
    BY <1>5
  <2>8. record' \in [Pages -> SUBSET Written(D)] /\ \A q \in Pages : IsFiniteSet(record'[q])
    BY <1>5
  <2> QED
    BY <1>4, <2>2, <2>3, <2>4, <2>5, <2>6, <2>7, <2>8, CutStep
<1> DEFINE merged == UNION {record[q] : q \in Claimed(p)}
<1>6. Claimed(p) \in SUBSET Pages
  BY DEF Claimed
<1>7. merged \in SUBSET Written(D) /\ IsFiniteSet(merged)
  BY ClaimedRecords
<1>8. CASE /\ record' = Retired(p, Claimed(p), merged)
           /\ phase' = [phase EXCEPT ![p] = IF SequencesDiffer(merged) THEN "checking" ELSE "stopped"]
           /\ Opened(p, merged)
  <2> DEFINE f == IF SequencesDiffer(merged) THEN "checking" ELSE "stopped"
  <2>1. f \in {"checking", "stopped"} /\ phase' = [phase EXCEPT ![p] = f]
    BY <1>8
  <2>2. f = "checking" => SequencesDiffer(merged)
    OBVIOUS
  <2> HIDE DEF f, merged
  <2>3. record' \in [Pages -> SUBSET Written(D)] /\ \A q \in Pages : IsFiniteSet(record'[q])
    <3>1. record' = [q \in Pages |-> IF q = p THEN merged
                                     ELSE IF q \in Claimed(p) THEN {} ELSE record[q]]
      BY <1>8 DEF Retired
    <3>2. \A q \in Pages : IF q = p THEN record'[q] = merged
                           ELSE record'[q] \in {{}, record[q]}
      BY <3>1
    <3>3. IsFiniteSet({})
      BY FS_EmptySet
    <3> QED
      BY <1>2, <1>3, <1>7, <3>1, <3>2, <3>3
  <2> QED
    BY <1>5, <1>7, <1>8, <2>1, <2>2, <2>3
<1>9. CASE Stop(p) /\ Opened(p, {}) /\ UNCHANGED record
  <2>1. phase' = [phase EXCEPT ![p] = "stopped"] /\ IsFiniteSet({}) /\ {} \in SUBSET Written(D)
    BY <1>9, FS_EmptySet DEF Stop
  <2> QED
    BY <1>2, <1>3, <1>5, <1>9, <2>1
<1> QED
  BY <1>8, <1>9 DEF Open

LEMMA MemoryGrows ==
  ASSUME NEW D, NEW E, D \subseteq E
  PROVE  /\ Memory(D) \subseteq Memory(E) /\ Seq(D) \subseteq Seq(E)
         /\ Written(D) \subseteq Written(E)
         /\ Seq(SUBSET Written(D)) \subseteq Seq(SUBSET Written(E))
<1>1. ASSUME NEW S, NEW T, S \subseteq T PROVE Seq(S) \subseteq Seq(T)
  <2>1. ASSUME NEW s \in Seq(S) PROVE s \in Seq(T)
    <3>1. Len(s) \in Nat /\ s \in [1 .. Len(s) -> S]
      BY LenProperties
    <3>2. s \in [1 .. Len(s) -> T]
      BY <1>1, <3>1
    <3> QED
      BY <3>1, <3>2, SeqDef
  <2> QED
    BY <2>1
<1>2. Seq([op : D, base : Nat, fixed : BOOLEAN]) \subseteq Seq([op : E, base : Nat, fixed : BOOLEAN])
  <2>1. [op : D, base : Nat, fixed : BOOLEAN] \subseteq [op : E, base : Nat, fixed : BOOLEAN]
    OBVIOUS
  <2> QED
    BY <1>1, <2>1
<1>3. SUBSET [op : D, base : Nat, revision : Nat] \subseteq SUBSET [op : E, base : Nat, revision : Nat]
  OBVIOUS
<1>4. Memory(D) \subseteq Memory(E)
  BY <1>2, <1>3 DEF Memory
<1>5. Written(D) \subseteq Written(E)
  BY DEF Written
<1>6. Seq(SUBSET Written(D)) \subseteq Seq(SUBSET Written(E))
  <2>1. SUBSET Written(D) \subseteq SUBSET Written(E)
    BY <1>5
  <2> QED
    BY <1>1, <2>1
<1> QED
  BY <1>1, <1>4, <1>5, <1>6

With(S, x) == S \cup {x}

DraftOf(p) == [session |-> p, sequence |-> NextSequence(page[p]), id |-> drafts + 1]

DraftedMemory(p) ==
  [page[p] EXCEPT !.sequence = DraftOf(p).sequence, !.applied = @ \cup {DraftOf(p)},
                  !.queue = Append(@, [op |-> DraftOf(p), base |-> page[p].revision,
                                       fixed |-> FALSE])]

LEMMA AppendedOps ==
  ASSUME NEW S, NEW s \in Seq(S), NEW e \in S
  PROVE  Ops(ToSet(Append(s, e))) = With(Ops(ToSet(s)), e.op)
<1> DEFINE q == Append(s, e)
<1>1. /\ DOMAIN q = 1 .. Len(s) + 1 /\ Len(s) \in Nat /\ DOMAIN s = 1 .. Len(s)
      /\ \A i \in 1 .. Len(s) : q[i] = s[i]
      /\ q[Len(s) + 1] = e
  BY AppendProperties, LenProperties
<1> HIDE DEF q
<1>2. {q[i].op : i \in DOMAIN q} = {s[i].op : i \in DOMAIN s} \cup {e.op}
  BY <1>1
<1>3. Ops(ToSet(q)) = {q[i].op : i \in DOMAIN q} /\ Ops(ToSet(s)) = {s[i].op : i \in DOMAIN s}
  BY QueueOps
<1> QED
  BY <1>2, <1>3 DEF q, With

LEMMA DraftProperties ==
  ASSUME NEW D, Base(D), NEW p \in Pages, phase[p] = "ready", drafts < MaxDrafts,
         NEW op, op = DraftOf(p), NEW m, m = DraftedMemory(p),
         NEW F, F = With(D, op)
  PROVE  /\ drafts + 1 \in 0 .. MaxDrafts /\ F \subseteq Op
         /\ F \subseteq [session : Pages, sequence : 1 .. drafts + 1, id : 1 .. drafts + 1]
         /\ op \notin D /\ op.session = p
         /\ \A o \in D : o.session = p /\ o.sequence = op.sequence => page[p].restarted
         /\ m \in Memory(F) /\ GoodMemory(m, log)
         /\ m.sequence = op.sequence /\ m.sequence = page[p].sequence + 1
         /\ Ops(ToSet(m.queue)) = With(Ops(ToSet(page[p].queue)), op)
         /\ m.applied = With(page[p].applied, op) /\ m.confirmed = page[p].confirmed
         /\ m.hydrated = page[p].hydrated /\ m.revision = page[p].revision
         /\ m.inFlight = page[p].inFlight /\ m.answer = page[p].answer /\ m.sentBase = page[p].sentBase
         /\ m.broken = page[p].broken /\ m.restarted = page[p].restarted
<1> DEFINE E == [op : F, base : Nat, fixed : BOOLEAN]
           e == [op |-> op, base |-> page[p].revision, fixed |-> FALSE]
           q == Append(page[p].queue, e)
<1>1. /\ page[p] \in Memory(D) /\ GoodMemory(page[p], log)
      /\ page[p].sequence \in Nat /\ page[p].revision \in Nat
  BY PageFacts DEF Memory
<1>2. /\ drafts \in 0 .. MaxDrafts /\ MaxDrafts \in Nat
      /\ D \subseteq [session : Pages, sequence : 1 .. drafts, id : 1 .. drafts]
  BY BoundsAssumption DEF Base, Typed
<1>3. /\ page[p].sequence <= drafts
      /\ \A o \in D : o.session = p => page[p].restarted \/ o.sequence <= page[p].sequence
  BY DEF Base, Numbered
<1>4. op = [session |-> p, sequence |-> page[p].sequence + 1, id |-> drafts + 1]
  BY DEF DraftOf, NextSequence
<1>5. /\ drafts + 1 \in 0 .. MaxDrafts
      /\ op \in [session : Pages, sequence : 1 .. drafts + 1, id : 1 .. drafts + 1]
  BY <1>1, <1>2, <1>3, <1>4
<1>6. /\ F \subseteq [session : Pages, sequence : 1 .. drafts + 1, id : 1 .. drafts + 1]
      /\ F \subseteq Op
  BY <1>2, <1>5 DEF Op, With
<1>7. op \notin D
  <2>1. \A o \in D : o.id <= drafts
    BY <1>2
  <2>2. ~(drafts + 1 <= drafts)
    BY <1>2
  <2> QED
    BY <1>4, <2>1, <2>2
<1>8. \A o \in D : o.session = p /\ o.sequence = op.sequence => page[p].restarted
  BY <1>1, <1>3, <1>4
<1>9. page[p] \in Memory(F) /\ page[p].queue \in Seq(E)
  <2>1. D \subseteq F
    BY DEF With
  <2>2. page[p] \in Memory(F)
    BY <1>1, <2>1, MemoryGrows
  <2> QED
    BY <2>2 DEF Memory
<1>10. /\ q \in Seq(E) /\ Ops(ToSet(q)) = With(Ops(ToSet(page[p].queue)), op)
  <2>1. e \in E /\ e.op = op
    BY <1>1 DEF With
  <2> HIDE DEF e, E
  <2> QED
    BY <1>9, <2>1, AppendedOps, AppendProperties
<1>11. /\ m = [page[p] EXCEPT !.sequence = op.sequence, !.applied = page[p].applied \cup {op},
                              !.queue = q]
  BY <1>1 DEF DraftedMemory, Memory
<1> HIDE DEF q
<1>12. op.sequence \in Nat /\ op.sequence = page[p].sequence + 1
  BY <1>1, <1>4
<1>13. /\ m \in Memory(F) /\ m.sequence = op.sequence /\ m.queue = q
       /\ m.applied = page[p].applied \cup {op} /\ m.confirmed = page[p].confirmed
       /\ m.hydrated = page[p].hydrated /\ m.revision = page[p].revision
       /\ m.inFlight = page[p].inFlight /\ m.answer = page[p].answer /\ m.sentBase = page[p].sentBase
       /\ m.broken = page[p].broken /\ m.restarted = page[p].restarted
  <2>1. page[p].applied \cup {op} \in SUBSET F
    BY <1>1 DEF Memory, With
  <2> DEFINE applied == page[p].applied \cup {op}
             n == op.sequence
  <2>2. /\ applied \in SUBSET F /\ q \in Seq(E) /\ n \in Nat
        /\ m = [page[p] EXCEPT !.sequence = n, !.applied = applied, !.queue = q]
    BY <1>10, <1>11, <1>12, <2>1
  <2> HIDE DEF applied, n
  <2>3. /\ m \in Memory(F) /\ m.sequence = n /\ m.queue = q
        /\ m.applied = applied /\ m.confirmed = page[p].confirmed
        /\ m.hydrated = page[p].hydrated /\ m.revision = page[p].revision
        /\ m.inFlight = page[p].inFlight /\ m.answer = page[p].answer /\ m.sentBase = page[p].sentBase
        /\ m.broken = page[p].broken /\ m.restarted = page[p].restarted
    <3> HIDE DEF E
    <3>1. DOMAIN page[p] = {"queue", "sequence", "confirmed", "revision", "hydrated", "applied",
                            "checked", "inFlight", "sentBase", "answer", "broken", "restarted"}
      BY ONLY <1>9 DEF Memory
    <3>2. /\ m.sequence = n /\ m.queue = q /\ m.applied = applied
          /\ m.confirmed = page[p].confirmed
          /\ m.hydrated = page[p].hydrated /\ m.revision = page[p].revision
          /\ m.inFlight = page[p].inFlight /\ m.answer = page[p].answer /\ m.sentBase = page[p].sentBase
          /\ m.broken = page[p].broken /\ m.restarted = page[p].restarted
      BY ONLY <2>2, <3>1
    <3>3. m \in Memory(F)
      BY ONLY <1>9, <2>2 DEF Memory, E
    <3> QED
      BY ONLY <3>2, <3>3
  <2> QED
    BY <2>3 DEF applied, n
<1>14. GoodMemory(m, log)
  BY <1>1, <1>13 DEF GoodMemory
<1>15. op.session = p
  BY <1>4
<1> HIDE DEF E
<1>17. /\ Ops(ToSet(m.queue)) = With(Ops(ToSet(page[p].queue)), op)
       /\ m.applied = With(page[p].applied, op)
  BY <1>10, <1>13 DEF With
<1> QED
  BY <1>17, <1>5, <1>6, <1>7, <1>8, <1>10, <1>12, <1>13, <1>14, <1>15

LEMMA DraftStep ==
  ASSUME NEW D, Base(D), NEW p \in Pages, Draft(p)
  PROVE  \E E \in SUBSET Op : Base(E)'
<1>0. PICK op, m, E : op = DraftOf(p) /\ m = DraftedMemory(p) /\ E = With(D, op)
  OBVIOUS
<1>1. phase[p] = "ready" /\ drafts < MaxDrafts /\ drafts' = drafts + 1 /\ Persisted(p, m)
      /\ UNCHANGED <<server, network, phase, saver, faults, sent, dropped>>
  BY <1>0 DEF Draft, DraftOf, DraftedMemory
<1>3. /\ drafts' \in 0 .. MaxDrafts /\ E \subseteq Op
      /\ E \subseteq [session : Pages, sequence : 1 .. drafts', id : 1 .. drafts']
      /\ op \notin D /\ op.session = p
      /\ \A o \in D : o.session = p /\ o.sequence = op.sequence => page[p].restarted
      /\ m \in Memory(E) /\ GoodMemory(m, log)
      /\ m.sequence = op.sequence /\ m.sequence = page[p].sequence + 1
      /\ Ops(ToSet(m.queue)) = With(Ops(ToSet(page[p].queue)), op)
      /\ m.inFlight = page[p].inFlight
      /\ m.broken = page[p].broken /\ m.restarted = page[p].restarted
  BY <1>0, <1>1, DraftProperties
<1>4. D \subseteq E /\ \A o \in E : o \in D \/ o = op
  BY <1>0 DEF With
<1>5. /\ Memory(D) \subseteq Memory(E) /\ Seq(D) \subseteq Seq(E) /\ Written(D) \subseteq Written(E)
      /\ Seq(SUBSET Written(D)) \subseteq Seq(SUBSET Written(E))
  BY <1>4, MemoryGrows
<1>6. /\ log \in Seq(E) /\ saved \in 0 .. Len(log)
      /\ network \subseteq E /\ sent \subseteq E /\ durable \subseteq E /\ dropped \subseteq E
      /\ record \in [Pages -> SUBSET Written(E)] /\ tail \in [Pages -> Seq(SUBSET Written(E))]
      /\ phase \in [Pages -> Phases] /\ page \in [Pages -> Memory(E)] /\ saver \in [Pages -> Saver]
  <2>1. /\ log \in Seq(D) /\ saved \in 0 .. Len(log)
        /\ network \subseteq D /\ sent \subseteq D /\ durable \subseteq D /\ dropped \subseteq D
        /\ record \in [Pages -> SUBSET Written(D)] /\ tail \in [Pages -> Seq(SUBSET Written(D))]
        /\ phase \in [Pages -> Phases] /\ page \in [Pages -> Memory(D)] /\ saver \in [Pages -> Saver]
    BY BaseFacts
  <2>2. tail \in [Pages -> Seq(SUBSET Written(E))] /\ page \in [Pages -> Memory(E)]
    BY <1>5, <2>1
  <2>3. record \in [Pages -> SUBSET Written(E)]
    BY <1>5, <2>1
  <2> QED
    BY <1>4, <1>5, <2>1, <2>2, <2>3
<1>7. /\ page' \in [Pages -> Memory(E)] /\ page'[p] = m
      /\ tail' \in [Pages -> Seq(SUBSET Written(E))]
      /\ \A q \in Pages : q # p => page'[q] = page[q] /\ tail'[q] = tail[q]
      /\ record' = record /\ durable' = durable
      /\ FiniteRecords(p)'
      /\ m.broken => tail'[p] = tail[p]
  <2>1. FiniteRecords(p) /\ IsFiniteSet(m.confirmed)
    BY <1>3, PageFacts DEF GoodMemory
  <2>2. page \in [Pages -> Memory(E)] /\ tail \in [Pages -> Seq(SUBSET Written(E))]
    BY <1>6
  <2> QED
    BY <1>1, <1>3, <2>1, <2>2, PersistedProperties
<1>8. Typed(E)'
  BY <1>1, <1>3, <1>6, <1>7 DEF Typed, Phases, server
<1>9. CommittedOnce'
  BY <1>1 DEF Base, CommittedOnce, server
<1>10. Numbered(E)'
  <2>1. Numbered(D) /\ drafts \in Nat /\ page[p].sequence \in Nat
    BY PageFacts DEF Base, Typed, Memory
  <2>2. \A o \in D : o.session \in Pages /\ o.sequence \in Nat
    BY DEF Base, Typed
  <2>3. /\ \A q \in Pages : page'[q].restarted = page[q].restarted
        /\ \A q \in Pages : q # p => page'[q].sequence = page[q].sequence
        /\ page'[p].sequence = page[p].sequence + 1 /\ phase' = phase
    BY <1>1, <1>3, <1>7
  <2>4. \A q \in Pages : page'[q].sequence <= drafts'
    <3>1. \A q \in Pages : page[q].sequence \in Nat /\ page[q].sequence <= drafts
      BY <2>1, PageFacts DEF Numbered, Memory
    <3> QED
      BY <1>1, <2>1, <2>3, <3>1
  <2>5. ASSUME NEW o \in E
        PROVE  \/ page'[o.session].restarted \/ phase'[o.session] \in {"closed", "crashed"}
               \/ o.sequence <= page'[o.session].sequence
    <3>1. CASE o = op
      <4>1. o.session = p /\ o.sequence = page'[p].sequence
        BY <1>3, <1>7, <3>1
      <4>2. page'[p].sequence \in Nat
        BY <2>1, <2>3
      <4> QED
        BY <4>1, <4>2
    <3>2. CASE o \in D /\ o.session = p
      BY <1>1, <2>1, <2>2, <2>3, <3>2 DEF Numbered
    <3>3. CASE o \in D /\ o.session # p
      BY <2>1, <2>2, <2>3, <3>3 DEF Numbered
    <3> QED
      BY <1>4, <3>1, <3>2, <3>3
  <2>6. ASSUME NEW a \in E, NEW b \in E, a.session = b.session, a.sequence = b.sequence
        PROVE  a = b \/ page'[a.session].restarted
    <3>1. CASE a \in D /\ b \in D
      BY <2>1, <2>2, <2>3, <2>6, <3>1 DEF Numbered
    <3>2. CASE a = op \/ b = op
      BY <1>3, <1>4, <2>3, <2>6, <3>2
    <3> QED
      BY <1>4, <3>1, <3>2
  <2> QED
    BY <2>4, <2>5, <2>6 DEF Numbered
<1>11. ASSUME NEW q \in Pages PROVE GoodPage(q)'
  <2>1. GoodPage(q)
    BY DEF Base
  <2>2. CASE q # p
    BY <1>1, <1>7, <2>1, <2>2 DEF GoodPage, GoodPhase, Owned, FiniteRecords, server
  <2>3. CASE q = p
    <3>1. GoodPhase(p)'
      BY <1>1, <1>3, <1>7, <2>1, <2>3 DEF GoodPage, GoodPhase, Owned, With
    <3> QED
      BY <1>1, <1>3, <1>7, <2>1, <2>3, <3>1 DEF GoodPage, server
  <2> QED
    BY <2>2, <2>3
<1> QED
  BY <1>3, <1>8, <1>9, <1>10, <1>11 DEF Base
-----------------------------------------------------------------------------
(* The inductive invariant. *)

LEMMA PageStepsKeepIInv ==
  ASSUME NEW D \in SUBSET Op, Base(D), NEW p \in Pages,
         \/ Open(p) \/ Close(p) \/ Release(p) \/ Crash(p) \/ Discard(p) \/ Purge(p)
         \/ Write(p) \/ WriteFails(p)
         \/ TimerFires(p) \/ Save(p) \/ CheckpointSaved(p) \/ Covered(p)
         \/ CheckpointFails(p) \/ CoverFails(p)
         \/ Check(p) \/ Finish(p) \/ Draft(p) \/ Send(p) \/ Answer(p) \/ Acknowledge(p) \/ Fails(p)
  PROVE  IInv'
<1>1. CASE Open(p) \/ Close(p) \/ Release(p) \/ Crash(p) \/ Discard(p) \/ Purge(p)
  BY <1>1, OpenStep, CloseStep, ReleaseStep, CrashStep, DiscardStep, PurgeStep DEF IInv
<1>2. CASE Write(p) \/ WriteFails(p)
  BY <1>2, WriteStep, WriteFailsStep DEF IInv
<1>3. CASE TimerFires(p) \/ Save(p)
  <2>1. phase[p] \in {"checking", "ready", "stopped"} /\ StartFlush(p)
    BY <1>3, AtWork DEF TimerFires, Save, Settling
  <2> QED
    BY <2>1, StartFlushStep DEF IInv
<1>4. CASE CheckpointSaved(p) \/ Covered(p)
  BY <1>4, CheckpointSavedStep, CoveredStep DEF IInv
<1>5. CASE CheckpointFails(p) \/ CoverFails(p)
  <2>1. (saver[p].target > 0 \/ saver[p].result > 0) /\ Failed(p)
    BY <1>5 DEF CheckpointFails, CoverFails
  <2> QED
    BY <2>1, FailedStep DEF IInv
<1>6. CASE Check(p) \/ Finish(p)
  BY <1>6, CheckStep, FinishStep DEF IInv
<1>7. CASE Draft(p)
  BY <1>7, DraftStep DEF IInv
<1>8. CASE Send(p) \/ Answer(p) \/ Acknowledge(p) \/ Fails(p)
  BY <1>8, SendStep, AnswerStep, AcknowledgeStep, FailsStep DEF IInv
<1> QED
  BY <1>1, <1>2, <1>3, <1>4, <1>5, <1>6, <1>7, <1>8

LEMMA InitEstablishesIInv ==
  ASSUME Init
  PROVE  IInv
<1>1. MaxDrafts \in Nat
  BY BoundsAssumption
<1>2. Len(<<>>) = 0 /\ <<>> \in Seq({}) /\ DOMAIN <<>> = {}
  BY EmptySeq
<1>3. Empty \in Memory({}) /\ GoodMemory(Empty, log)
  <2>1. Empty \in Memory({})
    BY <1>2 DEF Empty, Memory
  <2>2. Len(log) = 0
    BY <1>2 DEF Init
  <2>3. /\ Empty.hydrated = 0 /\ Empty.revision = 0 /\ Empty.confirmed = {} /\ Empty.answer = 0
    BY DEF Empty
  <2> QED
    BY <2>1, <2>2, <2>3, FS_EmptySet DEF GoodMemory
<1>4. Idle \in Saver /\ GoodSaver(Idle, saved)
  BY IdleProperties DEF Init
<1>5. Typed({})
  <2>1. /\ log \in Seq({}) /\ saved \in 0 .. Len(log) /\ drafts \in 0 .. MaxDrafts
        /\ network \subseteq {} /\ sent \subseteq {} /\ durable \subseteq {} /\ dropped \subseteq {}
    BY <1>1, <1>2 DEF Init
  <2>2. record \in [Pages -> SUBSET Written({})] /\ tail \in [Pages -> Seq(SUBSET Written({}))]
    BY EmptySeq DEF Init
  <2>3. /\ page \in [Pages -> Memory({})] /\ saver \in [Pages -> Saver]
        /\ phase \in [Pages -> {"new", "checking", "ready", "stopped", "closing", "closed", "crashed"}]
    BY <1>3, <1>4 DEF Init
  <2> QED
    BY <2>1, <2>2, <2>3 DEF Typed
<1>6. CommittedOnce
  BY <1>2 DEF Init, CommittedOnce
<1>7. Numbered({})
  BY DEF Init, Numbered, Empty
<1>8. ASSUME NEW p \in Pages PROVE GoodPage(p)
  <2>1. page[p] = Empty /\ saver[p] = Idle /\ tail[p] = <<>> /\ phase[p] = "new" /\ record[p] = {}
    BY DEF Init
  <2>2. GoodPhase(p)
    BY <2>1 DEF GoodPhase, Owned, Empty
  <2>3. FiniteRecords(p)
    BY <1>2, <2>1, FS_EmptySet DEF FiniteRecords
  <2> QED
    BY <1>3, <1>4, <2>1, <2>2, <2>3 DEF GoodPage
<1>9. Base({})
  BY <1>5, <1>6, <1>7, <1>8 DEF Base
<1> QED
  BY <1>9 DEF IInv

LEMMA StepsKeepIInv ==
  ASSUME IInv, [Next]_vars
  PROVE  IInv'
<1> PICK D \in SUBSET Op : Base(D)
  BY DEF IInv
<1>1. CASE Next
  <2>1. ASSUME NEW p \in Pages,
               \/ Open(p) \/ Close(p) \/ Release(p) \/ Crash(p) \/ Discard(p) \/ Purge(p)
               \/ Write(p) \/ WriteFails(p)
               \/ TimerFires(p) \/ Save(p) \/ CheckpointSaved(p) \/ Covered(p)
               \/ CheckpointFails(p) \/ CoverFails(p)
               \/ Check(p) \/ Finish(p) \/ Draft(p) \/ Send(p) \/ Answer(p) \/ Acknowledge(p)
               \/ Fails(p)
        PROVE  IInv'
    BY <2>1, PageStepsKeepIInv
  <2>2. ASSUME NEW op \in network, Handle(op) \/ Refuse(op)
        PROVE  IInv'
    BY <2>2, HandleStep, RefuseStep DEF IInv
  <2> QED
    BY <1>1, <2>1, <2>2 DEF Next
<1>2. CASE UNCHANGED vars
  <2>1. UNCHANGED <<server, network, storage, phase, page, saver, history>>
    BY <1>2 DEF vars
  <2>2. Typed(D)'
    BY <2>1 DEF Base, Typed, server, storage, history
  <2>3. CommittedOnce' /\ Numbered(D)'
    BY <2>1 DEF Base, CommittedOnce, Numbered, server, storage, history
  <2>4. ASSUME NEW q \in Pages PROVE GoodPage(q)'
    <3>1. GoodPage(q)
      BY DEF Base
    <3> QED
      BY <2>1, <3>1 DEF GoodPage, GoodPhase, Owned, FiniteRecords, server, storage, history
  <2>5. Base(D)'
    BY <2>2, <2>3, <2>4 DEF Base
  <2> QED
    BY <2>5 DEF IInv
<1> QED
  BY <1>1, <1>2

\* The state of the server, the storage and the pages hangs together: every
\* operation in it was drafted, and names a page and a sequence of that page.
THEOREM InvariantHolds == Spec => []IInv
<1>1. Init => IInv
  BY InitEstablishesIInv
<1>2. IInv /\ [Next]_vars => IInv'
  BY StepsKeepIInv
<1> QED
  BY <1>1, <1>2, PTL DEF Spec
\* An operation that waits for the server has a client sequence of its own,
\* unless the page of its session was started again.
THEOREM SequencesAreFresh == Spec => []SequenceFreshUnlessRestarted
<1>1. ASSUME IInv PROVE SequenceFreshUnlessRestarted
  <2> PICK D \in SUBSET Op : Base(D)
    BY <1>1 DEF IInv
  <2>1. ASSUME NEW p \in Pages, NEW e \in ToSet(page[p].queue), SequenceUsed(e.op)
        PROVE  page[e.op.session].restarted
    <3>1. e.op \in D
      <4>1. e.op \in Ops(ToSet(page[p].queue))
        BY DEF Ops
      <4> QED
        BY <4>1, PageFacts
    <3>2. PICK k \in DOMAIN log : /\ log[k].id # e.op.id
                                  /\ log[k].session = e.op.session /\ log[k].sequence = e.op.sequence
      BY <2>1 DEF SequenceUsed
    <3>3. log[k] \in D
      <4>1. log \in Seq(D) /\ DOMAIN log = 1 .. Len(log)
        BY BaseFacts
      <4> QED
        BY <4>1, ElementOfSeq
    <3>4. log[k] # e.op
      BY <3>2
    <3> QED
      BY <3>1, <3>2, <3>3, <3>4 DEF Base, Numbered
  <2> QED
    BY <2>1 DEF SequenceFreshUnlessRestarted
<1> QED
  BY <1>1, InvariantHolds, PTL

-----------------------------------------------------------------------------
(* What a page sends is in the journal. *)

\* What a write behind the earlier ones leaves.
LEMMA WrittenTail ==
  ASSUME NEW D, Base(D), NEW E, Base(E)', NEW p \in Pages, NEW m, Persisted(p, m)
  PROVE  /\ page'[p] = m /\ m \in Memory(E) /\ record' = record /\ durable' = durable
         /\ \A q \in Pages : q # p => page'[q] = page[q] /\ tail'[q] = tail[q]
         /\ m.broken => tail' = tail
         /\ ~m.broken =>
              /\ DOMAIN tail[p] = 1 .. Len(tail[p]) /\ Len(tail[p]) \in Nat
              /\ DOMAIN tail'[p] = 1 .. Len(tail[p]) + 1
              /\ \A i \in 1 .. Len(tail[p]) : tail'[p][i] = tail[p][i]
              /\ tail'[p][Len(tail[p]) + 1] = Captured(m)
              /\ Ops(tail'[p][Len(tail[p]) + 1]) = Held(m)
<1>1. page \in [Pages -> Memory(D)] /\ tail \in [Pages -> Seq(SUBSET Written(D))]
  BY BaseFacts
<1>2. /\ page'[p] = m /\ \A q \in Pages : q # p => page'[q] = page[q]
      /\ record' = record /\ durable' = durable
  BY <1>1 DEF Persisted
<1>3. m \in Memory(E) /\ IsFiniteSet(m.confirmed)
  <2>1. page'[p] \in Memory(E) /\ GoodMemory(page'[p], log')
    BY DEF Base, Typed, GoodPage
  <2> QED
    BY <1>2, <2>1 DEF GoodMemory
<1>4. CASE m.broken
  <2>1. tail' = tail
    BY <1>4 DEF Persisted
  <2> QED
    BY <1>2, <1>3, <1>4, <2>1
<1>5. CASE ~m.broken
  <2> DEFINE F == D \cup E
  <2>1. D \subseteq F /\ E \subseteq F
    OBVIOUS
  <2> HIDE DEF F
  <2>2. m \in Memory(F)
    BY <1>3, <2>1, MemoryGrows
  <2>3. tail \in [Pages -> Seq(SUBSET Written(F))]
    <3>1. Seq(SUBSET Written(D)) \subseteq Seq(SUBSET Written(F))
      BY <2>1, MemoryGrows
    <3> QED
      BY <1>1, <3>1
  <2>4. /\ tail' = [tail EXCEPT ![p] = tail'[p]]
        /\ DOMAIN tail[p] = 1 .. Len(tail[p]) /\ Len(tail[p]) \in Nat
        /\ DOMAIN tail'[p] = 1 .. Len(tail[p]) + 1
        /\ \A i \in 1 .. Len(tail[p]) : tail'[p][i] = tail[p][i]
        /\ tail'[p][Len(tail[p]) + 1] = Captured(m)
        /\ Ops(tail'[p][Len(tail[p]) + 1]) = Held(m)
    BY <1>3, <1>5, <2>2, <2>3, PersistedTail
  <2>5. \A q \in Pages : q # p => tail'[q] = tail[q]
    BY <1>1, <2>4
  <2> QED
    BY <1>2, <1>3, <1>5, <2>4, <2>5
<1> QED
  BY <1>4, <1>5

\* A step that writes nothing, and adds nothing to a queue.
LEMMA QuietKeepsJournal ==
  ASSUME \A q \in Pages : Journalled(q),
         record' = record, tail' = tail, durable' = durable,
         \A q \in Pages : /\ page'[q].broken = page[q].broken
                          /\ Ops(ToSet(page'[q].queue)) \subseteq Ops(ToSet(page[q].queue))
  PROVE  \A q \in Pages : Journalled(q)'
<1>1. ASSUME NEW q \in Pages PROVE Journalled(q)'
  <2>1. Journalled(q)
    OBVIOUS
  <2> QED
    BY <2>1 DEF Journalled
<1> QED
  BY <1>1

LEMMA WritingKeepsJournal ==
  ASSUME NEW D, Base(D), NEW E, Base(E)', NEW p \in Pages, NEW m, Persisted(p, m),
         \A q \in Pages : Journalled(q)
  PROVE  \A q \in Pages : Journalled(q)'
<1>1. ASSUME NEW q \in Pages, q # p PROVE Journalled(q)'
  <2>1. Journalled(q)
    OBVIOUS
  <2>2. page'[q] = page[q] /\ tail'[q] = tail[q] /\ record' = record /\ durable' = durable
    BY <1>1, WrittenTail
  <2> QED
    BY <2>1, <2>2 DEF Journalled
<1>2. Journalled(p)'
  <2>1. Ops(record'[p]) \subseteq durable'
    <3>1. record' = record /\ durable' = durable
      BY WrittenTail
    <3> QED
      BY <3>1 DEF Journalled
  <2>2. page'[p] = m
    BY WrittenTail
  <2>3. ASSUME ~m.broken, NEW op \in Ops(ToSet(m.queue))
        PROVE  \E i \in DOMAIN tail'[p] : op \in Ops(tail'[p][i])
    <3>1. /\ Len(tail[p]) \in Nat /\ DOMAIN tail'[p] = 1 .. Len(tail[p]) + 1
          /\ Ops(tail'[p][Len(tail[p]) + 1]) = Held(m)
      BY <2>3, WrittenTail
    <3>2. Len(tail[p]) + 1 \in DOMAIN tail'[p]
      BY <3>1
    <3> QED
      BY <3>1, <3>2 DEF Held
  <2> QED
    BY <2>1, <2>2, <2>3 DEF Journalled
<1> QED
  BY <1>1, <1>2
\* A step that writes nothing and forgets nothing.
Alike(m, n) ==
  /\ Ops(ToSet(m.queue)) = Ops(ToSet(n.queue)) /\ m.confirmed = n.confirmed
  /\ m.hydrated = n.hydrated /\ m.applied = n.applied
  /\ m.broken = n.broken /\ m.restarted = n.restarted
  /\ m.answer > 0 => m.answer = n.answer /\ m.inFlight = n.inFlight

Quiet == UNCHANGED storage /\ \A q \in Pages : Alike(page'[q], page[q])

LEMMA QuietPage ==
  ASSUME NEW D, Base(D), NEW p \in Pages, NEW m, page' = [page EXCEPT ![p] = m],
         Alike(m, page[p]), UNCHANGED storage
  PROVE  Quiet
<1>1. page \in [Pages -> Memory(D)]
  BY BaseFacts
<1>2. ASSUME NEW q \in Pages PROVE Alike(page'[q], page[q])
  <2>1. CASE q = p
    BY <1>1, <2>1
  <2>2. CASE q # p
    BY <1>1, <2>2 DEF Alike
  <2> QED
    BY <2>1, <2>2
<1> QED
  BY <1>2 DEF Quiet

LEMMA QuietSteps ==
  ASSUME NEW D, Base(D), NEW p \in Pages,
         \/ Release(p) \/ TimerFires(p) \/ Save(p) \/ Covered(p) \/ CheckpointFails(p)
         \/ CoverFails(p) \/ Send(p) \/ Fails(p)
  PROVE  Quiet
<1>1. page[p] \in Memory(D) /\ page \in [Pages -> Memory(D)]
  BY BaseFacts, PageFacts
<1>2. CASE UNCHANGED <<storage, page>>
  BY <1>2 DEF Quiet, Alike
<1>3. CASE Send(p)
  <2> DEFINE op == page[p].queue[1].op
             q == [page[p].queue EXCEPT ![1].fixed = TRUE]
             b == page[p].queue[1].base
             m == [page[p] EXCEPT !.inFlight = op, !.sentBase = b, !.queue = q]
  <2>1. page[p].queue # <<>> /\ UNCHANGED storage
    BY <1>3 DEF Send
  <2>2. Ops(ToSet(q)) = Ops(ToSet(page[p].queue))
    <3>1. page[p].queue \in Seq([op : D, base : Nat, fixed : BOOLEAN])
      BY PageFacts
    <3> QED
      BY <2>1, <3>1, FixedFirst
  <2>3. page' = [page EXCEPT ![p] = m]
    BY <1>1, <1>3 DEF Send, Memory
  <2>5. ~(page[p].answer > 0)
    <3>1. page[p].inFlight = None /\ GoodMemory(page[p], log)
      BY <1>3, PageFacts DEF Send
    <3> QED
      BY <3>1 DEF GoodMemory
  <2> HIDE DEF op, q, b
  <2>4. Alike(m, page[p])
    BY <1>1, <2>2, <2>5 DEF Alike, Memory
  <2> HIDE DEF m
  <2> QED
    BY <2>1, <2>3, <2>4, QuietPage
<1>4. CASE Fails(p)
  <2> DEFINE m == Landed(page[p])
  <2>1. page' = [page EXCEPT ![p] = m] /\ UNCHANGED storage
    BY <1>1, <1>4 DEF Fails
  <2>2. Alike(m, page[p])
    <3>1. GoodMemory(page[p], log)
      BY PageFacts
    <3> QED
      BY <1>1, <3>1, LandedProperties DEF Alike
  <2> HIDE DEF m
  <2> QED
    BY <2>1, <2>2, QuietPage
<1>5. Release(p) \/ TimerFires(p) \/ Save(p) \/ Covered(p) => UNCHANGED <<storage, page>>
  BY DEF Release, TimerFires, Save, StartFlush, Covered
<1>6. CheckpointFails(p) \/ CoverFails(p) => UNCHANGED <<storage, page>>
  BY DEF CheckpointFails, CoverFails, Failed
<1> QED
  BY <1>2, <1>3, <1>4, <1>5, <1>6

\* The four steps that write in one case and not in another.
LEMMA DequeuedCases ==
  ASSUME NEW D, Base(D), NEW p \in Pages, page[p].answer > 0, Dequeued(p)
  PROVE  \/ /\ page[p].inFlight \in Ops(ToSet(page[p].queue))
            /\ Persisted(p, Answered(page[p]))
         \/ /\ page[p].inFlight \notin Ops(ToSet(page[p].queue))
            /\ page' = [page EXCEPT ![p] = Answered(page[p])] /\ Quiet
<1> DEFINE m == Answered(page[p])
<1>1. page[p] \in Memory(D) /\ page \in [Pages -> Memory(D)] /\ GoodMemory(page[p], log)
  BY BaseFacts, PageFacts
<1>2. CASE page[p].inFlight \in Ops(ToSet(page[p].queue))
  BY <1>2 DEF Dequeued
<1>3. CASE page[p].inFlight \notin Ops(ToSet(page[p].queue))
  <2>1. page' = [page EXCEPT ![p] = m] /\ UNCHANGED storage
    BY <1>1, <1>3 DEF Dequeued
  <2>2. /\ Ops(ToSet(m.queue)) = Ops(ToSet(page[p].queue)) \ {page[p].inFlight}
        /\ m.confirmed = page[p].confirmed /\ m.hydrated = page[p].hydrated
        /\ m.applied = page[p].applied /\ m.broken = page[p].broken
        /\ m.restarted = page[p].restarted /\ m.answer = 0
    BY <1>1, AnsweredProperties
  <2> HIDE DEF m
  <2>3. Alike(m, page[p])
    BY <1>3, <2>2 DEF Alike
  <2>4. Quiet
    BY <2>1, <2>3, QuietPage
  <2> QED
    BY <1>3, <2>1, <2>4 DEF m
<1> QED
  BY <1>2, <1>3

LEMMA CloseCases ==
  ASSUME NEW D, Base(D), NEW p \in Pages, Close(p)
  PROVE  \/ /\ page[p].answer > 0 /\ page[p].inFlight \in Ops(ToSet(page[p].queue))
            /\ Persisted(p, Answered(page[p]))
         \/ Quiet
<1>1. page[p] \in Memory(D) /\ page \in [Pages -> Memory(D)] /\ GoodMemory(page[p], log)
  BY BaseFacts, PageFacts
<1>2. CASE page[p].answer > 0
  <2>1. Dequeued(p)
    BY <1>2 DEF Close
  <2> QED
    BY <1>2, <2>1, DequeuedCases
<1>3. CASE ~(page[p].answer > 0)
  <2> DEFINE m == Landed(page[p])
  <2>1. page' = [page EXCEPT ![p] = m] /\ UNCHANGED storage
    BY <1>1, <1>3 DEF Close
  <2>2. Alike(m, page[p])
    BY <1>1, LandedProperties DEF Alike
  <2> HIDE DEF m
  <2> QED
    BY <2>1, <2>2, QuietPage
<1> QED
  BY <1>2, <1>3

LEMMA CheckCases ==
  ASSUME NEW D, Base(D), NEW p \in Pages, Check(p)
  PROVE  \/ Quiet
         \/ \E op, m :
              /\ Persisted(p, m) /\ Committed(op) /\ op \in Ops(ToSet(page[p].queue))
              /\ Ops(ToSet(m.queue)) = Ops(ToSet(page[p].queue)) \ {op}
              /\ Ops(m.confirmed) = Ops(page[p].confirmed) \cup {op}
              /\ m.inFlight = page[p].inFlight /\ m.answer = page[p].answer
              /\ m.broken = page[p].broken /\ UNCHANGED phase
<1> DEFINE n == page[p].checked + 1
           x == page[p].queue[n]
           op == x.op
<1>1. /\ page[p] \in Memory(D) /\ page \in [Pages -> Memory(D)] /\ GoodMemory(page[p], log)
      /\ Len(page[p].queue) \in Nat /\ DOMAIN page[p].queue = 1 .. Len(page[p].queue)
      /\ page[p].checked \in Nat /\ log \in Seq(D)
  BY BaseFacts, PageFacts DEF Memory
<1>2. page[p].checked < Len(page[p].queue)
  BY DEF Check
<1>3. n \in DOMAIN page[p].queue
  BY <1>1, <1>2
<1>4. op \in Ops(ToSet(page[p].queue))
  <2>1. Ops(ToSet(page[p].queue)) = {page[p].queue[i].op : i \in DOMAIN page[p].queue}
    BY QueueOps
  <2> HIDE DEF n
  <2> QED
    BY <1>3, <2>1
<1>5. CASE page' = page /\ UNCHANGED <<tail, record, durable>>
  BY <1>5 DEF Quiet, Alike, storage
<1>6. CASE page' = [page EXCEPT ![p].checked = @ + 1] /\ UNCHANGED <<tail, record, durable>>
  <2> DEFINE m == [page[p] EXCEPT !.checked = n]
  <2>1. page' = [page EXCEPT ![p] = m] /\ UNCHANGED storage
    BY <1>1, <1>6 DEF Memory, storage
  <2>2. Alike(m, page[p])
    BY <1>1 DEF Alike, Memory
  <2> HIDE DEF m
  <2> QED
    BY <2>1, <2>2, QuietPage
<1>7. CASE /\ Committed(op) /\ UNCHANGED phase
           /\ Persisted(p, Acknowledged(Confirmed(page[p], {x}), {op}, RevisionOf(op)))
  <2> DEFINE r == RevisionOf(op)
             ops == {op}
             known == {x}
             c == Confirmed(page[p], known)
             m == Acknowledged(c, ops, r)
  <2>1. r \in Nat
    BY <1>1, <1>7, RevisionOfCommitted
  <2>2. /\ Persisted(p, m) /\ Committed(op) /\ UNCHANGED phase
        /\ ops = {op} /\ Ops(known) = {op}
        /\ IsFiniteSet(known) /\ \A o \in known : o.base \in Nat /\ Committed(o.op)
    <3>1. x \in [op : D, base : Nat, fixed : BOOLEAN]
      <4> HIDE DEF n
      <4> QED
        BY <1>1, <1>3, PageFacts
    <3>2. x.op = op /\ Persisted(p, m) /\ Committed(op) /\ UNCHANGED phase /\ ops = {op}
      BY <1>7
    <3> HIDE DEF x, op, m, ops
    <3>3. Ops(known) = {x.op}
      BY DEF Ops
    <3>4. IsFiniteSet(known)
      BY FS_Singleton
    <3>5. x.base \in Nat
      BY <3>1
    <3>6. \A o \in known : o.base \in Nat /\ Committed(o.op)
      BY <3>2, <3>5
    <3> QED
      BY ONLY <3>2, <3>3, <3>4, <3>6
  <2> HIDE DEF op, r, n, ops, known, x
  <2>3. /\ c \in Memory(D) /\ GoodMemory(c, log)
        /\ Ops(c.confirmed) = Ops(page[p].confirmed) \cup Ops(known)
        /\ c.queue = page[p].queue /\ c.answer = page[p].answer
        /\ c.inFlight = page[p].inFlight /\ c.broken = page[p].broken
    BY <1>1, <2>2, ConfirmedProperties
  <2> HIDE DEF c
  <2>5. /\ Ops(ToSet(m.queue)) = Ops(ToSet(c.queue)) \ ops /\ m.confirmed = c.confirmed
        /\ m.inFlight = c.inFlight /\ m.answer = c.answer /\ m.broken = c.broken
    <3>1. c \in Memory(D)
      BY ONLY <2>3
    <3> QED
      BY ONLY <2>1, <3>1, AcknowledgedProperties
  <2> HIDE DEF m
  <2>6. /\ Ops(ToSet(m.queue)) = Ops(ToSet(page[p].queue)) \ {op}
        /\ Ops(m.confirmed) = Ops(page[p].confirmed) \cup {op}
        /\ m.inFlight = page[p].inFlight /\ m.answer = page[p].answer
        /\ m.broken = page[p].broken
    BY <1>4, <2>2, <2>3, <2>5
  <2> QED
    BY <1>4, <2>2, <2>6
<1> QED
  <2>1. CASE Committed(op)
    BY <1>5, <1>7, <2>1 DEF Check
  <2>2. CASE ~Committed(op)
    BY <1>5, <1>6, <2>2 DEF Check
  <2> QED
    BY <2>1, <2>2

LEMMA AnswerCases ==
  ASSUME NEW D, Base(D), NEW p \in Pages, Answer(p)
  PROVE  \E m :
           LET c == [op |-> page[p].inFlight, base |-> page[p].sentBase,
                     revision |-> RevisionOf(page[p].inFlight)]
           IN  /\ Persisted(p, m) /\ UNCHANGED <<phase, saver, log>>
               /\ page[p].inFlight # None /\ Committed(page[p].inFlight)
               /\ m \in Memory(D) /\ m.confirmed = page[p].confirmed \cup {c}
               /\ Ops(m.confirmed) = Ops(page[p].confirmed) \cup {page[p].inFlight}
               /\ m.queue = page[p].queue /\ m.inFlight = page[p].inFlight
               /\ m.sentBase = page[p].sentBase
               /\ m.hydrated = page[p].hydrated /\ m.applied = page[p].applied
               /\ m.broken = page[p].broken /\ m.restarted = page[p].restarted
<1> DEFINE op == page[p].inFlight
           r == RevisionOf(op)
           e == [op |-> op, base |-> page[p].sentBase]
           known == {e}
           b == Confirmed(page[p], known)
           m == [b EXCEPT !.answer = r]
           c == [op |-> op, base |-> page[p].sentBase, revision |-> r]
<1>1. /\ page[p] \in Memory(D) /\ GoodMemory(page[p], log) /\ log \in Seq(D)
      /\ page[p].sentBase \in Nat
  BY BaseFacts, PageFacts DEF Memory
<1>2. Persisted(p, m) /\ UNCHANGED <<phase, saver, log>> /\ op # None /\ Committed(op)
  BY DEF Answer, server
<1>3. r \in Nat
  BY <1>1, <1>2, RevisionOfCommitted
<1>4. IsFiniteSet(known) /\ (\A o \in known : o.base \in Nat /\ Committed(o.op)) /\ Ops(known) = {op}
  <2>1. e.base \in Nat /\ Committed(e.op) /\ e.op = op
    BY <1>1, <1>2
  <2> HIDE DEF e, op
  <2>2. IsFiniteSet(known)
    BY FS_Singleton
  <2>3. Ops(known) = {op}
    BY <2>1 DEF Ops
  <2> QED
    BY <2>1, <2>2, <2>3
<1>5. b.confirmed = page[p].confirmed \cup {c}
  <2>1. b = [page[p] EXCEPT !.confirmed = page[p].confirmed \cup {c}]
    BY DEF Confirmed
  <2> HIDE DEF b, c
  <2> QED
    BY <1>1, <2>1 DEF Memory
<1> HIDE DEF known, r, op, c
<1>6. /\ b \in Memory(D) /\ Ops(b.confirmed) = Ops(page[p].confirmed) \cup Ops(known)
      /\ b.queue = page[p].queue /\ b.inFlight = page[p].inFlight
      /\ b.sentBase = page[p].sentBase
      /\ b.hydrated = page[p].hydrated /\ b.applied = page[p].applied
      /\ b.broken = page[p].broken /\ b.restarted = page[p].restarted
  <2>1. /\ log \in Seq(D) /\ page[p] \in Memory(D) /\ GoodMemory(page[p], log)
        /\ IsFiniteSet(known) /\ \A o \in known : o.base \in Nat /\ Committed(o.op)
    BY ONLY <1>1, <1>4
  <2>2. b = Confirmed(page[p], known)
    OBVIOUS
  <2> HIDE DEF b
  <2> QED
    BY ONLY <2>1, <2>2, ConfirmedProperties
<1> HIDE DEF b
<1>7. /\ m \in Memory(D) /\ m.confirmed = b.confirmed
      /\ m.queue = b.queue /\ m.inFlight = b.inFlight /\ m.sentBase = b.sentBase
      /\ m.hydrated = b.hydrated /\ m.applied = b.applied
      /\ m.broken = b.broken /\ m.restarted = b.restarted
  BY <1>3, <1>6 DEF Memory
<1> HIDE DEF m
<1> USE DEF op, r, c
<1>8. Ops(m.confirmed) = Ops(page[p].confirmed) \cup {page[p].inFlight}
  BY <1>4, <1>6, <1>7
<1> QED
  BY <1>2, <1>5, <1>6, <1>7, <1>8

\* The memory with which a replay that is not stopped ends.
FinishesWith(p, m) ==
  /\ Persisted(p, m) \/ /\ page' = [page EXCEPT ![p] = m] /\ UNCHANGED storage
                        /\ m.confirmed = page[p].confirmed
  /\ Ops(ToSet(m.queue)) = {op \in Ops(ToSet(page[p].queue)) : ~Committed(op)}
  /\ Ops(m.confirmed) =
       Ops(page[p].confirmed) \cup {op \in Ops(ToSet(page[p].queue)) : Committed(op)}
  /\ m.hydrated = Len(log) /\ m.applied = Ops(ToSet(m.queue))
  /\ m.inFlight = page[p].inFlight /\ m.answer = page[p].answer
  /\ m.broken = page[p].broken /\ m.restarted = page[p].restarted

LEMMA FinishCases ==
  ASSUME NEW D, Base(D), NEW p \in Pages, Finish(p)
  PROVE  \/ Quiet /\ phase' = [phase EXCEPT ![p] = "stopped"]
         \/ \E m : FinishesWith(p, m)
<1> DEFINE a == Loaded(page[p])
           ops == Ops(ToSet(a.queue))
           late == {c.revision : c \in a.confirmed \ page[p].confirmed}
           m == [a EXCEPT !.applied = ops]
<1>1. /\ page[p] \in Memory(D) /\ page \in [Pages -> Memory(D)] /\ GoodMemory(page[p], log)
      /\ log \in Seq(D)
  BY BaseFacts, PageFacts
<1>2. CASE page' = page /\ Stop(p) /\ UNCHANGED <<tail, record, durable>>
  BY <1>2 DEF Quiet, Alike, storage, Stop
<1>3. /\ a \in Memory(D)
      /\ Ops(ToSet(a.queue)) = {op \in Ops(ToSet(page[p].queue)) : ~Committed(op)}
      /\ Ops(a.confirmed) =
           Ops(page[p].confirmed) \cup {op \in Ops(ToSet(page[p].queue)) : Committed(op)}
      /\ a.hydrated = Len(log)
      /\ a.inFlight = page[p].inFlight /\ a.answer = page[p].answer
      /\ a.broken = page[p].broken /\ a.restarted = page[p].restarted
  BY <1>1, LoadedProperties
<1>4. page[p].confirmed \subseteq a.confirmed
  BY <1>1 DEF Loaded, Confirmed, Acknowledged, Memory
<1>5. late = {} => a.confirmed = page[p].confirmed
  BY <1>4
<1> HIDE DEF late
<1>6. CASE \/ Persisted(p, m)
           \/ late = {} /\ page' = [page EXCEPT ![p] = m] /\ UNCHANGED <<tail, record, durable>>
  <2> HIDE DEF a
  <2>1. /\ m.queue = a.queue /\ m.confirmed = a.confirmed /\ m.hydrated = a.hydrated
        /\ m.applied = Ops(ToSet(m.queue)) /\ m.inFlight = a.inFlight /\ m.answer = a.answer
        /\ m.broken = a.broken /\ m.restarted = a.restarted
    BY <1>3 DEF Memory
  <2> HIDE DEF m
  <2>2. Persisted(p, m) \/ /\ page' = [page EXCEPT ![p] = m] /\ UNCHANGED storage
                           /\ m.confirmed = page[p].confirmed
    BY <1>5, <1>6, <2>1 DEF storage
  <2>3. /\ Ops(ToSet(m.queue)) = {op \in Ops(ToSet(page[p].queue)) : ~Committed(op)}
        /\ Ops(m.confirmed) =
             Ops(page[p].confirmed) \cup {op \in Ops(ToSet(page[p].queue)) : Committed(op)}
        /\ m.hydrated = Len(log) /\ m.applied = Ops(ToSet(m.queue))
        /\ m.inFlight = page[p].inFlight /\ m.answer = page[p].answer
        /\ m.broken = page[p].broken /\ m.restarted = page[p].restarted
    BY <1>3, <2>1
  <2>4. FinishesWith(p, m)
    BY <2>2, <2>3 DEF FinishesWith
  <2> QED
    BY ONLY <2>4
<1> QED
  BY <1>2, <1>6 DEF Finish, late

LEMMA WritingSteps ==
  ASSUME NEW D, Base(D), NEW p \in Pages,
         \/ Close(p) \/ Discard(p) \/ CheckpointSaved(p) \/ Check(p) \/ Finish(p)
         \/ Draft(p) \/ Answer(p) \/ Acknowledge(p)
  PROVE  \/ \E m : Persisted(p, m)
         \/ /\ UNCHANGED storage
            /\ \A q \in Pages : /\ page'[q].broken = page[q].broken
                                /\ Ops(ToSet(page'[q].queue)) \subseteq Ops(ToSet(page[q].queue))
<1>1. CASE Quiet
  BY <1>1 DEF Quiet, Alike
<1>2. CASE Discard(p) \/ CheckpointSaved(p) \/ Draft(p) \/ Answer(p)
  BY <1>2 DEF Discard, CheckpointSaved, Draft, Answer
<1>7. CASE Acknowledge(p)
  <2>1. page[p].answer > 0 /\ Dequeued(p)
    BY <1>7 DEF Acknowledge
  <2> QED
    BY <1>1, <2>1, DequeuedCases
<1>3. CASE Close(p)
  BY <1>1, <1>3, CloseCases
<1>4. CASE Check(p)
  <2>1. Quiet \/ \E m : Persisted(p, m)
    BY <1>4, CheckCases
  <2> QED
    BY <1>1, <2>1
<1>5. ASSUME Finish(p), ~Quiet, NEW m, page' = [page EXCEPT ![p] = m], UNCHANGED storage,
             Ops(ToSet(m.queue)) = {op \in Ops(ToSet(page[p].queue)) : ~Committed(op)},
             m.broken = page[p].broken
      PROVE  \A q \in Pages : /\ page'[q].broken = page[q].broken
                              /\ Ops(ToSet(page'[q].queue)) \subseteq Ops(ToSet(page[q].queue))
  <2>1. page \in [Pages -> Memory(D)]
    BY BaseFacts
  <2>2. Ops(ToSet(m.queue)) \subseteq Ops(ToSet(page[p].queue))
    BY <1>5
  <2> QED
    BY <1>5, <2>1, <2>2
<1>6. CASE Finish(p)
  <2>1. CASE Quiet
    BY ONLY <1>1, <2>1
  <2>2. CASE ~Quiet
    <3>1. PICK m : FinishesWith(p, m)
      BY ONLY Base(D), p \in Pages, <1>6, <2>2, FinishCases
    <3>2. CASE Persisted(p, m)
      BY ONLY <3>2
    <3>3. CASE page' = [page EXCEPT ![p] = m] /\ UNCHANGED storage
      BY ONLY <1>5, <1>6, <2>2, <3>1, <3>3 DEF FinishesWith
    <3> QED
      BY ONLY <3>1, <3>2, <3>3 DEF FinishesWith
  <2> QED
    BY ONLY <2>1, <2>2
<1> QED
  BY <1>2, <1>3, <1>4, <1>6, <1>7

LEMMA WriteKeepsJournal ==
  ASSUME NEW D, Base(D), NEW p \in Pages, Write(p), \A q \in Pages : Journalled(q)
  PROVE  \A q \in Pages : Journalled(q)'
<1> DEFINE t == tail[p]
           S == SUBSET Written(D)
<1>1. t \in Seq(S) /\ t # <<>> /\ tail \in [Pages -> Seq(S)] /\ record \in [Pages -> S]
  BY BaseFacts DEF Write
<1>2. /\ record' = [record EXCEPT ![p] = Head(t)] /\ tail' = [tail EXCEPT ![p] = Tail(t)]
      /\ durable' = durable \cup Ops(Head(t)) /\ page' = page
  BY DEF Write
<1> HIDE DEF t, S
<1>3. /\ Len(t) \in Nat /\ DOMAIN t = 1 .. Len(t) /\ Head(t) = t[1]
      /\ DOMAIN Tail(t) = 1 .. Len(t) - 1
      /\ \A i \in 1 .. Len(t) - 1 : Tail(t)[i] = t[i + 1]
  <2>1. Tail(t) \in Seq(S) /\ Len(Tail(t)) = Len(t) - 1 /\ Head(t) = t[1]
        /\ \A i \in 1 .. Len(Tail(t)) : Tail(t)[i] = t[i + 1]
    BY <1>1, HeadTailProperties
  <2>2. DOMAIN Tail(t) = 1 .. Len(Tail(t)) /\ Len(t) \in Nat /\ DOMAIN t = 1 .. Len(t)
    BY <1>1, <2>1, LenProperties
  <2> QED
    BY <2>1, <2>2
<1>4. tail'[p] = Tail(t) /\ record'[p] = Head(t)
  BY <1>1, <1>2
<1>5. ASSUME NEW q \in Pages, q # p PROVE Journalled(q)'
  <2>1. tail'[q] = tail[q] /\ record'[q] = record[q] /\ durable \subseteq durable'
    BY <1>1, <1>2, <1>5
  <2>2. Journalled(q)
    OBVIOUS
  <2> QED
    BY <1>2, <2>1, <2>2 DEF Journalled
<1>6. ASSUME ~page[p].broken, NEW op \in Ops(ToSet(page[p].queue)), op \notin durable'
      PROVE  \E i \in DOMAIN tail'[p] : op \in Ops(tail'[p][i])
  <2>1. Journalled(p)
    OBVIOUS
  <2>2. PICK k \in DOMAIN t : op \in Ops(t[k])
    BY <1>2, <1>6, <2>1 DEF Journalled, t
  <2>3. k # 1
    BY <1>2, <1>3, <1>6, <2>2
  <2>4. k - 1 \in 1 .. Len(t) - 1 /\ (k - 1) + 1 = k
    BY <1>3, <2>2, <2>3
  <2>5. Tail(t)[k - 1] = t[k]
    BY <1>3, <2>4
  <2> QED
    BY <1>3, <1>4, <2>2, <2>4, <2>5
<1>7. Journalled(p)'
  BY <1>2, <1>4, <1>6 DEF Journalled
<1> QED
  BY <1>5, <1>7

\* A page that loses its writes loses its queue with them, or writes no more.
LEMMA LosingKeepsJournal ==
  ASSUME NEW D, Base(D), NEW p \in Pages, WriteFails(p) \/ Crash(p) \/ Purge(p),
         \A q \in Pages : Journalled(q)
  PROVE  \A q \in Pages : Journalled(q)'
<1>1. /\ page \in [Pages -> Memory(D)] /\ record \in [Pages -> SUBSET Written(D)]
      /\ tail \in [Pages -> Seq(SUBSET Written(D))]
  BY BaseFacts
<1>2. /\ durable' = durable
      /\ \A q \in Pages : q # p => page'[q] = page[q] /\ tail'[q] = tail[q]
      /\ \A q \in Pages : record'[q] \in {record[q], {}}
  BY <1>1 DEF WriteFails, Crash, Purge
<1>3. page'[p].broken \/ Ops(ToSet(page'[p].queue)) = {}
  <2>1. CASE WriteFails(p)
    <3>1. page' = [page EXCEPT ![p] = [page[p] EXCEPT !.broken = TRUE]] /\ page[p] \in Memory(D)
      BY <1>1, <2>1 DEF WriteFails
    <3> QED
      BY <1>1, <3>1 DEF Memory
  <2>2. ASSUME page'[p].queue = <<>> PROVE Ops(ToSet(page'[p].queue)) = {}
    BY <2>2 DEF Ops, ToSet
  <2>3. CASE Crash(p)
    <3>1. page'[p] = [Empty EXCEPT !.restarted = page[p].restarted]
      BY <1>1, <2>3 DEF Crash
    <3>2. page'[p].queue = <<>>
      BY <3>1 DEF Empty
    <3> QED
      BY <2>2, <3>2
  <2>4. CASE Purge(p)
    <3>1. page'[p] = [page[p] EXCEPT !.queue = <<>>, !.confirmed = {}] /\ page[p] \in Memory(D)
      BY <1>1, <2>4 DEF Purge
    <3>2. page'[p].queue = <<>>
      BY <3>1 DEF Memory
    <3> QED
      BY <2>2, <3>2
  <2> QED
    BY <2>1, <2>3, <2>4
<1>4. \A q \in Pages : Ops(record'[q]) \subseteq durable
  <2>1. \A q \in Pages : Ops(record[q]) \subseteq durable
    BY DEF Journalled
  <2> QED
    BY <1>2, <2>1 DEF Ops
<1>5. ASSUME NEW q \in Pages PROVE Journalled(q)'
  <2>1. Journalled(q)
    OBVIOUS
  <2>2. CASE q = p
    BY <1>2, <1>3, <1>4, <2>2 DEF Journalled
  <2>3. CASE q # p
    BY <1>2, <1>4, <2>1, <2>3 DEF Journalled
  <2> QED
    BY <2>2, <2>3
<1> QED
  BY <1>5
\* What a page that starts holds: the entries of the records it takes over, or
\* nothing when they are not disjoint.
Took(p, m, entries) ==
  /\ page' = [page EXCEPT ![p] = m] /\ tail' = tail /\ durable' = durable
  /\ Ops(ToSet(m.queue)) = Ops(entries) /\ m.confirmed = page[p].confirmed
  /\ m.broken = page[p].broken /\ m.inFlight = None /\ m.answer = 0
  /\ \A i \in DOMAIN m.queue : m.queue[i].fixed
  /\ SequencesDiffer(entries) =>
       \A i, j \in DOMAIN m.queue : m.queue[i].op = m.queue[j].op => i = j

LEMMA OpenCases ==
  ASSUME NEW D, Base(D), NEW p \in Pages, Open(p)
  PROVE  /\ phase[p] \in {"new", "closed"} /\ tail[p] = <<>>
         /\ UNCHANGED <<log, saved, dropped, sent>> /\ saver' = [saver EXCEPT ![p] = Idle]
         /\ \E m, entries :
              /\ Took(p, m, entries) /\ m.restarted = (phase[p] = "closed")
              /\ \/ /\ entries = UNION {record[q] : q \in Claimed(p)}
                    /\ record' = Retired(p, Claimed(p), entries)
                    /\ \A q, r \in Claimed(p) : q # r => Ops(record[q]) \cap Ops(record[r]) = {}
                    /\ phase' = [phase EXCEPT ![p] =
                         IF SequencesDiffer(entries) THEN "checking" ELSE "stopped"]
                 \/ /\ entries = {} /\ record' = record
                    /\ phase' = [phase EXCEPT ![p] = "stopped"]
<1>1. phase[p] \in {"new", "closed"}
  BY DEF Open
<1>2. tail[p] = <<>>
  BY <1>1, PageFacts DEF GoodPhase, Owned
<1>3. UNCHANGED <<log, saved, dropped, sent>> /\ saver' = [saver EXCEPT ![p] = Idle]
  BY DEF Open, Opened, server, history
<1>4. ASSUME NEW entries \in SUBSET Written(D), IsFiniteSet(entries), Opened(p, entries)
      PROVE  \E m : Took(p, m, entries) /\ m.restarted = (phase[p] = "closed")
  <2>1. PICK h \in 0 .. Len(log), s \in Sorted(entries) :
          page' = [page EXCEPT ![p] = OpenedMemory(p, entries, h, s)]
    BY <1>4 DEF Opened, OpenedMemory
  <2>2. tail' = tail /\ durable' = durable
    BY <1>4 DEF Opened
  <2>3. PICK m : m = OpenedMemory(p, entries, h, s)
    OBVIOUS
  <2>4. /\ m.queue = Restored(s) /\ m.confirmed = page[p].confirmed
        /\ m.broken = page[p].broken /\ m.inFlight = None /\ m.answer = 0
    BY <1>1, <1>4, <2>3, OpenedProperties
  <2>5. Ops(ToSet(m.queue)) = Ops(entries)
    BY <1>4, <2>4, RestoredProperties
  <2>6. m.restarted = (phase[p] = "closed")
    BY <2>3 DEF OpenedMemory, Empty
  <2>7. page' = [page EXCEPT ![p] = m]
    BY <2>1, <2>3
  <2>8. \A i \in DOMAIN m.queue : m.queue[i].fixed
    BY <2>4 DEF Restored
  <2>9. SequencesDiffer(entries) =>
          \A i, j \in DOMAIN m.queue : m.queue[i].op = m.queue[j].op => i = j
    BY <1>4, <2>4, RestoredProperties
  <2> QED
    BY <2>2, <2>4, <2>5, <2>6, <2>7, <2>8, <2>9 DEF Took
<1> DEFINE merged == UNION {record[q] : q \in Claimed(p)}
<1>5. merged \in SUBSET Written(D) /\ IsFiniteSet(merged)
  BY ClaimedRecords
<1>6. {} \in SUBSET Written(D) /\ IsFiniteSet({})
  BY FS_EmptySet
<1>7. \/ /\ Opened(p, merged) /\ record' = Retired(p, Claimed(p), merged)
         /\ \A q, r \in Claimed(p) : q # r => Ops(record[q]) \cap Ops(record[r]) = {}
         /\ phase' = [phase EXCEPT ![p] = IF SequencesDiffer(merged) THEN "checking" ELSE "stopped"]
      \/ Opened(p, {}) /\ record' = record /\ phase' = [phase EXCEPT ![p] = "stopped"]
  BY DEF Open, Stop
<1> HIDE DEF merged
<1>8. \E m, entries :
        /\ Took(p, m, entries) /\ m.restarted = (phase[p] = "closed")
        /\ \/ /\ entries = merged
              /\ record' = Retired(p, Claimed(p), entries)
              /\ \A q, r \in Claimed(p) : q # r => Ops(record[q]) \cap Ops(record[r]) = {}
              /\ phase' = [phase EXCEPT ![p] =
                   IF SequencesDiffer(entries) THEN "checking" ELSE "stopped"]
           \/ /\ entries = {} /\ record' = record
              /\ phase' = [phase EXCEPT ![p] = "stopped"]
  <2>1. CASE /\ Opened(p, merged) /\ record' = Retired(p, Claimed(p), merged)
             /\ \A q, r \in Claimed(p) : q # r => Ops(record[q]) \cap Ops(record[r]) = {}
             /\ phase' = [phase EXCEPT ![p] = IF SequencesDiffer(merged) THEN "checking" ELSE "stopped"]
    <3>1. PICK m : Took(p, m, merged) /\ m.restarted = (phase[p] = "closed")
      BY <1>4, <1>5, <2>1
    <3> QED
      BY <2>1, <3>1
  <2>2. CASE Opened(p, {}) /\ record' = record /\ phase' = [phase EXCEPT ![p] = "stopped"]
    <3>1. PICK m : Took(p, m, {}) /\ m.restarted = (phase[p] = "closed")
      BY <1>4, <1>6, <2>2
    <3> QED
      BY <2>2, <3>1
  <2> QED
    BY <1>7, <2>1, <2>2
<1> QED
  BY <1>1, <1>2, <1>3, <1>8 DEF merged

LEMMA OpeningKeepsJournal ==
  ASSUME NEW D, Base(D), NEW p \in Pages, Open(p), \A q \in Pages : Journalled(q)
  PROVE  \A q \in Pages : Journalled(q)'
<1>1. /\ page \in [Pages -> Memory(D)] /\ record \in [Pages -> SUBSET Written(D)]
      /\ \A q \in Pages : Ops(record[q]) \subseteq durable
  BY BaseFacts DEF Journalled
<1>2. PICK m, entries :
        /\ Took(p, m, entries)
        /\ \/ /\ entries = UNION {record[q] : q \in Claimed(p)}
              /\ record' = Retired(p, Claimed(p), entries)
           \/ entries = {} /\ record' = record
  BY OpenCases
<1>3. Ops(entries) \subseteq durable
  <2>1. ASSUME NEW op \in Ops(UNION {record[q] : q \in Claimed(p)}) PROVE op \in durable
    <3>1. PICK q \in Claimed(p) : op \in Ops(record[q])
      BY <2>1 DEF Ops
    <3> QED
      BY <1>1, <3>1 DEF Claimed
  <2>2. Ops({}) = {}
    BY DEF Ops
  <2> QED
    BY <1>2, <2>1, <2>2
<1>4. \A q \in Pages : record'[q] \in {record[q], {}, entries}
  BY <1>2 DEF Retired
<1>5. \A q \in Pages : Ops(record'[q]) \subseteq durable'
  <2>1. Ops({}) = {} /\ durable' = durable
    BY <1>2 DEF Ops, Took
  <2> QED
    BY <1>1, <1>3, <1>4, <2>1
<1>6. ASSUME NEW q \in Pages PROVE Journalled(q)'
  <2>1. Journalled(q) /\ tail' = tail /\ durable' = durable
    BY <1>2 DEF Took
  <2>2. CASE q = p
    <3>1. Ops(ToSet(page'[p].queue)) \subseteq durable
      BY <1>1, <1>2, <1>3 DEF Took
    <3> QED
      BY <1>5, <2>1, <2>2, <3>1 DEF Journalled
  <2>3. CASE q # p
    <3>1. page'[q] = page[q]
      BY <1>1, <1>2, <2>3 DEF Took
    <3> QED
      BY <1>5, <2>1, <3>1 DEF Journalled
  <2> QED
    BY <2>2, <2>3
<1> QED
  BY <1>6

JournalInv == (\A p \in Pages : Journalled(p)) /\ sent \subseteq durable

LEMMA PageStepsKeepJournal ==
  ASSUME NEW D, Base(D), IInv', NEW p \in Pages, JournalInv,
         \/ Open(p) \/ Close(p) \/ Release(p) \/ Crash(p) \/ Discard(p) \/ Purge(p)
         \/ Write(p) \/ WriteFails(p)
         \/ TimerFires(p) \/ Save(p) \/ CheckpointSaved(p) \/ Covered(p)
         \/ CheckpointFails(p) \/ CoverFails(p)
         \/ Check(p) \/ Finish(p) \/ Draft(p) \/ Send(p) \/ Answer(p) \/ Acknowledge(p) \/ Fails(p)
  PROVE  JournalInv'
<1>1. PICK E : Base(E)'
  BY DEF IInv
<1>2. /\ \A q \in Pages : Journalled(q)
      /\ sent \subseteq durable
  BY DEF JournalInv
<1>3. ASSUME NEW m, Persisted(p, m)
      PROVE  \A q \in Pages : Journalled(q)'
  BY <1>1, <1>2, <1>3, WritingKeepsJournal
<1>4. ASSUME UNCHANGED storage,
             \A q \in Pages : /\ page'[q].broken = page[q].broken
                             /\ Ops(ToSet(page'[q].queue)) \subseteq Ops(ToSet(page[q].queue))
      PROVE  \A q \in Pages : Journalled(q)'
  BY <1>2, <1>4, QuietKeepsJournal DEF storage
<1>5. \A q \in Pages : Journalled(q)'
  <2>1. CASE \/ Close(p) \/ Discard(p) \/ CheckpointSaved(p) \/ Check(p) \/ Finish(p)
             \/ Draft(p) \/ Answer(p) \/ Acknowledge(p)
    BY <1>3, <1>4, <2>1, WritingSteps
  <2>2. CASE Quiet
    BY <1>4, <2>2 DEF Quiet, Alike
  <2>3. CASE \/ Release(p) \/ TimerFires(p) \/ Save(p) \/ Covered(p) \/ CheckpointFails(p)
             \/ CoverFails(p) \/ Send(p) \/ Fails(p)
    BY <2>2, <2>3, QuietSteps
  <2>4. CASE Open(p) \/ Write(p) \/ WriteFails(p) \/ Crash(p) \/ Purge(p)
    BY <1>2, <2>4, OpeningKeepsJournal, WriteKeepsJournal, LosingKeepsJournal
  <2> QED
    BY <2>1, <2>2, <2>3, <2>4
<1>6. sent' \subseteq durable'
  <2>1. CASE Send(p)
    <3>1. /\ page[p].queue # <<>> /\ tail[p] = <<>> /\ ~page[p].broken
          /\ sent' = sent \cup {page[p].queue[1].op} /\ durable' = durable
      BY <2>1 DEF Send, Flushed, storage
    <3>2. page[p].queue[1].op \in Ops(ToSet(page[p].queue))
      <4>1. Len(page[p].queue) > 0 /\ 1 \in DOMAIN page[p].queue
        <5>1. page[p].queue \in Seq([op : D, base : Nat, fixed : BOOLEAN])
          BY PageFacts
        <5>2. Len(page[p].queue) \in Nat /\ DOMAIN page[p].queue = 1 .. Len(page[p].queue)
          BY PageFacts
        <5>3. Len(page[p].queue) # 0
          BY <3>1, <5>1, EmptySeq
        <5> QED
          BY <5>2, <5>3
      <4> QED
        BY <4>1 DEF Ops, ToSet
    <3>3. Journalled(p)
      BY <1>2
    <3>4. page[p].queue[1].op \in durable
      BY <3>1, <3>2, <3>3 DEF Journalled
    <3> QED
      BY <1>2, <3>1, <3>4
  <2>2. CASE /\ ~Send(p)
             /\ Open(p) \/ Close(p) \/ Release(p) \/ Crash(p) \/ Discard(p) \/ Purge(p) \/ Fails(p)
    <3>1. sent' = sent /\ durable' = durable
      BY <2>2 DEF Open, Opened, Close, Dequeued, Release, Crash, Discard, Purge, Fails, Persisted, storage, history
    <3> QED
      BY <1>2, <3>1
  <2>3. CASE \/ Write(p) \/ WriteFails(p) \/ TimerFires(p) \/ Save(p) \/ CheckpointSaved(p)
             \/ Covered(p) \/ CheckpointFails(p) \/ CoverFails(p)
    <3>1. sent' = sent /\ durable \subseteq durable'
      BY <2>3 DEF Write, WriteFails, TimerFires, Save, StartFlush, CheckpointSaved, Covered,
                  CheckpointFails, CoverFails, Failed, Persisted, storage, history
    <3> QED
      BY <1>2, <3>1
  <2>4. CASE Check(p) \/ Finish(p) \/ Draft(p) \/ Answer(p) \/ Acknowledge(p)
    <3>1. sent' = sent /\ durable' = durable
      BY <2>4 DEF Check, Finish, Draft, Answer, Acknowledge, Dequeued, Persisted, storage, history
    <3> QED
      BY <1>2, <3>1
  <2> QED
    BY <2>1, <2>2, <2>3, <2>4
<1> QED
  BY <1>5, <1>6 DEF JournalInv
\* The server, and a step that changes nothing.
LEMMA ServerSteps ==
  ASSUME NEW D, Base(D), (\E op \in network : Handle(op) \/ Refuse(op)) \/ UNCHANGED vars
  PROVE  /\ UNCHANGED <<storage, phase, page, saver, saved, sent, dropped>>
         /\ Len(log') \in Nat /\ Len(log) <= Len(log') /\ DOMAIN log' = 1 .. Len(log')
         /\ \A k \in 1 .. Len(log) : log'[k] = log[k]
<1>1. log \in Seq(D) /\ Len(log) \in Nat /\ DOMAIN log = 1 .. Len(log)
  BY BaseFacts
<1>2. UNCHANGED <<storage, phase, page, saver, saved, sent, dropped>>
  BY DEF Handle, Refuse, vars, server, storage, history
<1>3. \/ log' = log
      \/ \E op \in network : log' = Append(log, op)
  BY DEF Handle, Refuse, vars, server
<1>4. ASSUME NEW op \in network, log' = Append(log, op)
      PROVE  /\ Len(log') \in Nat /\ Len(log) <= Len(log') /\ DOMAIN log' = 1 .. Len(log')
             /\ \A k \in 1 .. Len(log) : log'[k] = log[k]
  <2>1. op \in D
    BY BaseFacts
  <2>2. log' \in Seq(D) /\ Len(log') = Len(log) + 1 /\ \A k \in 1 .. Len(log) : log'[k] = log[k]
    BY <1>1, <1>4, <2>1, AppendProperties
  <2>3. DOMAIN log' = 1 .. Len(log')
    BY <2>2, LenProperties
  <2> QED
    BY <1>1, <2>2, <2>3
<1>5. CASE log' = log
  BY <1>1, <1>2, <1>5
<1> QED
  BY <1>2, <1>3, <1>4, <1>5

LEMMA StepsKeepJournal ==
  ASSUME IInv, IInv', JournalInv, [Next]_vars
  PROVE  JournalInv'
<1> PICK D \in SUBSET Op : Base(D)
  BY DEF IInv
<1>1. ASSUME NEW p \in Pages,
             \/ Open(p) \/ Close(p) \/ Release(p) \/ Crash(p) \/ Discard(p) \/ Purge(p)
             \/ Write(p) \/ WriteFails(p)
             \/ TimerFires(p) \/ Save(p) \/ CheckpointSaved(p) \/ Covered(p)
             \/ CheckpointFails(p) \/ CoverFails(p)
             \/ Check(p) \/ Finish(p) \/ Draft(p) \/ Send(p) \/ Answer(p) \/ Acknowledge(p)
             \/ Fails(p)
      PROVE  JournalInv'
  BY <1>1, PageStepsKeepJournal
<1>2. CASE (\E op \in network : Handle(op) \/ Refuse(op)) \/ UNCHANGED vars
  <2>1. UNCHANGED <<storage, phase, page, saver, saved, sent, dropped>>
    BY <1>2, ServerSteps
  <2> QED
    BY <2>1 DEF JournalInv, Journalled, storage
<1> QED
  BY <1>1, <1>2 DEF Next

\* What a page sends is in the journal: an entry of its queue is in its record,
\* or among the writes that the page waits for before it sends.
THEOREM SendingWaitsForTheJournal == Spec => []SentWasDurable
<1>1. Init => JournalInv
  BY DEF Init, JournalInv, Journalled, Empty, Ops, ToSet
<1>2. IInv /\ IInv' /\ JournalInv /\ [Next]_vars => JournalInv'
  BY StepsKeepJournal
<1>3. JournalInv => SentWasDurable
  BY DEF JournalInv, SentWasDurable
<1> QED
  BY <1>1, <1>2, <1>3, InvariantHolds, PTL DEF Spec
-----------------------------------------------------------------------------
(* What a purge removed stays away. *)

\* The operations in the record of a page, on the way there, or in its queue.
Here(p) ==
  Ops(record[p]) \cup (UNION {Ops(tail[p][i]) : i \in DOMAIN tail[p]})
    \cup (IF Active(p) THEN Ops(ToSet(page[p].queue)) ELSE {})

PurgeInv ==
  /\ purged \subseteq Op /\ drafts \in Nat
  /\ \A op \in purged : op.id <= drafts
  /\ \A op \in purged : Committed(op) \/ \A p \in Pages : op \notin Here(p)

\* Where an operation comes to: it is committed, was somewhere, or is a new draft.
Comes ==
  \A q \in Pages : \A op \in Here(q)' :
    Committed(op) \/ op.id > drafts \/ \E r \in Pages : op \in Here(r)

LEMMA ComingKeepsAway ==
  ASSUME PurgeInv, Comes, purged' = purged, drafts' \in Nat, drafts <= drafts',
         \A op : Committed(op) => Committed(op)'
  PROVE  PurgeInv'
<1>1. \A op \in purged : op.id <= drafts'
  <2>1. ASSUME NEW op \in purged PROVE op.id <= drafts'
    <3>1. op.id \in Nat /\ op.id <= drafts /\ drafts \in Nat
      BY DEF PurgeInv, Op
    <3> QED
      BY <3>1
  <2> QED
    BY <2>1
<1>2. ASSUME NEW op \in purged, ~Committed(op)', NEW q \in Pages PROVE op \notin Here(q)'
  <2>1. ~Committed(op) /\ \A r \in Pages : op \notin Here(r)
    BY <1>2 DEF PurgeInv
  <2>2. ~(op.id > drafts)
    <3>1. op.id \in Nat /\ op.id <= drafts /\ drafts \in Nat
      BY DEF PurgeInv, Op
    <3> QED
      BY <3>1
  <2> QED
    BY <2>1, <2>2 DEF Comes
<1>3. purged' \subseteq Op /\ drafts' \in Nat
  BY DEF PurgeInv
<1>4. \A op \in purged' : op.id <= drafts'
  BY <1>1
<1>5. \A op \in purged' : Committed(op)' \/ \A q \in Pages : op \notin Here(q)'
  BY <1>2
<1> QED
  BY <1>3, <1>4, <1>5 DEF PurgeInv

\* The queues of the active pages lose operations at most.
LEMMA LessComes ==
  ASSUME UNCHANGED <<record, tail>>,
         \A q \in Pages : Active(q)' =>
           Active(q) /\ Ops(ToSet(page'[q].queue)) \subseteq Ops(ToSet(page[q].queue))
  PROVE  Comes
<1>1. ASSUME NEW q \in Pages PROVE Here(q)' \subseteq Here(q)
  BY DEF Here
<1> QED
  BY <1>1 DEF Comes

\* A page that is at work writes what it has: its queue, and what is committed.
LEMMA PersistedComes ==
  ASSUME NEW D, Base(D), NEW E, Base(E)', NEW p \in Pages, NEW m, Persisted(p, m),
         log' = log, Active(p), \A q \in Pages : q # p => phase'[q] = phase[q],
         \A op \in Ops(ToSet(m.queue)) : op \in Ops(ToSet(page[p].queue)) \/ op.id > drafts
  PROVE  Comes
<1>1. /\ page'[p] = m /\ record' = record
      /\ \A q \in Pages : q # p => page'[q] = page[q] /\ tail'[q] = tail[q]
      /\ m.broken => tail' = tail
      /\ ~m.broken =>
           /\ DOMAIN tail[p] = 1 .. Len(tail[p]) /\ Len(tail[p]) \in Nat
           /\ DOMAIN tail'[p] = 1 .. Len(tail[p]) + 1
           /\ \A i \in 1 .. Len(tail[p]) : tail'[p][i] = tail[p][i]
           /\ Ops(tail'[p][Len(tail[p]) + 1]) = Held(m)
  BY ONLY Base(D), Base(E)', p \in Pages, Persisted(p, m), WrittenTail
<1>2. ASSUME NEW op \in Ops(m.confirmed) PROVE Committed(op)
  <2>1. GoodMemory(m, log) /\ log \in Seq(E)
    <3>1. GoodMemory(page'[p], log') /\ log' \in Seq(E)
      BY DEF Base, Typed, GoodPage
    <3> QED
      BY <1>1, <3>1
  <2> QED
    BY <2>1, LenProperties DEF GoodMemory, Committed, Ops
<1>3. Ops(ToSet(page[p].queue)) \subseteq Here(p) /\ Ops(record[p]) \subseteq Here(p)
  BY DEF Here
<1>4. ASSUME NEW op \in Held(m) PROVE Committed(op) \/ op.id > drafts \/ op \in Here(p)
  BY <1>2, <1>3 DEF Held
<1>5. ASSUME NEW i \in DOMAIN tail'[p], NEW op \in Ops(tail'[p][i])
      PROVE  Committed(op) \/ op.id > drafts \/ op \in Here(p)
  <2>1. CASE tail'[p] = tail[p]
    BY <1>5, <2>1 DEF Here
  <2>2. CASE ~m.broken
    <3>1. i \in 1 .. Len(tail[p]) \/ i = Len(tail[p]) + 1
      BY <1>1, <2>2
    <3>2. CASE i \in 1 .. Len(tail[p])
      BY <1>1, <1>5, <2>2, <3>2 DEF Here
    <3>3. CASE i = Len(tail[p]) + 1
      <4>1. op \in Held(m)
        BY <1>1, <1>5, <2>2, <3>3
      <4> QED
        BY <1>4, <4>1
    <3> QED
      BY <3>1, <3>2, <3>3
  <2> QED
    BY <1>1, <2>1, <2>2
<1>6. ASSUME NEW op \in Here(p)' PROVE Committed(op) \/ op.id > drafts \/ op \in Here(p)
  <2>1. \/ op \in Ops(record'[p]) \/ op \in Ops(ToSet(page'[p].queue))
        \/ \E i \in DOMAIN tail'[p] : op \in Ops(tail'[p][i])
    BY <1>6 DEF Here
  <2>2. op \in Ops(ToSet(m.queue)) => op \in Held(m)
    BY DEF Held
  <2> QED
    BY <1>1, <1>3, <1>4, <1>5, <2>1, <2>2
<1>7. ASSUME NEW q \in Pages, q # p PROVE Here(q)' = Here(q)
  <2>1. /\ record'[q] = record[q] /\ tail'[q] = tail[q] /\ page'[q] = page[q]
        /\ Active(q)' = Active(q)
    BY <1>1, <1>7 DEF Active
  <2> QED
    BY <2>1 DEF Here
<1> QED
  BY <1>6, <1>7 DEF Comes

LEMMA WriteComes ==
  ASSUME NEW D, Base(D), NEW p \in Pages, Write(p)
  PROVE  Comes
<1> DEFINE t == tail[p]
           S == SUBSET Written(D)
<1>1. /\ t \in Seq(S) /\ t # <<>> /\ tail \in [Pages -> Seq(S)] /\ record \in [Pages -> S]
  BY BaseFacts DEF Write
<1>2. /\ record' = [record EXCEPT ![p] = Head(t)] /\ tail' = [tail EXCEPT ![p] = Tail(t)]
      /\ page' = page /\ phase' = phase
  BY DEF Write
<1> HIDE DEF t, S
<1>3. /\ Head(t) = t[1] /\ 1 \in DOMAIN t
      /\ \A i \in DOMAIN Tail(t) : i + 1 \in DOMAIN t /\ Tail(t)[i] = t[i + 1]
  <2>1. Tail(t) \in Seq(S) /\ Len(Tail(t)) = Len(t) - 1 /\ Head(t) = t[1]
        /\ \A i \in 1 .. Len(Tail(t)) : Tail(t)[i] = t[i + 1]
    BY <1>1, HeadTailProperties
  <2>2. DOMAIN Tail(t) = 1 .. Len(Tail(t)) /\ Len(t) \in Nat /\ DOMAIN t = 1 .. Len(t) /\ Len(t) # 0
    BY <1>1, <2>1, LenProperties, EmptySeq
  <2> QED
    BY <2>1, <2>2
<1>4. tail'[p] = Tail(t) /\ record'[p] = t[1]
  BY <1>1, <1>2, <1>3
<1>5. \A q \in Pages : Active(q)' = Active(q) /\ page'[q] = page[q]
  BY <1>2 DEF Active
<1>6. Here(p)' \subseteq Here(p)
  <2>1. \A j \in DOMAIN t : Ops(t[j]) \subseteq Here(p)
    BY DEF Here, t
  <2>2. Ops(record'[p]) \subseteq Here(p)
    BY <1>3, <1>4, <2>1
  <2>3. \A i \in DOMAIN tail'[p] : Ops(tail'[p][i]) \subseteq Here(p)
    BY <1>3, <1>4, <2>1
  <2>4. Active(p) => Ops(ToSet(page[p].queue)) \subseteq Here(p)
    BY DEF Here
  <2> QED
    BY <1>5, <2>2, <2>3, <2>4 DEF Here
<1>7. ASSUME NEW q \in Pages, q # p PROVE Here(q)' = Here(q)
  <2>1. record'[q] = record[q] /\ tail'[q] = tail[q]
    BY <1>1, <1>2, <1>7
  <2> QED
    BY <1>5, <2>1 DEF Here
<1> QED
  BY <1>6, <1>7 DEF Comes

LEMMA LosingComes ==
  ASSUME NEW D, Base(D), NEW p \in Pages, WriteFails(p) \/ Crash(p)
  PROVE  Comes
<1>1. /\ page \in [Pages -> Memory(D)] /\ phase \in [Pages -> Phases] /\ page[p] \in Memory(D)
      /\ tail \in [Pages -> Seq(SUBSET Written(D))]
  BY BaseFacts
<1>2. record' = record /\ tail' = [tail EXCEPT ![p] = <<>>]
  BY DEF WriteFails, Crash
<1>3. DOMAIN tail'[p] = {} /\ \A q \in Pages : q # p => tail'[q] = tail[q]
  BY <1>1, <1>2
<1>4. ASSUME NEW q \in Pages, Active(q)'
      PROVE  Active(q) /\ page'[q].queue = page[q].queue
  <2>1. CASE WriteFails(p)
    <3>1. phase' = phase /\ page' = [page EXCEPT ![p] = [page[p] EXCEPT !.broken = TRUE]]
      BY <1>1, <2>1 DEF WriteFails
    <3>2. [page[p] EXCEPT !.broken = TRUE].queue = page[p].queue
      BY <1>1 DEF Memory
    <3> QED
      BY <1>1, <1>4, <3>1, <3>2 DEF Active
  <2>2. CASE Crash(p)
    <3>1. phase'[p] = "crashed" /\ \A r \in Pages : r # p => phase'[r] = phase[r] /\ page'[r] = page[r]
      BY <1>1, <2>2 DEF Crash
    <3> QED
      BY <1>4, <3>1 DEF Active
  <2> QED
    BY <2>1, <2>2
<1>5. ASSUME NEW q \in Pages PROVE Here(q)' \subseteq Here(q)
  BY <1>2, <1>3, <1>4 DEF Here
<1> QED
  BY <1>5 DEF Comes

LEMMA OpenComes ==
  ASSUME NEW D, Base(D), NEW p \in Pages, Open(p)
  PROVE  Comes
<1>1. page \in [Pages -> Memory(D)] /\ phase \in [Pages -> Phases] /\ Claimed(p) \subseteq Pages
  BY BaseFacts DEF Claimed
<1>2. PICK m, entries :
        /\ Took(p, m, entries)
        /\ \/ /\ entries = UNION {record[q] : q \in Claimed(p)}
              /\ record' = Retired(p, Claimed(p), entries)
           \/ entries = {} /\ record' = record
  BY OpenCases
<1>3. \A q \in Pages : q # p => phase'[q] = phase[q]
  <2>1. \E f : phase' = [phase EXCEPT ![p] = f]
    BY OpenCases
  <2> QED
    BY <1>1, <2>1
<1>4. /\ tail' = tail /\ Ops(ToSet(page'[p].queue)) = Ops(entries)
      /\ \A q \in Pages : q # p => page'[q] = page[q]
  BY <1>1, <1>2 DEF Took
<1>5. ASSUME NEW op \in Ops(entries) PROVE \E r \in Pages : op \in Here(r)
  <2>1. Ops({}) = {}
    BY DEF Ops
  <2>2. PICK q \in Claimed(p) : op \in Ops(record[q])
    BY <1>2, <2>1 DEF Ops
  <2> QED
    BY <1>1, <2>2 DEF Here
<1>6. ASSUME NEW q \in Pages, NEW op \in Ops(record'[q]) PROVE \E r \in Pages : op \in Here(r)
  <2>1. record'[q] \in {record[q], {}, entries}
    BY <1>2 DEF Retired
  <2>2. Ops({}) = {} /\ Ops(record[q]) \subseteq Here(q)
    BY DEF Ops, Here
  <2> QED
    BY <1>5, <2>1, <2>2
<1>7. ASSUME NEW q \in Pages, NEW op \in Here(q)' PROVE \E r \in Pages : op \in Here(r)
  <2>1. \/ op \in Ops(record'[q])
        \/ \E i \in DOMAIN tail[q] : op \in Ops(tail[q][i])
        \/ Active(q)' /\ op \in Ops(ToSet(page'[q].queue))
    BY <1>4, <1>7 DEF Here
  <2>2. (\E i \in DOMAIN tail[q] : op \in Ops(tail[q][i])) => op \in Here(q)
    BY DEF Here
  <2>3. CASE q # p /\ Active(q)' /\ op \in Ops(ToSet(page'[q].queue))
    <3>1. Active(q) /\ op \in Ops(ToSet(page[q].queue))
      BY <1>3, <1>4, <2>3 DEF Active
    <3> QED
      BY <3>1 DEF Here
  <2>4. CASE q = p /\ op \in Ops(ToSet(page'[q].queue))
    BY <1>4, <1>5, <2>4
  <2> QED
    BY <1>6, <2>1, <2>2, <2>3, <2>4
<1> QED
  BY <1>7 DEF Comes

\* The copies in storage, and those of the page itself; the other live pages
\* keep theirs, and what they have is not among what is purged.
LEMMA PurgeKeepsAway ==
  ASSUME NEW D, Base(D), NEW p \in Pages, Purge(p), PurgeInv
  PROVE  PurgeInv'
<1> DEFINE kept == UNION {Ops(record[q]) : q \in Pages}
           own == Ops(ToSet(page[p].queue))
           new == (kept \cup own) \ Elsewhere(p)
<1>1. /\ page \in [Pages -> Memory(D)] /\ phase \in [Pages -> Phases] /\ page[p] \in Memory(D)
      /\ record \in [Pages -> SUBSET Written(D)] /\ D \subseteq Op
      /\ D \subseteq [session : Pages, sequence : 1 .. drafts, id : 1 .. drafts]
  <2>1. Typed(D)
    BY BaseFacts
  <2>2. D \subseteq [session : Pages, sequence : 1 .. drafts, id : 1 .. drafts]
        /\ drafts \in 0 .. MaxDrafts
    BY <2>1 DEF Typed
  <2>3. MaxDrafts \in Nat
    BY BoundsAssumption
  <2>4. D \subseteq Op
    BY <2>2, <2>3 DEF Op
  <2> QED
    BY <2>2, <2>4, BaseFacts
<1>2. /\ phase[p] = "ready" /\ phase' = [phase EXCEPT ![p] = "stopped"]
      /\ purged' = purged \cup new /\ record' = [q \in Pages |-> {}]
      /\ tail' = tail /\ tail[p] = <<>> /\ drafts' = drafts /\ log' = log
      /\ page' = [page EXCEPT ![p] = [page[p] EXCEPT !.queue = <<>>, !.confirmed = {}]]
  BY <1>1 DEF Purge, Flushed, Stop, server
<1>3. kept \cup own \subseteq D
  <2>1. \A q \in Pages : Ops(record[q]) \subseteq D
    BY <1>1 DEF Ops, Written
  <2>2. own \subseteq D
    BY PageFacts
  <2>3. kept \subseteq D
    BY <2>1
  <2> QED
    BY ONLY <2>2, <2>3
<1> HIDE DEF kept, own
<1>4. /\ \A q \in Pages : Ops(record'[q]) = {}
      /\ \A q \in Pages : q # p => page'[q] = page[q] /\ Active(q)' = Active(q)
      /\ Active(p) /\ Ops(ToSet(page'[p].queue)) = {} /\ DOMAIN tail'[p] = {}
  <2>1. page'[p].queue = <<>>
    BY <1>1, <1>2 DEF Memory
  <2>2. \A q \in Pages : q # p => page'[q] = page[q] /\ Active(q)' = Active(q)
    BY <1>1, <1>2 DEF Active
  <2>3. Active(p) /\ DOMAIN tail'[p] = {} /\ \A q \in Pages : Ops(record'[q]) = {}
    BY <1>2 DEF Active, Ops
  <2>4. Ops(ToSet(page'[p].queue)) = {}
    BY <2>1 DEF Ops, ToSet
  <2> QED
    BY <2>2, <2>3, <2>4
<1>5. Here(p)' = {}
  BY <1>4 DEF Here
<1>6. ASSUME NEW q \in Pages, q # p
      PROVE  /\ Here(q)' \subseteq Here(q)
             /\ \A op \in Here(q)' : op \in Elsewhere(p)
  <2>1. ASSUME NEW op \in Here(q)'
        PROVE  \/ \E i \in DOMAIN tail[q] : op \in Ops(tail[q][i])
               \/ Active(q) /\ op \in Ops(ToSet(page[q].queue))
    BY <1>2, <1>4, <1>6, <2>1 DEF Here
  <2>2. ASSUME NEW i \in DOMAIN tail[q], NEW op \in Ops(tail[q][i])
        PROVE  op \in Here(q) /\ op \in Elsewhere(p)
    <3>1. tail[q][i] \in ToSet(tail[q])
      BY DEF ToSet
    <3> DEFINE X(r) == UNION {Ops(write) : write \in ToSet(tail[r])}
    <3>2. op \in X(q)
      BY <2>2, <3>1
    <3>3. op \in Elsewhere(p)
      <4> DEFINE queues == UNION {Ops(ToSet(page[r].queue)) : r \in {s \in Pages \ {p} : Active(s)}}
                 writes == UNION {X(r) : r \in Pages \ {p}}
      <4>1. Elsewhere(p) = queues \cup writes
        BY DEF Elsewhere
      <4> HIDE DEF X, queues
      <4>2. op \in writes
        BY <1>6, <3>2
      <4> HIDE DEF writes
      <4> QED
        BY ONLY <4>1, <4>2
    <3>4. op \in Here(q)
      BY <2>2 DEF Here
    <3> QED
      BY <3>3, <3>4
  <2>3. ASSUME Active(q), NEW op \in Ops(ToSet(page[q].queue))
        PROVE  op \in Here(q) /\ op \in Elsewhere(p)
    <3>1. q \in {r \in Pages \ {p} : Active(r)}
      BY <1>6, <2>3
    <3>2. op \in Elsewhere(p)
      BY <2>3, <3>1 DEF Elsewhere
    <3>3. op \in Here(q)
      BY <2>3 DEF Here
    <3> QED
      BY <3>2, <3>3
  <2> QED
    BY <2>1, <2>2, <2>3
<1>7. new \subseteq D /\ \A op \in new : op \notin Elsewhere(p)
  BY <1>3
<1> HIDE DEF new
<1>8. ASSUME NEW op \in purged' PROVE Committed(op)' \/ \A q \in Pages : op \notin Here(q)'
  <2>1. Committed(op)' = Committed(op)
    BY <1>2 DEF Committed
  <2>2. CASE op \in purged
    BY <1>5, <1>6, <2>1, <2>2 DEF PurgeInv
  <2>3. CASE op \in new
    BY <1>5, <1>6, <1>7, <2>3
  <2> QED
    BY <1>2, <2>2, <2>3
<1>9. drafts' \in Nat /\ purged' \subseteq Op
  BY <1>1, <1>2, <1>7 DEF PurgeInv
<1>10. \A op \in purged' : op.id <= drafts'
  <2>1. \A op \in new : op.id \in 1 .. drafts
    BY <1>1, <1>7
  <2>2. \A op \in purged : op.id <= drafts
    BY DEF PurgeInv
  <2> QED
    BY <1>2, <1>9, <2>1, <2>2
<1> QED
  BY <1>8, <1>9, <1>10 DEF PurgeInv

LEMMA QuietComes ==
  ASSUME Quiet, \A q \in Pages : Active(q)' => Active(q)
  PROVE  Comes
<1>1. record' = record /\ tail' = tail
  BY DEF Quiet, storage
<1>2. \A q \in Pages : Ops(ToSet(page'[q].queue)) = Ops(ToSet(page[q].queue))
  BY DEF Quiet, Alike
<1> QED
  BY <1>1, <1>2, LessComes

\* No step but a start makes a page active, and each is of one page.
LEMMA NoneBecomesActive ==
  ASSUME NEW D, Base(D), NEW p \in Pages,
         \/ Close(p) \/ Release(p) \/ Discard(p)
         \/ TimerFires(p) \/ Save(p) \/ CheckpointSaved(p) \/ Covered(p)
         \/ CheckpointFails(p) \/ CoverFails(p)
         \/ Check(p) \/ Finish(p) \/ Draft(p) \/ Send(p) \/ Answer(p) \/ Acknowledge(p) \/ Fails(p)
  PROVE  /\ log' = log /\ purged' = purged
         /\ \A q \in Pages : q # p => phase'[q] = phase[q]
         /\ \A q \in Pages : Active(q)' => Active(q)
<1>1. phase \in [Pages -> Phases] /\ GoodPhase(p)
  BY BaseFacts, PageFacts
<1>2. \/ phase' = phase
      \/ \E f \in {"closing", "closed"} : phase' = [phase EXCEPT ![p] = f]
      \/ Active(p) /\ \E f \in {"ready", "stopped"} : phase' = [phase EXCEPT ![p] = f]
  <2>1. CASE Close(p) \/ Release(p) \/ Discard(p)
    <3>1. CASE Close(p) \/ Release(p)
      BY <3>1 DEF Close, Release
    <3>2. CASE Discard(p)
      BY <3>2 DEF Discard, Active
    <3> QED
      BY <2>1, <3>1, <3>2
  <2>2. CASE \/ TimerFires(p) \/ Save(p) \/ CheckpointSaved(p) \/ Covered(p)
             \/ CheckpointFails(p) \/ CoverFails(p)
    BY <2>2 DEF TimerFires, Save, StartFlush, CheckpointSaved, Covered, CheckpointFails,
                CoverFails, Failed, Settling, Stop, Active
  <2>3. CASE Check(p)
    BY <2>3 DEF Check, Stop, Active
  <2>4. CASE Finish(p)
    BY <2>4 DEF Finish, Settling, Stop, Active
  <2>5. CASE Draft(p) \/ Send(p) \/ Answer(p) \/ Acknowledge(p)
    BY <2>5 DEF Draft, Send, Answer, Acknowledge
  <2>6. CASE Fails(p)
    BY <1>1, <2>6 DEF Fails, Stop, Active, GoodPhase
  <2> QED
    BY <2>1, <2>2, <2>3, <2>4, <2>5, <2>6
<1>3. log' = log /\ purged' = purged
  <2>1. CASE Close(p) \/ Release(p) \/ Discard(p)
    BY <2>1 DEF Close, Release, Discard, server, history
  <2>2. CASE \/ TimerFires(p) \/ Save(p) \/ CheckpointSaved(p) \/ Covered(p)
             \/ CheckpointFails(p) \/ CoverFails(p)
    BY <2>2 DEF TimerFires, Save, StartFlush, CheckpointSaved, Covered, CheckpointFails,
                CoverFails, Failed, server, history
  <2>3. CASE Check(p) \/ Finish(p) \/ Answer(p) \/ Acknowledge(p)
    BY <2>3 DEF Check, Finish, Answer, Acknowledge, server, history
  <2>4. CASE Draft(p) \/ Send(p) \/ Fails(p)
    BY <2>4 DEF Draft, Send, Fails, server, history
  <2> QED
    BY <2>1, <2>2, <2>3, <2>4
<1>4. \A q \in Pages : q # p => phase'[q] = phase[q]
  BY <1>1, <1>2
<1>5. ASSUME NEW q \in Pages, Active(q)' PROVE Active(q)
  BY <1>1, <1>2, <1>5 DEF Active
<1> QED
  BY <1>3, <1>4, <1>5

LEMMA WritingComes ==
  ASSUME NEW D, Base(D), NEW E, Base(E)', NEW p \in Pages,
         \/ Close(p) \/ Discard(p) \/ CheckpointSaved(p) \/ Check(p) \/ Finish(p)
         \/ Draft(p) \/ Answer(p) \/ Acknowledge(p)
  PROVE  Comes
<1>1. /\ log' = log
      /\ \A q \in Pages : q # p => phase'[q] = phase[q]
      /\ \A q \in Pages : Active(q)' => Active(q)
  BY NoneBecomesActive
<1>2. page[p] \in Memory(D) /\ GoodMemory(page[p], log) /\ GoodPhase(p)
  BY PageFacts
<1>3. Active(p)
  <2>1. CASE CheckpointSaved(p)
    <3>1. phase[p] \in {"checking", "ready", "stopped"}
      BY <2>1, AtWork DEF CheckpointSaved
    <3> QED
      BY <3>1 DEF Active
  <2>2. CASE Answer(p) \/ Acknowledge(p)
    <3>1. page[p].inFlight # None
      BY <1>2, <2>2 DEF Answer, Acknowledge, GoodMemory
    <3> QED
      BY <1>2, <3>1 DEF GoodPhase, Active
  <2>3. CASE Close(p) \/ Discard(p) \/ Check(p) \/ Finish(p) \/ Draft(p)
    BY <2>3 DEF Close, Discard, Check, Finish, Settling, Draft, Active
  <2> QED
    BY <2>1, <2>2, <2>3
<1>4. CASE Quiet
  BY <1>1, <1>4, QuietComes
<1>5. ASSUME NEW m, Persisted(p, m),
             \A op \in Ops(ToSet(m.queue)) : op \in Ops(ToSet(page[p].queue)) \/ op.id > drafts
      PROVE  Comes
  BY <1>1, <1>3, <1>5, PersistedComes
<1>6. CASE Close(p)
  <2>1. page[p].answer > 0 => Ops(ToSet(Answered(page[p]).queue)) \subseteq Ops(ToSet(page[p].queue))
    BY <1>2, AnsweredProperties
  <2> QED
    BY <1>4, <1>5, <1>6, <2>1, CloseCases
<1>7. CASE Acknowledge(p)
  <2>1. page[p].answer > 0 /\ Dequeued(p)
    BY <1>7 DEF Acknowledge
  <2>2. Ops(ToSet(Answered(page[p]).queue)) \subseteq Ops(ToSet(page[p].queue))
    BY <1>2, <2>1, AnsweredProperties
  <2>3. Persisted(p, Answered(page[p])) \/ Quiet
    BY <2>1, DequeuedCases
  <2> QED
    BY <1>4, <1>5, <2>2, <2>3
<1>8. CASE Discard(p)
  <2> DEFINE b == Landed(page[p])
             m == [b EXCEPT !.queue = <<>>]
  <2>1. Persisted(p, m)
    BY <1>8 DEF Discard
  <2>2. b \in Memory(D)
    BY <1>2, LandedProperties
  <2> HIDE DEF b
  <2>3. Ops(ToSet(m.queue)) = {}
    BY <2>2 DEF Memory, Ops, ToSet
  <2> QED
    BY <1>5, <2>1, <2>3
<1>9. CASE CheckpointSaved(p)
  <2> DEFINE m == [page[p] EXCEPT !.confirmed = Uncovered(page[p], Len(log))]
  <2>1. Persisted(p, m)
    BY <1>9 DEF CheckpointSaved
  <2>2. m.queue = page[p].queue
    BY <1>2 DEF Memory
  <2> HIDE DEF m
  <2> QED
    BY <1>5, <2>1, <2>2
<1>10. CASE Check(p)
  <2>1. Quiet \/ \E m : Persisted(p, m) /\ Ops(ToSet(m.queue)) \subseteq Ops(ToSet(page[p].queue))
    BY <1>10, CheckCases
  <2> QED
    BY <1>4, <1>5, <2>1
<1>11. CASE Finish(p)
  <2>1. CASE Quiet
    BY <1>4, <2>1
  <2>2. ASSUME NEW m, FinishesWith(p, m) PROVE Comes
    <3>1. /\ Persisted(p, m) \/ (page' = [page EXCEPT ![p] = m] /\ UNCHANGED storage)
          /\ Ops(ToSet(m.queue)) \subseteq Ops(ToSet(page[p].queue))
      BY <2>2 DEF FinishesWith
    <3>2. CASE Persisted(p, m)
      BY <1>5, <3>1, <3>2
    <3>3. CASE page' = [page EXCEPT ![p] = m] /\ UNCHANGED storage
      <4>1. \A q \in Pages : Ops(ToSet(page'[q].queue)) \subseteq Ops(ToSet(page[q].queue))
        BY <3>1, <3>3, BaseFacts
      <4> QED
        BY <1>1, <3>3, <4>1, LessComes DEF storage
    <3> QED
      BY <3>1, <3>2, <3>3
  <2> QED
    BY <1>11, <2>1, <2>2, FinishCases
<1>12. CASE Draft(p)
  <2>1. PICK op, m, F : op = DraftOf(p) /\ m = DraftedMemory(p) /\ F = With(D, op)
    OBVIOUS
  <2>2. phase[p] = "ready" /\ drafts < MaxDrafts /\ Persisted(p, m)
    BY <1>12, <2>1 DEF Draft, DraftOf, DraftedMemory
  <2>3. Ops(ToSet(m.queue)) = With(Ops(ToSet(page[p].queue)), op)
    BY <2>1, <2>2, DraftProperties
  <2>4. op.id > drafts
    <3>1. op.id = drafts + 1 /\ drafts \in Nat
      <4>1. drafts \in 0 .. MaxDrafts /\ MaxDrafts \in Nat
        BY BoundsAssumption DEF Base, Typed
      <4> QED
        BY <2>1, <4>1 DEF DraftOf
    <3> QED
      BY <3>1
  <2> QED
    BY <1>5, <2>2, <2>3, <2>4 DEF With
<1>13. CASE Answer(p)
  <2>1. \E m : Persisted(p, m) /\ m.queue = page[p].queue
    BY <1>13, AnswerCases
  <2> QED
    BY <1>5, <2>1
<1> QED
  BY <1>6, <1>7, <1>8, <1>9, <1>10, <1>11, <1>12, <1>13

LEMMA StepsKeepAway ==
  ASSUME IInv, IInv', PurgeInv, [Next]_vars
  PROVE  PurgeInv'
<1> PICK D \in SUBSET Op : Base(D)
  BY DEF IInv
<1> PICK E : Base(E)'
  BY DEF IInv
<1>1. drafts' \in Nat
  BY BoundsAssumption DEF Base, Typed
<1>2. ASSUME NEW p \in Pages, Purge(p) PROVE PurgeInv'
  BY <1>2, PurgeKeepsAway
<1>3. ASSUME NEW p \in Pages, Open(p) \/ Crash(p) \/ Write(p) \/ WriteFails(p) PROVE PurgeInv'
  <2>1. Comes
    BY <1>3, OpenComes, LosingComes, WriteComes
  <2>2. log' = log /\ purged' = purged /\ drafts' = drafts
    BY <1>3 DEF Open, Opened, Crash, Write, WriteFails, server, history
  <2>3. \A op : Committed(op) => Committed(op)'
    BY <2>2 DEF Committed
  <2>4. drafts <= drafts'
    BY <1>1, <2>2
  <2> QED
    BY <1>1, <2>1, <2>2, <2>3, <2>4, ComingKeepsAway
<1>4. ASSUME NEW p \in Pages,
             \/ Close(p) \/ Release(p) \/ Discard(p)
             \/ TimerFires(p) \/ Save(p) \/ CheckpointSaved(p) \/ Covered(p)
             \/ CheckpointFails(p) \/ CoverFails(p)
             \/ Check(p) \/ Finish(p) \/ Draft(p) \/ Send(p) \/ Answer(p) \/ Acknowledge(p)
             \/ Fails(p)
      PROVE  PurgeInv'
  <2>1. log' = log /\ purged' = purged /\ \A q \in Pages : Active(q)' => Active(q)
    BY <1>4, NoneBecomesActive
  <2>2. Comes
    <3>1. CASE \/ Close(p) \/ Discard(p) \/ CheckpointSaved(p) \/ Check(p) \/ Finish(p)
               \/ Draft(p) \/ Answer(p) \/ Acknowledge(p)
      BY <3>1, WritingComes
    <3>2. CASE \/ Release(p) \/ TimerFires(p) \/ Save(p) \/ Covered(p) \/ CheckpointFails(p)
               \/ CoverFails(p) \/ Send(p) \/ Fails(p)
      BY <2>1, <3>2, QuietSteps, QuietComes
    <3> QED
      BY <1>4, <3>1, <3>2
  <2>3. drafts' = drafts \/ drafts' = drafts + 1
    <3>1. CASE Close(p) \/ Release(p) \/ Discard(p)
      BY <3>1 DEF Close, Release, Discard, history
    <3>2. CASE \/ TimerFires(p) \/ Save(p) \/ CheckpointSaved(p) \/ Covered(p)
               \/ CheckpointFails(p) \/ CoverFails(p)
      BY <3>2 DEF TimerFires, Save, StartFlush, CheckpointSaved, Covered, CheckpointFails,
                  CoverFails, Failed, history
    <3>3. CASE Check(p) \/ Finish(p) \/ Answer(p) \/ Acknowledge(p)
      BY <3>3 DEF Check, Finish, Answer, Acknowledge, history
    <3>4. CASE Draft(p) \/ Send(p) \/ Fails(p)
      BY <3>4 DEF Draft, Send, Fails, history
    <3> QED
      BY <1>4, <3>1, <3>2, <3>3, <3>4
  <2>4. drafts <= drafts'
    BY <1>1, <2>3 DEF PurgeInv
  <2>5. \A op : Committed(op) => Committed(op)'
    BY <2>1 DEF Committed
  <2> QED
    BY <1>1, <2>1, <2>2, <2>4, <2>5, ComingKeepsAway
<1>5. CASE (\E op \in network : Handle(op) \/ Refuse(op)) \/ UNCHANGED vars
  <2>1. /\ UNCHANGED <<storage, phase, page>>
        /\ Len(log') \in Nat /\ Len(log) <= Len(log') /\ DOMAIN log' = 1 .. Len(log')
        /\ \A k \in 1 .. Len(log) : log'[k] = log[k]
    BY <1>5, ServerSteps
  <2>2. DOMAIN log = 1 .. Len(log) /\ Len(log) \in Nat
    BY BaseFacts
  <2>3. \A op : Committed(op) => Committed(op)'
    BY <2>1, <2>2 DEF Committed
  <2>4. purged' = purged /\ drafts' = drafts
    BY <1>5 DEF Handle, Refuse, vars, history
  <2>5. Comes
    BY <2>1, LessComes DEF storage, Active
  <2>6. drafts <= drafts'
    BY <1>1, <2>4
  <2> QED
    BY <1>1, <2>3, <2>4, <2>5, <2>6, ComingKeepsAway
<1> QED
  BY <1>2, <1>3, <1>4, <1>5 DEF Next

LEMMA PurgedKnown == Spec => []PurgeInv
<1>1. Init => PurgeInv
  BY DEF Init, PurgeInv
<1>2. IInv /\ IInv' /\ PurgeInv /\ [Next]_vars => PurgeInv'
  BY StepsKeepAway
<1> QED
  BY <1>1, <1>2, InvariantHolds, PTL DEF Spec

\* What a purge removed is neither in the record nor in the queue of a page
\* again, until the server has committed it: what a page writes is its queue and
\* what is committed, and a page that starts queues what the records hold.
THEOREM PurgedStaysPurged == Spec => []PurgedReturnsCommitted
<1>1. PurgeInv => PurgedReturnsCommitted
  BY DEF PurgeInv, PurgedReturnsCommitted, Here
<1> QED
  BY <1>1, PurgedKnown, PTL

\* The state has its type.
THEOREM TypesHold == Spec => []TypeOK
<1>1. ASSUME IInv, PurgeInv PROVE TypeOK
  <2> PICK D \in SUBSET Op : Base(D)
    BY <1>1 DEF IInv
  <2>1. /\ log \in Seq(D) /\ Len(log) \in Nat /\ saved \in 0 .. Len(log)
        /\ network \subseteq D /\ sent \subseteq D /\ durable \subseteq D /\ dropped \subseteq D
        /\ record \in [Pages -> SUBSET Written(D)] /\ tail \in [Pages -> Seq(SUBSET Written(D))]
    BY BaseFacts
  <2>2. /\ log \in Seq(Op) /\ network \subseteq Op
        /\ sent \cup durable \cup dropped \cup purged \subseteq Op
    BY <1>1, <2>1, MemoryGrows DEF PurgeInv
  <2>3. Written(D) \subseteq Entries
    BY DEF Written, Entries
  <2>4. ASSUME NEW p \in Pages
        PROVE  /\ record[p] \subseteq Entries
               /\ \A i \in DOMAIN tail[p] : tail[p][i] \subseteq Entries
    <3>1. tail[p] \in Seq(SUBSET Written(D))
      BY <2>1
    <3>2. \A i \in DOMAIN tail[p] : tail[p][i] \in SUBSET Written(D)
      <4> DEFINE S == SUBSET Written(D)
      <4> HIDE DEF S
      <4>1. \A i \in DOMAIN tail[p] : tail[p][i] \in S
        BY <3>1, LenProperties, ElementOfSeq DEF S
      <4> QED
        BY <4>1 DEF S
    <3> QED
      BY <2>1, <2>3, <3>2
  <2>5. ASSUME NEW p \in Pages
        PROVE  /\ phase[p] \in {"new", "checking", "ready", "stopped", "closing", "closed", "crashed"}
               /\ page[p].queue \in Seq([op : Op, base : Nat, fixed : BOOLEAN])
               /\ page[p].confirmed \subseteq [op : Op, base : Nat, revision : 1 .. Len(log)]
               /\ page[p].hydrated <= page[p].revision /\ page[p].revision <= Len(log)
               /\ page[p].inFlight \in Op \cup {None}
               /\ phase[p] = "checking" => page[p].checked <= Len(page[p].queue)
               /\ saver[p].covered <= saved /\ saver[p].target <= saver[p].requested
               /\ saver[p].timer => Due(saver[p]) /\ ~saver[p].failed /\ saver[p].target = 0
    <3>1. /\ page[p] \in Memory(D) /\ GoodMemory(page[p], log) /\ GoodSaver(saver[p], saved)
          /\ GoodPhase(p) /\ phase[p] \in Phases
      BY PageFacts
    <3>2. page[p] \in Memory(Op)
      BY <3>1, MemoryGrows
    <3>3. page[p].confirmed \subseteq [op : Op, base : Nat, revision : 1 .. Len(log)]
      BY <3>1, <3>2 DEF Memory, GoodMemory
    <3>4. page[p].queue \in Seq([op : Op, base : Nat, fixed : BOOLEAN]) /\ page[p].inFlight \in Op \cup {None}
      BY <3>2 DEF Memory
    <3> QED
      BY <3>1, <3>3, <3>4 DEF GoodMemory, GoodSaver, GoodPhase, Phases
  <2> QED
    BY <2>1, <2>2, <2>4, <2>5 DEF TypeOK
<1> QED
  BY <1>1, InvariantHolds, PurgedKnown, PTL

-----------------------------------------------------------------------------
(* What was in the journal stays in it. *)

InJournal(op) == Done(op) \/ \E p \in Pages : op \in Ops(record[p])

ChainInv == (\A p \in Pages : Chained(p)) /\ \A op \in durable : InJournal(op)

\* What is given up or covered stays so.
Lasting == \A op : Done(op) => Done(op)'

LEMMA DoneLasts ==
  ASSUME dropped \subseteq dropped', saved \in Nat, saved' \in Nat, saved <= saved',
         \A k \in 1 .. saved : log'[k] = log[k]
  PROVE  Lasting
<1>1. ASSUME NEW op, Done(op) PROVE Done(op)'
  <2>1. CASE op \in dropped
    BY <2>1 DEF Done
  <2>2. ASSUME NEW k \in 1 .. saved, log[k] = op PROVE Done(op)'
    <3>1. k \in 1 .. saved' /\ log'[k] = op
      BY <2>2
    <3> QED
      BY <3>1 DEF Done
  <2> QED
    BY <1>1, <2>1, <2>2 DEF Done
<1> QED
  BY <1>1 DEF Lasting

\* A page that writes holds what it held, except what is given up or covered.
LEMMA WritingKeepsChain ==
  ASSUME NEW D, Base(D), NEW E, Base(E)', NEW p \in Pages, NEW m, Persisted(p, m),
         \A q \in Pages : Chained(q), Lasting,
         \A op \in Held(page[p]) : Done(op)' \/ op \in Held(m),
         \A op \in Ops(record[p]) : Done(op)' \/ m.broken \/ (Busy(p) /\ ~page[p].broken),
         m.answer > 0 /\ m.inFlight \in Ops(ToSet(m.queue)) =>
           Done(m.inFlight)' \/ m.inFlight \in Ops(m.confirmed),
         \A q \in Pages : q # p => (Busy(q)' => Busy(q))
  PROVE  \A q \in Pages : Chained(q)'
<1>1. /\ page'[p] = m /\ record' = record
      /\ \A q \in Pages : q # p => page'[q] = page[q] /\ tail'[q] = tail[q]
      /\ m.broken => tail' = tail
      /\ ~m.broken =>
           /\ DOMAIN tail[p] = 1 .. Len(tail[p]) /\ Len(tail[p]) \in Nat
           /\ DOMAIN tail'[p] = 1 .. Len(tail[p]) + 1
           /\ \A i \in 1 .. Len(tail[p]) : tail'[p][i] = tail[p][i]
           /\ Ops(tail'[p][Len(tail[p]) + 1]) = Held(m)
  BY WrittenTail
<1>2. \A op : Done(op) => Done(op)'
  BY DEF Lasting
<1>3. ASSUME NEW q \in Pages, q # p PROVE Chained(q)'
  <2>1. Chained(q)
    OBVIOUS
  <2>2. page'[q] = page[q] /\ tail'[q] = tail[q] /\ record'[q] = record[q] /\ (Busy(q)' => Busy(q))
    BY <1>1, <1>3
  <2> QED
    BY <1>2, <2>1, <2>2 DEF Chained
<1> DEFINE t == tail[p]
           n == Len(tail[p])
           u == tail'[p]
<1>4. Chained(p)
  OBVIOUS
<1>5. \A op \in Ops(record[p]) : Done(op)' \/ \A i \in DOMAIN t : op \in Ops(t[i])
  BY <1>2, <1>4 DEF Chained
<1>6. \A op \in Ops(record[p]) : Done(op)' \/ m.broken \/ op \in Held(m)
  BY <1>2, <1>4 DEF Chained
<1>7. \A i \in DOMAIN t : \A op \in Ops(t[i]) : Done(op)' \/
        /\ \A j \in DOMAIN t : i < j => op \in Ops(t[j])
        /\ op \in Held(m)
  BY <1>2, <1>4 DEF Chained
<1>8. CASE m.broken
  <2>1. u = t
    BY <1>1, <1>8
  <2> QED
    BY <1>1, <1>3, <1>5, <1>7, <1>8, <2>1 DEF Chained
<1>9. CASE ~m.broken
  <2>1. /\ DOMAIN t = 1 .. n /\ n \in Nat /\ DOMAIN u = 1 .. n + 1
        /\ \A i \in 1 .. n : u[i] = t[i]
        /\ Ops(u[n + 1]) = Held(m)
    BY <1>1, <1>9
  <2> HIDE DEF t, n, u
  <2>2. ASSUME NEW op \in Ops(record[p]), ~Done(op)'
        PROVE  (\A i \in DOMAIN u : op \in Ops(u[i])) /\ op \in Held(m)
    <3>1. op \in Held(m) /\ \A i \in DOMAIN t : op \in Ops(t[i])
      BY <1>5, <1>6, <1>9, <2>2
    <3>2. ASSUME NEW i \in 1 .. n + 1 PROVE op \in Ops(u[i])
      <4>1. CASE i = n + 1
        BY <2>1, <3>1, <4>1
      <4>2. CASE i \in 1 .. n
        BY <2>1, <3>1, <4>2
      <4> QED
        BY <2>1, <4>1, <4>2
    <3> QED
      BY <2>1, <3>1, <3>2
  <2>3. ASSUME NEW i \in DOMAIN u, NEW op \in Ops(u[i]), ~Done(op)'
        PROVE  (\A j \in DOMAIN u : i < j => op \in Ops(u[j])) /\ op \in Held(m)
    <3>1. CASE i = n + 1
      BY <2>1, <2>3, <3>1
    <3>2. CASE i \in 1 .. n
      <4>1. op \in Held(m) /\ \A j \in DOMAIN t : i < j => op \in Ops(t[j])
        BY <1>7, <2>1, <2>3, <3>2
      <4>2. ASSUME NEW j \in 1 .. n + 1, i < j PROVE op \in Ops(u[j])
        <5>1. CASE j = n + 1
          BY <2>1, <4>1, <5>1
        <5>2. CASE j \in 1 .. n
          BY <2>1, <4>1, <4>2, <5>2
        <5> QED
          BY <2>1, <5>1, <5>2
      <4> QED
        BY <2>1, <4>1, <4>2
    <3> QED
      BY <2>1, <3>1, <3>2
  <2>4. Chained(p)'
    BY <1>1, <2>2, <2>3 DEF Chained, u
  <2> QED
    BY <1>3, <2>4
<1> QED
  BY <1>8, <1>9

\* A step that writes nothing, and of which every page holds what it held.
LEMMA QuietKeepsChain ==
  ASSUME ChainInv, Lasting, UNCHANGED storage,
         \A q \in Pages :
           /\ Held(page'[q]) = Held(page[q]) /\ page'[q].broken = page[q].broken
           /\ Busy(q)' => Busy(q)
           /\ page'[q].answer > 0 =>
                /\ page[q].answer > 0 /\ page'[q].inFlight = page[q].inFlight
                /\ Ops(ToSet(page'[q].queue)) \subseteq Ops(ToSet(page[q].queue))
                /\ Ops(page[q].confirmed) \subseteq Ops(page'[q].confirmed)
  PROVE  ChainInv'
<1>1. \A op : Done(op) => Done(op)'
  BY DEF Lasting
<1>2. record' = record /\ tail' = tail /\ durable' = durable
  BY DEF storage
<1>3. ASSUME NEW q \in Pages PROVE Chained(q)'
  <2>1. Chained(q)
    BY DEF ChainInv
  <2>2. \A op \in Ops(record'[q]) : Done(op)' \/
          /\ \A i \in DOMAIN tail'[q] : op \in Ops(tail'[q][i])
          /\ Busy(q)' /\ ~page'[q].broken => op \in Held(page'[q])
    BY <1>1, <1>2, <2>1 DEF Chained
  <2>3. \A i \in DOMAIN tail'[q] : \A op \in Ops(tail'[q][i]) : Done(op)' \/
          /\ \A j \in DOMAIN tail'[q] : i < j => op \in Ops(tail'[q][j])
          /\ op \in Held(page'[q])
    BY <1>1, <1>2, <2>1 DEF Chained
  <2>4. page'[q].answer > 0 /\ page'[q].inFlight \in Ops(ToSet(page'[q].queue)) =>
          Done(page[q].inFlight)' \/ page'[q].inFlight \in Ops(page'[q].confirmed)
    BY <1>1, <2>1 DEF Chained
  <2> QED
    BY <2>2, <2>3, <2>4 DEF Chained
<1>4. \A op \in durable' : InJournal(op)'
  BY <1>1, <1>2 DEF ChainInv, InJournal
<1> QED
  BY <1>3, <1>4 DEF ChainInv
LEMMA PageStepsLast ==
  ASSUME NEW D, Base(D), NEW p \in Pages,
         \/ Open(p) \/ Close(p) \/ Release(p) \/ Crash(p) \/ Discard(p) \/ Purge(p)
         \/ Write(p) \/ WriteFails(p)
         \/ TimerFires(p) \/ Save(p) \/ CheckpointSaved(p) \/ Covered(p)
         \/ CheckpointFails(p) \/ CoverFails(p)
         \/ Check(p) \/ Finish(p) \/ Draft(p) \/ Send(p) \/ Answer(p) \/ Acknowledge(p) \/ Fails(p)
  PROVE  Lasting
<1>1. saved \in Nat /\ saved \in 0 .. Len(log) /\ Len(log) \in Nat
  BY BaseFacts
<1>2. CASE Open(p) \/ Close(p) \/ Release(p) \/ Crash(p) \/ Discard(p) \/ Purge(p)
  <2>1. dropped \subseteq dropped' /\ saved' = saved /\ log' = log
    BY <1>2 DEF Open, Opened, Close, Release, Crash, Discard, Purge, server, history
  <2> QED
    BY <1>1, <2>1, DoneLasts
<1>3. CASE \/ Write(p) \/ WriteFails(p) \/ TimerFires(p) \/ Save(p) \/ Covered(p)
           \/ CheckpointFails(p) \/ CoverFails(p)
  <2>1. dropped' = dropped /\ saved' = saved /\ log' = log
    BY <1>3 DEF Write, WriteFails, TimerFires, Save, StartFlush, Covered,
                CheckpointFails, CoverFails, Failed, server, history
  <2> QED
    BY <1>1, <2>1, DoneLasts
<1>4. CASE CheckpointSaved(p)
  <2>1. dropped' = dropped /\ saved' = Len(log) /\ log' = log
    BY <1>4 DEF CheckpointSaved, history
  <2> QED
    BY <1>1, <2>1, DoneLasts
<1>5. CASE Check(p) \/ Finish(p) \/ Draft(p) \/ Send(p) \/ Answer(p) \/ Acknowledge(p) \/ Fails(p)
  <2>1. dropped' = dropped /\ saved' = saved /\ log' = log
    BY <1>5 DEF Check, Finish, Draft, Send, Answer, Acknowledge, Fails, server, history
  <2> QED
    BY <1>1, <2>1, DoneLasts
<1> QED
  BY <1>2, <1>3, <1>4, <1>5

\* A step leaves the phases and the coordinators of the other pages alone.
OnlyAt(p) ==
  /\ phase' = phase \/ \E f : phase' = [phase EXCEPT ![p] = f]
  /\ saver' = saver \/ \E s : saver' = [saver EXCEPT ![p] = s]

LEMMA OthersRest ==
  ASSUME NEW D, Base(D), NEW p \in Pages, NEW m, page' = [page EXCEPT ![p] = m],
         OnlyAt(p)
  PROVE  \A q \in Pages : q # p => (Busy(q)' <=> Busy(q))
<1>1. /\ page \in [Pages -> Memory(D)] /\ phase \in [Pages -> Phases]
      /\ saver \in [Pages -> Saver]
  BY BaseFacts
<1>2. \A q \in Pages : q # p => page'[q] = page[q] /\ phase'[q] = phase[q] /\ saver'[q] = saver[q]
  BY <1>1 DEF OnlyAt
<1> QED
  BY <1>2 DEF Busy

LEMMA WritingKeepsAll ==
  ASSUME NEW D, Base(D), NEW E, Base(E)', NEW p \in Pages, NEW m, Persisted(p, m),
         ChainInv, Lasting,
         \A op \in Held(page[p]) : Done(op)' \/ op \in Held(m),
         Busy(p) \/ \A op \in Ops(record[p]) : Done(op)',
         m.broken = page[p].broken,
         m.answer > 0 /\ m.inFlight \in Ops(ToSet(m.queue)) =>
           Done(m.inFlight)' \/ m.inFlight \in Ops(m.confirmed),
         OnlyAt(p)
  PROVE  ChainInv'
<1>1. \A q \in Pages : Chained(q)
  BY DEF ChainInv
<1>2. page' = [page EXCEPT ![p] = m] /\ record' = record /\ durable' = durable
  BY DEF Persisted
<1>3. \A q \in Pages : q # p => (Busy(q)' => Busy(q))
  BY <1>2, OthersRest
<1>6. \A op \in Ops(record[p]) : Done(op)' \/ m.broken \/ (Busy(p) /\ ~page[p].broken)
  <2>1. m.broken \/ ~page[p].broken
    OBVIOUS
  <2> QED
    BY <2>1
<1>4. \A q \in Pages : Chained(q)'
  BY <1>1, <1>3, <1>6, WritingKeepsChain
<1>5. \A op \in durable' : InJournal(op)'
  BY <1>2 DEF ChainInv, InJournal, Lasting
<1> QED
  BY <1>4, <1>5 DEF ChainInv

LEMMA DraftKeepsChain ==
  ASSUME NEW D, Base(D), IInv', NEW p \in Pages, Draft(p), ChainInv, Lasting
  PROVE  ChainInv'
<1>1. PICK E : Base(E)'
  BY DEF IInv
<1>2. PICK op, m, F : op = DraftOf(p) /\ m = DraftedMemory(p) /\ F = With(D, op)
  OBVIOUS
<1>3. /\ phase[p] = "ready" /\ drafts < MaxDrafts /\ Persisted(p, m)
      /\ OnlyAt(p)
  BY <1>2 DEF Draft, DraftOf, DraftedMemory, OnlyAt
<1>4. /\ Ops(ToSet(m.queue)) = With(Ops(ToSet(page[p].queue)), op) /\ m.confirmed = page[p].confirmed
      /\ m.inFlight = page[p].inFlight /\ m.answer = page[p].answer /\ m.broken = page[p].broken
  BY <1>2, <1>3, DraftProperties
<1>5. \A o \in Held(page[p]) : o \in Held(m)
  BY <1>4 DEF Held, With
<1>6. Busy(p)
  BY <1>3 DEF Busy
<1>7. m.answer > 0 => Done(m.inFlight)' \/ m.inFlight \in Ops(m.confirmed)
  <2>1. GoodMemory(page[p], log) /\ GoodPhase(p)
    BY PageFacts
  <2>2. m.answer > 0 => m.inFlight \in Ops(ToSet(page[p].queue))
    BY <1>3, <1>4, <2>1 DEF GoodMemory, GoodPhase
  <2>3. Chained(p)
    BY DEF ChainInv
  <2>4. m.answer > 0 => Done(m.inFlight) \/ m.inFlight \in Ops(m.confirmed)
    BY <1>4, <2>2, <2>3 DEF Chained
  <2> QED
    BY <2>4 DEF Lasting
<1> QED
  BY <1>1, <1>3, <1>4, <1>5, <1>6, <1>7, WritingKeepsAll

LEMMA AnswerKeepsChain ==
  ASSUME NEW D, Base(D), IInv', NEW p \in Pages, Answer(p), ChainInv, Lasting
  PROVE  ChainInv'
<1>1. PICK E : Base(E)'
  BY DEF IInv
<1>2. PICK m :
        /\ Persisted(p, m) /\ UNCHANGED <<phase, saver>> /\ page[p].inFlight # None
        /\ Ops(m.confirmed) = Ops(page[p].confirmed) \cup {page[p].inFlight}
        /\ m.queue = page[p].queue /\ m.inFlight = page[p].inFlight
        /\ m.broken = page[p].broken
  BY AnswerCases
<1>3. OnlyAt(p)
  BY <1>2 DEF OnlyAt
<1>4. \A o \in Held(page[p]) : o \in Held(m)
  BY <1>2 DEF Held
<1>5. Busy(p)
  BY <1>2 DEF Busy
<1>6. m.inFlight \in Ops(m.confirmed)
  BY <1>2
<1> QED
  BY <1>1, <1>2, <1>3, <1>4, <1>5, <1>6, WritingKeepsAll

LEMMA AcknowledgeKeepsChain ==
  ASSUME NEW D, Base(D), IInv', NEW p \in Pages, ChainInv, Lasting,
         page[p].answer > 0, Persisted(p, Answered(page[p])), Acknowledge(p) \/ Close(p)
  PROVE  ChainInv'
<1>1. PICK E : Base(E)'
  BY DEF IInv
<1>2. PICK m : m = Answered(page[p])
  OBVIOUS
<1>3. page[p] \in Memory(D) /\ GoodMemory(page[p], log)
  BY PageFacts
<1>4. /\ m.answer = 0 /\ Ops(ToSet(m.queue)) = Ops(ToSet(page[p].queue)) \ {page[p].inFlight}
      /\ m.confirmed = page[p].confirmed /\ m.broken = page[p].broken
  BY <1>2, <1>3, AnsweredProperties
<1>5. OnlyAt(p)
  BY DEF Acknowledge, Request, Close, OnlyAt
<1>6. \A o \in Held(page[p]) : Done(o)' \/ o \in Held(m)
  <2>1. Chained(p)
    BY DEF ChainInv
  <2>2. page[p].inFlight \in Ops(ToSet(page[p].queue)) =>
          Done(page[p].inFlight) \/ page[p].inFlight \in Ops(page[p].confirmed)
    BY <2>1 DEF Chained
  <2> QED
    BY <1>4, <2>2 DEF Held, Lasting
<1>7. Busy(p)
  BY <1>3 DEF Busy, GoodMemory
<1>8. ~(m.answer > 0)
  BY <1>4
<1> QED
  BY <1>1, <1>2, <1>4, <1>5, <1>6, <1>7, <1>8, WritingKeepsAll

LEMMA DiscardKeepsChain ==
  ASSUME NEW D, Base(D), IInv', NEW p \in Pages, Discard(p), ChainInv, Lasting
  PROVE  ChainInv'
<1>1. PICK E : Base(E)'
  BY DEF IInv
<1>2. PICK m : m = [Landed(page[p]) EXCEPT !.queue = <<>>]
  OBVIOUS
<1>3. Persisted(p, m) /\ dropped' = dropped \cup Ops(record[p]) \cup Ops(ToSet(page[p].queue))
  BY <1>2 DEF Discard
<1>4. m.confirmed = page[p].confirmed /\ m.answer = 0 /\ m.broken = page[p].broken
  <2>1. page[p] \in Memory(D)
    BY PageFacts
  <2> QED
    BY <1>2, <2>1 DEF Landed, Memory
<1>5. OnlyAt(p)
  <2>1. phase' = [phase EXCEPT ![p] = IF page[p].broken THEN "stopped" ELSE "closing"]
    BY DEF Discard
  <2>2. saver' = [saver EXCEPT ![p] = IF page[p].broken THEN saver[p] ELSE Idle]
    <3>1. saver \in [Pages -> Saver]
      BY BaseFacts
    <3> QED
      BY <3>1 DEF Discard
  <2> QED
    BY <2>1, <2>2 DEF OnlyAt
<1>6. \A o \in Held(page[p]) : Done(o)' \/ o \in Held(m)
  BY <1>3, <1>4 DEF Held, Done
<1>7. \A o \in Ops(record[p]) : Done(o)'
  BY <1>3 DEF Done
<1>8. ~(m.answer > 0) /\ m.broken = page[p].broken
  BY <1>4
<1>9. Persisted(p, m)
  BY <1>3
<1> QED
  BY <1>1, <1>5, <1>6, <1>7, <1>8, <1>9, WritingKeepsAll

LEMMA CheckpointKeepsChain ==
  ASSUME NEW D, Base(D), IInv', NEW p \in Pages, CheckpointSaved(p), ChainInv, Lasting
  PROVE  ChainInv'
<1>1. PICK E : Base(E)'
  BY DEF IInv
<1>2. PICK m : m = [page[p] EXCEPT !.confirmed = Uncovered(page[p], Len(log))]
  OBVIOUS
<1>3. /\ Persisted(p, m) /\ saver[p].target > 0 /\ saved' = Len(log) /\ log' = log
  BY <1>2 DEF CheckpointSaved
<1>4. /\ page[p] \in Memory(D) /\ GoodMemory(page[p], log) /\ Len(log) \in Nat
  BY PageFacts, BaseFacts
<1>5. /\ m.queue = page[p].queue /\ m.answer = page[p].answer /\ m.inFlight = page[p].inFlight
      /\ m.broken = page[p].broken
  BY <1>2, <1>4 DEF Memory
<1>6. OnlyAt(p)
  <2>1. saver' = [saver EXCEPT ![p] = [saver[p] EXCEPT !.result = Len(log)]]
    <3>1. saver \in [Pages -> Saver]
      BY BaseFacts
    <3> QED
      BY <3>1 DEF CheckpointSaved
  <2> QED
    BY <2>1 DEF OnlyAt, CheckpointSaved
<1>8. \A o \in Held(page[p]) : Done(o)' \/ o \in Held(m)
  <2>1. ASSUME NEW c \in page[p].confirmed PROVE Done(c.op)'
    <3>1. c.revision \in 1 .. Len(log) /\ log[c.revision] = c.op
      BY <1>4 DEF GoodMemory
    <3> QED
      BY <1>3, <3>1 DEF Done
  <2> QED
    BY <1>5, <2>1 DEF Held, Ops
<1>9. ASSUME m.answer > 0 PROVE Done(m.inFlight)'
  <2>1. page[p].answer \in 1 .. Len(log) /\ log[page[p].answer] = m.inFlight
    BY <1>4, <1>5, <1>9 DEF GoodMemory
  <2> QED
    BY <1>3, <2>1 DEF Done
<1>10. Busy(p)
  BY <1>3 DEF Busy
<1> QED
  BY <1>1, <1>3, <1>5, <1>6, <1>8, <1>9, <1>10, WritingKeepsAll
LEMMA CheckKeepsChain ==
  ASSUME NEW D, Base(D), IInv', NEW p \in Pages, Check(p), ~Quiet, ChainInv, Lasting
  PROVE  ChainInv'
<1>1. PICK E : Base(E)'
  BY DEF IInv
<1>2. PICK op, m :
        /\ Persisted(p, m) /\ Committed(op) /\ op \in Ops(ToSet(page[p].queue))
        /\ Ops(ToSet(m.queue)) = Ops(ToSet(page[p].queue)) \ {op}
        /\ Ops(m.confirmed) = Ops(page[p].confirmed) \cup {op}
        /\ m.inFlight = page[p].inFlight /\ m.answer = page[p].answer
        /\ m.broken = page[p].broken /\ UNCHANGED phase
  BY CheckCases
<1>3. OnlyAt(p)
  <2>1. saver' = saver \/ \E s : saver' = [saver EXCEPT ![p] = s]
    BY DEF Check, Request
  <2> QED
    BY <1>2, <2>1 DEF OnlyAt
<1>4. \A o \in Held(page[p]) : Done(o)' \/ o \in Held(m)
  BY <1>2 DEF Held
<1>5. phase[p] = "checking"
  BY DEF Check
<1>6. Busy(p)
  BY <1>5 DEF Busy
<1>7. ~(m.answer > 0)
  <2>1. GoodMemory(page[p], log) /\ GoodPhase(p)
    BY PageFacts
  <2> QED
    BY <1>2, <1>5, <2>1 DEF GoodMemory, GoodPhase
<1>8. Persisted(p, m) /\ m.broken = page[p].broken
  BY <1>2
<1> QED
  BY <1>1, <1>3, <1>4, <1>6, <1>7, <1>8, WritingKeepsAll

LEMMA FinishKeepsChain ==
  ASSUME NEW D, Base(D), IInv', NEW p \in Pages, Finish(p), ~Quiet, ChainInv, Lasting
  PROVE  ChainInv'
<1>1. PICK E : Base(E)'
  BY DEF IInv
<1>2. PICK m :
        /\ Persisted(p, m) \/ /\ page' = [page EXCEPT ![p] = m] /\ UNCHANGED storage
                              /\ m.confirmed = page[p].confirmed
        /\ Ops(ToSet(m.queue)) = {op \in Ops(ToSet(page[p].queue)) : ~Committed(op)}
        /\ Ops(m.confirmed) =
             Ops(page[p].confirmed) \cup {op \in Ops(ToSet(page[p].queue)) : Committed(op)}
        /\ m.inFlight = page[p].inFlight /\ m.answer = page[p].answer
        /\ m.broken = page[p].broken
  <2>1. PICK m : FinishesWith(p, m)
    BY FinishCases
  <2> QED
    BY ONLY <2>1 DEF FinishesWith
<1>3. phase[p] = "checking"
  BY DEF Finish, Settling
<1>4. OnlyAt(p)
  <2>1. saver' = saver \/ \E s : saver' = [saver EXCEPT ![p] = s]
    BY DEF Finish, Request
  <2>2. \E f : phase' = [phase EXCEPT ![p] = f]
    BY DEF Finish, Stop
  <2> QED
    BY <2>1, <2>2 DEF OnlyAt
<1>5. \A o \in Held(page[p]) : o \in Held(m)
  BY <1>2 DEF Held
<1>6. Busy(p)
  BY <1>3 DEF Busy
<1>7. ~(m.answer > 0)
  <2>1. GoodMemory(page[p], log) /\ GoodPhase(p)
    BY PageFacts
  <2> QED
    BY <1>2, <1>3, <2>1 DEF GoodMemory, GoodPhase
<1>8. m.broken = page[p].broken
  BY <1>2
<1>9. CASE Persisted(p, m)
  BY <1>1, <1>4, <1>5, <1>6, <1>7, <1>8, <1>9, WritingKeepsAll
<1>10. CASE /\ page' = [page EXCEPT ![p] = m] /\ UNCHANGED storage
            /\ m.confirmed = page[p].confirmed
  <2>1. Held(m) = Held(page[p])
    <3>1. \A o \in Held(m) : o \in Held(page[p])
      BY <1>2, <1>10 DEF Held
    <3> QED
      BY <1>5, <3>1
  <2>2. page \in [Pages -> Memory(D)]
    BY BaseFacts
  <2>3. page'[p] = m /\ \A q \in Pages : q # p => page'[q] = page[q]
    BY <1>10, <2>2
  <2>4. \A q \in Pages : q # p => (Busy(q)' => Busy(q))
    BY <1>4, <1>10, OthersRest
  <2>5. ASSUME NEW q \in Pages
        PROVE  /\ Held(page'[q]) = Held(page[q]) /\ page'[q].broken = page[q].broken
               /\ Busy(q)' => Busy(q)
               /\ page'[q].answer > 0 =>
                    /\ page[q].answer > 0 /\ page'[q].inFlight = page[q].inFlight
                    /\ Ops(ToSet(page'[q].queue)) \subseteq Ops(ToSet(page[q].queue))
                    /\ Ops(page[q].confirmed) \subseteq Ops(page'[q].confirmed)
    <3>1. CASE q = p
      BY <1>6, <1>7, <1>8, <2>1, <2>3, <3>1
    <3>2. CASE q # p
      BY <2>3, <2>4, <3>2
    <3> QED
      BY <3>1, <3>2
  <2> QED
    BY <1>10, <2>5, QuietKeepsChain
<1> QED
  BY <1>2, <1>9, <1>10

\* A quiet step of a page leaves nobody busier than before.
LEMMA QuietStepsKeepChain ==
  ASSUME NEW D, Base(D), NEW p \in Pages, Quiet, ChainInv, Lasting,
         \/ Release(p) \/ TimerFires(p) \/ Save(p) \/ Covered(p) \/ CheckpointFails(p)
         \/ CoverFails(p) \/ Send(p) \/ Fails(p) \/ Close(p) \/ Acknowledge(p) \/ Check(p)
         \/ Finish(p)
  PROVE  ChainInv'
<1>1. UNCHANGED storage /\ \A q \in Pages : Alike(page'[q], page[q])
  BY DEF Quiet
<1>2. /\ page \in [Pages -> Memory(D)] /\ page[p] \in Memory(D) /\ phase \in [Pages -> Phases]
      /\ saver \in [Pages -> Saver] /\ GoodSaver(saver[p], saved) /\ GoodPhase(p)
      /\ GoodMemory(page[p], log) /\ saver[p] \in Saver
  BY BaseFacts, PageFacts
<1>3. \A q \in Pages : /\ Held(page'[q]) = Held(page[q]) /\ page'[q].broken = page[q].broken
                       /\ Ops(ToSet(page'[q].queue)) = Ops(ToSet(page[q].queue))
                       /\ Ops(page'[q].confirmed) = Ops(page[q].confirmed)
                       /\ page'[q].answer > 0 =>
                            page'[q].answer = page[q].answer /\ page'[q].inFlight = page[q].inFlight
  BY <1>1 DEF Alike, Held
<1>4. /\ \A q \in Pages : q # p => /\ page'[q] = page[q] /\ phase'[q] = phase[q]
                                   /\ saver'[q] = saver[q]
      /\ Busy(p)' => Busy(p)
  <2>1. CASE Release(p)
    BY <1>2, <2>1 DEF Release, Busy
  <2>2. CASE TimerFires(p) \/ Save(p)
    <3>1. /\ UNCHANGED <<phase, page>>
          /\ saver[p].timer \/ phase[p] \in {"checking", "ready"}
          /\ \E s : saver' = [saver EXCEPT ![p] = s]
      <4>1. saver' = [saver EXCEPT ![p] = [saver[p] EXCEPT !.timer = FALSE, !.target =
                        IF Due(saver[p]) THEN saver[p].requested ELSE 0]]
        BY <1>2, <2>2 DEF TimerFires, Save, StartFlush, Saver
      <4> QED
        BY <2>2, <4>1 DEF TimerFires, Save, StartFlush, Settling
    <3> QED
      BY <1>2, <3>1 DEF Busy
  <2>3. CASE Covered(p)
    <3>1. UNCHANGED <<phase, page>> /\ \E s : saver' = [saver EXCEPT ![p] = s]
      <4>1. saver' = [saver EXCEPT ![p] = Finished(saver[p])] /\ UNCHANGED <<phase, page>>
        BY <1>2, <2>3 DEF Covered
      <4> QED
        BY <4>1
    <3>2. saver[p].target > 0
      BY <1>2, <2>3 DEF Covered, GoodSaver
    <3> QED
      BY <1>2, <3>1, <3>2 DEF Busy
  <2>4. CASE CheckpointFails(p) \/ CoverFails(p)
    <3>1. Failed(p) /\ saver[p].target > 0
      BY <1>2, <2>4 DEF CheckpointFails, CoverFails, GoodSaver
    <3>2. /\ \E s : saver' = [saver EXCEPT ![p] = s]
          /\ page' = page
          /\ phase' = phase \/ phase' = [phase EXCEPT ![p] = "stopped"]
      <4>1. saver' = [saver EXCEPT ![p] = [saver[p] EXCEPT !.target = 0, !.result = 0, !.failed = TRUE]]
        BY <1>2, <3>1 DEF Failed, Saver
      <4> QED
        BY <3>1, <4>1 DEF Failed, Stop
    <3> QED
      BY <1>2, <3>1, <3>2 DEF Busy
  <2>5. CASE Send(p)
    <3>1. /\ phase[p] = "ready" /\ page[p].inFlight = None /\ UNCHANGED <<phase, saver>>
      BY <2>5 DEF Send
    <3>2. \A q \in Pages : q # p => page'[q] = page[q]
      BY <1>2, <2>5 DEF Send
    <3> QED
      BY <3>1, <3>2 DEF Busy
  <2>6. CASE Fails(p)
    <3>1. /\ phase[p] = "ready" /\ saver' = saver /\ phase' = [phase EXCEPT ![p] = "stopped"]
          /\ page' = [page EXCEPT ![p] = Landed(page[p])]
      BY <1>2, <2>6 DEF Fails, Stop, Memory
    <3> QED
      BY <1>2, <3>1 DEF Busy
  <2>7. CASE Close(p)
    <3>1. /\ phase' = [phase EXCEPT ![p] = "closing"] /\ saver' = [saver EXCEPT ![p] = Idle]
          /\ \A q \in Pages : q # p => page'[q] = page[q]
      BY <1>2, <2>7 DEF Close, Dequeued, Persisted
    <3>2. page'[p].inFlight = None
      <4>1. CASE page[p].answer > 0
        <5>1. Dequeued(p)
          BY <2>7, <4>1 DEF Close
        <5>2. Answered(page[p]).inFlight = None
          BY <1>2, <4>1, AnsweredProperties
        <5>3. page'[p] = Answered(page[p])
          BY <1>2, <5>1 DEF Dequeued, Persisted
        <5> QED
          BY <5>2, <5>3
      <4>2. CASE ~(page[p].answer > 0)
        <5>1. page'[p] = Landed(page[p])
          BY <1>2, <2>7, <4>2 DEF Close
        <5> QED
          BY <1>2, <5>1, LandedProperties
      <4> QED
        BY <4>1, <4>2
    <3>3. phase'[p] = "closing" /\ saver'[p] = Idle
      BY <1>2, <3>1
    <3>4. ~Busy(p)'
      BY <3>2, <3>3 DEF Busy, Idle
    <3> QED
      BY <1>2, <3>1, <3>4
  <2>8. CASE Check(p) \/ Finish(p)
    <3>1. phase[p] = "checking"
      BY <2>8 DEF Check, Finish, Settling
    <3>2. Busy(p)
      BY <3>1 DEF Busy
    <3>3. \A q \in Pages : q # p => page'[q] = page[q]
      BY <1>2, <2>8 DEF Check, Finish, Persisted
    <3>4. \A q \in Pages : q # p => phase'[q] = phase[q] /\ saver'[q] = saver[q]
      BY <1>2, <2>8 DEF Check, Finish, Stop, Request
    <3> QED
      BY <3>2, <3>3, <3>4
  <2>9. CASE Acknowledge(p)
    <3>1. page[p].answer > 0 /\ UNCHANGED phase
      BY <2>9 DEF Acknowledge
    <3>2. Busy(p)
      BY <1>2, <3>1 DEF Busy, GoodMemory
    <3>3. \A q \in Pages : q # p => page'[q] = page[q]
      BY <1>2, <2>9 DEF Acknowledge, Dequeued, Persisted
    <3>4. \A q \in Pages : q # p => saver'[q] = saver[q]
      BY <1>2, <2>9 DEF Acknowledge, Request
    <3> QED
      BY <3>1, <3>2, <3>3, <3>4
  <2> QED
    BY <2>1, <2>2, <2>3, <2>4, <2>5, <2>6, <2>7, <2>8, <2>9
<1>5. \A q \in Pages : q # p => (Busy(q)' <=> Busy(q))
  BY <1>4 DEF Busy
<1>6. ASSUME NEW q \in Pages
      PROVE  /\ Held(page'[q]) = Held(page[q]) /\ page'[q].broken = page[q].broken
             /\ Busy(q)' => Busy(q)
             /\ page'[q].answer > 0 =>
                  /\ page[q].answer > 0 /\ page'[q].inFlight = page[q].inFlight
                  /\ Ops(ToSet(page'[q].queue)) \subseteq Ops(ToSet(page[q].queue))
                  /\ Ops(page[q].confirmed) \subseteq Ops(page'[q].confirmed)
  BY <1>3, <1>4, <1>5
<1> QED
  BY <1>1, <1>6, QuietKeepsChain
LEMMA WriteKeepsChain ==
  ASSUME NEW D, Base(D), NEW p \in Pages, Write(p), ChainInv, Lasting
  PROVE  ChainInv'
<1> DEFINE t == tail[p]
           S == SUBSET Written(D)
<1>1. t \in Seq(S) /\ t # <<>> /\ tail \in [Pages -> Seq(S)] /\ record \in [Pages -> S]
  BY BaseFacts DEF Write
<1>2. /\ record' = [record EXCEPT ![p] = Head(t)] /\ tail' = [tail EXCEPT ![p] = Tail(t)]
      /\ durable' = durable \cup Ops(Head(t)) /\ UNCHANGED <<phase, page, saver>>
  BY DEF Write
<1> HIDE DEF t, S
<1>3. /\ Len(t) \in Nat /\ Len(t) > 0 /\ DOMAIN t = 1 .. Len(t) /\ Head(t) = t[1]
      /\ DOMAIN Tail(t) = 1 .. Len(t) - 1
      /\ \A i \in 1 .. Len(t) - 1 : Tail(t)[i] = t[i + 1]
  <2>1. Tail(t) \in Seq(S) /\ Len(Tail(t)) = Len(t) - 1 /\ Head(t) = t[1]
        /\ \A i \in 1 .. Len(Tail(t)) : Tail(t)[i] = t[i + 1]
    BY <1>1, HeadTailProperties
  <2>2. DOMAIN Tail(t) = 1 .. Len(Tail(t)) /\ Len(t) \in Nat /\ DOMAIN t = 1 .. Len(t)
    BY <1>1, <2>1, LenProperties
  <2>3. Len(t) # 0
    BY <1>1, EmptySeq
  <2> QED
    BY <2>1, <2>2, <2>3
<1>4. tail'[p] = Tail(t) /\ record'[p] = t[1]
  BY <1>1, <1>2, <1>3
<1>5. /\ \A q \in Pages : q # p => tail'[q] = tail[q] /\ record'[q] = record[q]
      /\ \A q \in Pages : Busy(q)' <=> Busy(q)
  BY <1>1, <1>2 DEF Busy
<1>6. \A op : Done(op) => Done(op)'
  BY DEF Lasting
<1>7. ASSUME NEW q \in Pages, q # p PROVE Chained(q)'
  <2>1. Chained(q)
    BY DEF ChainInv
  <2> QED
    BY <1>2, <1>5, <1>6, <1>7, <2>1 DEF Chained
<1>8. Chained(p)
  BY DEF ChainInv
<1>9. 1 \in DOMAIN t /\ \A i \in 1 .. Len(t) - 1 : i + 1 \in DOMAIN t /\ 1 < i + 1
  BY <1>3
<1>10. ASSUME NEW op \in Ops(t[1]), ~Done(op)'
       PROVE  op \in Held(page[p]) /\ \A i \in DOMAIN Tail(t) : op \in Ops(Tail(t)[i])
  <2>1. op \in Held(page[p]) /\ \A j \in DOMAIN t : 1 < j => op \in Ops(t[j])
    BY <1>6, <1>8, <1>9, <1>10 DEF Chained, t
  <2> QED
    BY <1>3, <1>9, <2>1
<1>11. ASSUME NEW i \in DOMAIN Tail(t), NEW op \in Ops(Tail(t)[i]), ~Done(op)'
       PROVE  /\ op \in Held(page[p])
              /\ \A j \in DOMAIN Tail(t) : i < j => op \in Ops(Tail(t)[j])
  <2>1. i + 1 \in DOMAIN t /\ op \in Ops(t[i + 1])
    BY <1>3, <1>9, <1>11
  <2>2. op \in Held(page[p]) /\ \A j \in DOMAIN t : i + 1 < j => op \in Ops(t[j])
    BY <1>6, <1>8, <1>11, <2>1 DEF Chained, t
  <2>3. ASSUME NEW j \in DOMAIN Tail(t), i < j PROVE op \in Ops(Tail(t)[j])
    <3>1. j + 1 \in DOMAIN t /\ i + 1 < j + 1 /\ Tail(t)[j] = t[j + 1]
      BY <1>3, <1>9, <2>3
    <3> QED
      BY <2>2, <3>1
  <2> QED
    BY <2>2, <2>3
<1>12. page'[p].answer > 0 /\ page'[p].inFlight \in Ops(ToSet(page'[p].queue)) =>
         Done(page[p].inFlight)' \/ page'[p].inFlight \in Ops(page'[p].confirmed)
  BY <1>2, <1>6, <1>8 DEF Chained
<1>13. Chained(p)'
  BY <1>2, <1>4, <1>10, <1>11, <1>12 DEF Chained
<1>14. ASSUME NEW op \in durable' PROVE InJournal(op)'
  <2>1. CASE op \in Ops(t[1])
    BY <1>4, <2>1 DEF InJournal
  <2>2. ASSUME op \in durable, ~Done(op)' PROVE \E q \in Pages : op \in Ops(record'[q])
    <3>1. PICK q \in Pages : op \in Ops(record[q])
      BY <1>6, <2>2 DEF ChainInv, InJournal
    <3>2. CASE q = p
      <4>1. op \in Ops(t[1])
        BY <1>6, <1>8, <1>9, <2>2, <3>1, <3>2 DEF Chained, t
      <4> QED
        BY <1>4, <4>1
    <3>3. CASE q # p
      BY <1>5, <3>1, <3>3
    <3> QED
      BY <3>2, <3>3
  <2> QED
    BY <1>2, <1>3, <1>14, <2>1, <2>2 DEF InJournal
<1> QED
  BY <1>7, <1>13, <1>14 DEF ChainInv

\* A page that loses its writes writes no more.
LEMMA LosingKeepsChain ==
  ASSUME NEW D, Base(D), NEW p \in Pages, WriteFails(p) \/ Crash(p), ChainInv, Lasting
  PROVE  ChainInv'
<1>1. /\ page \in [Pages -> Memory(D)] /\ tail \in [Pages -> Seq(SUBSET Written(D))]
      /\ saver \in [Pages -> Saver] /\ phase \in [Pages -> Phases] /\ page[p] \in Memory(D)
  BY BaseFacts
<1>2. /\ durable' = durable /\ record' = record
      /\ \A q \in Pages : q # p => /\ page'[q] = page[q] /\ tail'[q] = tail[q]
                                   /\ phase'[q] = phase[q] /\ saver'[q] = saver[q]
      /\ tail'[p] = <<>>
  BY <1>1 DEF WriteFails, Crash
<1>3. \A op : Done(op) => Done(op)'
  BY DEF Lasting
<1>4. ASSUME NEW q \in Pages, q # p PROVE Chained(q)'
  <2>1. Chained(q) /\ (Busy(q)' <=> Busy(q))
    BY <1>2, <1>4 DEF ChainInv, Busy
  <2> QED
    BY <1>2, <1>3, <1>4, <2>1 DEF Chained
<1>5. /\ page'[p].broken \/ ~Busy(p)'
      /\ \/ ~(page'[p].answer > 0)
         \/ /\ page'[p].answer = page[p].answer /\ page'[p].inFlight = page[p].inFlight
            /\ page'[p].queue = page[p].queue /\ page'[p].confirmed = page[p].confirmed
  <2>1. CASE WriteFails(p)
    <3>1. page'[p] = [page[p] EXCEPT !.broken = TRUE]
      BY <1>1, <2>1 DEF WriteFails
    <3> QED
      BY <1>1, <3>1 DEF Memory
  <2>2. CASE Crash(p)
    <3>1. /\ page'[p] = [Empty EXCEPT !.restarted = page[p].restarted]
          /\ phase'[p] = "crashed" /\ saver'[p] = Idle
      BY <1>1, <2>2 DEF Crash
    <3>2. page'[p].inFlight = None /\ page'[p].answer = 0
      BY <3>1 DEF Empty
    <3> QED
      BY <3>1, <3>2 DEF Busy, Idle
  <2> QED
    BY <2>1, <2>2
<1>6. Chained(p)
  BY DEF ChainInv
<1>7. page'[p].answer > 0 /\ page'[p].inFlight \in Ops(ToSet(page'[p].queue)) =>
        Done(page'[p].inFlight) \/ page'[p].inFlight \in Ops(page'[p].confirmed)
  BY <1>5, <1>6 DEF Chained
<1>8. PICK n : n = page'[p]
  OBVIOUS
<1>9. n.answer > 0 /\ n.inFlight \in Ops(ToSet(n.queue)) =>
        Done(n.inFlight)' \/ n.inFlight \in Ops(n.confirmed)
  BY <1>3, <1>7, <1>8
<1>10. Chained(p)'
  BY <1>2, <1>5, <1>8, <1>9 DEF Chained
<1>11. \A op \in durable' : InJournal(op)'
  BY <1>2, <1>3 DEF ChainInv, InJournal
<1> QED
  BY <1>4, <1>10, <1>11 DEF ChainInv

LEMMA PurgeKeepsChain ==
  ASSUME NEW D, Base(D), NEW p \in Pages, Purge(p), ChainInv, Lasting
  PROVE  ChainInv'
<1>1. /\ page \in [Pages -> Memory(D)] /\ tail \in [Pages -> Seq(SUBSET Written(D))]
      /\ record \in [Pages -> SUBSET Written(D)] /\ phase \in [Pages -> Phases]
      /\ page[p] \in Memory(D)
  BY BaseFacts
<1>2. /\ durable' = durable /\ tail' = tail /\ tail[p] = <<>>
      /\ \A q \in Pages : record'[q] = {}
      /\ \A q \in Pages : q # p => page'[q] = page[q]
      /\ dropped' = dropped \cup UNION {Ops(record[q]) : q \in Pages}
  BY <1>1 DEF Purge, Flushed
<1>3. \A op : Done(op) => Done(op)'
  BY DEF Lasting
<1>4. \A q \in Pages : Ops(record'[q]) = {}
  BY <1>2 DEF Ops
<1>5. Ops(ToSet(page'[p].queue)) = {}
  <2>1. page'[p] = [page[p] EXCEPT !.queue = <<>>, !.confirmed = {}]
    BY <1>1 DEF Purge
  <2>2. page'[p].queue = <<>>
    BY <1>1, <2>1 DEF Memory
  <2> QED
    BY <2>2 DEF Ops, ToSet
<1>6. ASSUME NEW q \in Pages PROVE Chained(q)'
  <2>1. Chained(q)
    BY DEF ChainInv
  <2>2. CASE q = p
    BY <1>2, <1>4, <1>5, <2>2 DEF Chained
  <2>3. CASE q # p
    BY <1>2, <1>3, <1>4, <2>1, <2>3 DEF Chained
  <2> QED
    BY <2>2, <2>3
<1>7. \A op \in durable' : InJournal(op)'
  <2>1. ASSUME NEW op, NEW q \in Pages, op \in Ops(record[q]) PROVE Done(op)'
    BY <1>2, <2>1 DEF Done
  <2> QED
    BY <1>2, <1>3, <2>1 DEF ChainInv, InJournal
<1> QED
  BY <1>6, <1>7 DEF ChainInv

LEMMA OpenKeepsChain ==
  ASSUME NEW D, Base(D), NEW p \in Pages, Open(p), ChainInv, Lasting
  PROVE  ChainInv'
<1>1. /\ page \in [Pages -> Memory(D)] /\ record \in [Pages -> SUBSET Written(D)]
      /\ saver \in [Pages -> Saver] /\ phase \in [Pages -> Phases]
  BY BaseFacts
<1>2. tail[p] = <<>> /\ saver' = [saver EXCEPT ![p] = Idle]
  BY OpenCases
<1>3. PICK m, entries :
        /\ Took(p, m, entries)
        /\ \/ /\ entries = UNION {record[q] : q \in Claimed(p)}
              /\ record' = Retired(p, Claimed(p), entries)
              /\ \E f : phase' = [phase EXCEPT ![p] = f]
           \/ /\ entries = {} /\ record' = record
              /\ phase' = [phase EXCEPT ![p] = "stopped"]
  BY OpenCases
<1>4. /\ page'[p] = m /\ \A q \in Pages : q # p => page'[q] = page[q]
      /\ tail' = tail /\ durable' = durable /\ saver'[p] = Idle
      /\ Ops(ToSet(m.queue)) = Ops(entries) /\ m.inFlight = None /\ m.answer = 0
  BY <1>1, <1>2, <1>3 DEF Took
<1>5. \A op : Done(op) => Done(op)'
  BY DEF Lasting
<1>6. \A q \in Pages : q # p => record'[q] \in {record[q], {}} /\ (Busy(q)' => Busy(q))
  <2>1. \A q \in Pages : q # p => phase'[q] = phase[q] /\ saver'[q] = saver[q]
    BY <1>1, <1>2, <1>3
  <2> QED
    BY <1>3, <1>4, <2>1 DEF Retired, Busy
<1>7. ASSUME NEW q \in Pages, q # p PROVE Chained(q)'
  <2>1. Chained(q) /\ Ops({}) = {}
    BY DEF ChainInv, Ops
  <2>2. page'[q] = page[q] /\ tail'[q] = tail[q] /\ (Busy(q)' => Busy(q))
    BY <1>4, <1>6, <1>7
  <2>3. \A op \in Ops(record'[q]) : op \in Ops(record[q])
    BY <1>6, <1>7, <2>1
  <2> QED
    BY <1>5, <2>1, <2>2, <2>3 DEF Chained
<1>8. Busy(p)' => Ops(record'[p]) \subseteq Held(m)
  <2>1. CASE record' = Retired(p, Claimed(p), entries)
    BY <1>4, <2>1 DEF Retired, Held
  <2>2. CASE phase' = [phase EXCEPT ![p] = "stopped"]
    <3>1. phase'[p] = "stopped"
      BY <1>1, <2>2
    <3> QED
      BY <1>4, <3>1 DEF Busy, Idle
  <2> QED
    BY <1>3, <2>1, <2>2
<1>9. Chained(p)'
  <2>1. ~(m.answer > 0) /\ tail'[p] = <<>>
    BY <1>2, <1>4
  <2> QED
    BY <1>4, <1>8, <2>1 DEF Chained
<1>10. ASSUME NEW op \in durable' PROVE InJournal(op)'
  <2>1. ASSUME NEW q \in Pages, op \in Ops(record[q]) PROVE \E r \in Pages : op \in Ops(record'[r])
    <3>1. CASE record' = record
      BY <2>1, <3>1
    <3>2. CASE /\ entries = UNION {record[r] : r \in Claimed(p)}
               /\ record' = Retired(p, Claimed(p), entries)
      <4>1. CASE q \in Claimed(p)
        <5>1. op \in Ops(entries) /\ record'[p] = entries
          BY <2>1, <3>2, <4>1 DEF Ops, Retired
        <5> QED
          BY <5>1
      <4>2. CASE q \notin Claimed(p)
        <5>1. record'[q] = record[q]
          BY <3>2, <4>2 DEF Retired, Claimed
        <5> QED
          BY <2>1, <5>1
      <4> QED
        BY <4>1, <4>2
    <3> QED
      BY <1>3, <3>1, <3>2
  <2> QED
    BY <1>4, <1>5, <2>1 DEF ChainInv, InJournal
<1> QED
  BY <1>7, <1>9, <1>10 DEF ChainInv
LEMMA PageStepsKeepChain ==
  ASSUME NEW D, Base(D), IInv', NEW p \in Pages, ChainInv,
         \/ Open(p) \/ Close(p) \/ Release(p) \/ Crash(p) \/ Discard(p) \/ Purge(p)
         \/ Write(p) \/ WriteFails(p)
         \/ TimerFires(p) \/ Save(p) \/ CheckpointSaved(p) \/ Covered(p)
         \/ CheckpointFails(p) \/ CoverFails(p)
         \/ Check(p) \/ Finish(p) \/ Draft(p) \/ Send(p) \/ Answer(p) \/ Acknowledge(p) \/ Fails(p)
  PROVE  ChainInv'
<1>1. Lasting
  BY PageStepsLast
<1>2. CASE Open(p) \/ Crash(p) \/ Purge(p) \/ Write(p) \/ WriteFails(p)
  BY <1>1, <1>2, OpenKeepsChain, LosingKeepsChain, PurgeKeepsChain, WriteKeepsChain
<1>3. CASE Release(p) \/ TimerFires(p) \/ Save(p) \/ Covered(p)
  BY <1>1, <1>3, QuietSteps, QuietStepsKeepChain
<1>4. CASE CheckpointFails(p) \/ CoverFails(p) \/ Send(p) \/ Fails(p)
  BY <1>1, <1>4, QuietSteps, QuietStepsKeepChain
<1>5. CASE Close(p)
  <2>1. Quiet \/ (page[p].answer > 0 /\ Persisted(p, Answered(page[p])))
    BY <1>5, CloseCases
  <2> QED
    BY <1>1, <1>5, <2>1, QuietStepsKeepChain, AcknowledgeKeepsChain
<1>6. CASE Check(p) \/ Finish(p)
  BY <1>1, <1>6, QuietStepsKeepChain, CheckKeepsChain, FinishKeepsChain
<1>7. CASE Discard(p) \/ CheckpointSaved(p)
  BY <1>1, <1>7, DiscardKeepsChain, CheckpointKeepsChain
<1>8. CASE Draft(p) \/ Answer(p)
  BY <1>1, <1>8, DraftKeepsChain, AnswerKeepsChain
<1>9. CASE Acknowledge(p)
  <2>1. page[p].answer > 0 /\ Dequeued(p)
    BY <1>9 DEF Acknowledge
  <2>2. Quiet \/ Persisted(p, Answered(page[p]))
    BY <2>1, DequeuedCases
  <2> QED
    BY <1>1, <1>9, <2>1, <2>2, QuietStepsKeepChain, AcknowledgeKeepsChain
<1> QED
  BY <1>2, <1>3, <1>4, <1>5, <1>6, <1>7, <1>8, <1>9

LEMMA StepsKeepChain ==
  ASSUME IInv, IInv', ChainInv, [Next]_vars
  PROVE  ChainInv'
<1> PICK D \in SUBSET Op : Base(D)
  BY DEF IInv
<1>1. ASSUME NEW p \in Pages,
             \/ Open(p) \/ Close(p) \/ Release(p) \/ Crash(p) \/ Discard(p) \/ Purge(p)
             \/ Write(p) \/ WriteFails(p)
             \/ TimerFires(p) \/ Save(p) \/ CheckpointSaved(p) \/ Covered(p)
             \/ CheckpointFails(p) \/ CoverFails(p)
             \/ Check(p) \/ Finish(p) \/ Draft(p) \/ Send(p) \/ Answer(p) \/ Acknowledge(p)
             \/ Fails(p)
      PROVE  ChainInv'
  BY <1>1, PageStepsKeepChain
<1>2. CASE (\E op \in network : Handle(op) \/ Refuse(op)) \/ UNCHANGED vars
  <2>1. /\ UNCHANGED <<storage, phase, page, saver, saved, sent, dropped>>
        /\ Len(log) <= Len(log') /\ \A k \in 1 .. Len(log) : log'[k] = log[k]
    BY <1>2, ServerSteps
  <2>2. saved \in Nat /\ saved \in 0 .. Len(log) /\ Len(log) \in Nat
    BY BaseFacts
  <2>3. \A k \in 1 .. saved : log'[k] = log[k]
    BY <2>1, <2>2
  <2>4. Lasting
    BY <2>1, <2>2, <2>3, DoneLasts
  <2>5. \A q \in Pages : Busy(q)' => Busy(q)
    BY <2>1 DEF Busy
  <2> QED
    BY <2>1, <2>4, <2>5, QuietKeepsChain
<1> QED
  BY <1>1, <1>2 DEF Next

\* What was in the journal and was not given up is in a record, or a checkpoint
\* covers its commit: a page that writes its record again, takes records over,
\* drops what is covered or loses its writes never lets an operation slip.
THEOREM DraftsAreKept == Spec => []NoDraftLost
<1>1. Init => ChainInv
  BY DEF Init, ChainInv, Chained, Empty, Ops, ToSet
<1>2. IInv /\ IInv' /\ ChainInv /\ [Next]_vars => ChainInv'
  BY StepsKeepChain
<1>3. ASSUME IInv, ChainInv PROVE NoDraftLost
  <2> PICK D \in SUBSET Op : Base(D)
    BY <1>3 DEF IInv
  <2>1. saved \in Nat /\ saved \in 0 .. Len(log) /\ Len(log) \in Nat /\ DOMAIN log = 1 .. Len(log)
    BY BaseFacts
  <2>2. ASSUME NEW op, NEW k \in 1 .. saved, log[k] = op
        PROVE  Committed(op) /\ RevisionOf(op) <= saved
    <3>1. k \in DOMAIN log
      BY <2>1
    <3>2. Committed(op)
      BY <2>2, <3>1 DEF Committed
    <3>3. RevisionOf(op) = k
      <4>1. log \in Seq(D)
        BY BaseFacts
      <4>2. RevisionOf(op) \in DOMAIN log /\ log[RevisionOf(op)] = op
        BY <2>1, <3>2, <4>1, RevisionOfCommitted
      <4> QED
        BY <2>2, <3>1, <4>2 DEF Base, CommittedOnce
    <3> QED
      BY <2>1, <3>2, <3>3
  <2> QED
    BY <1>3, <2>2 DEF ChainInv, InJournal, Done, NoDraftLost
<1> QED
  BY <1>1, <1>2, <1>3, InvariantHolds, PTL DEF Spec
-----------------------------------------------------------------------------
(* A document contains each operation once. *)

Replayed(m) ==
  /\ \A k \in 1 .. m.hydrated : log[k] \notin m.applied
  /\ Ops(ToSet(m.queue)) \subseteq m.applied
  /\ \A c \in m.confirmed : c.revision <= m.hydrated \/ c.op \in m.applied

\* The document of the page is the same, and nothing new waits in its queue.
Keeps(m, n) ==
  /\ m.hydrated = n.hydrated /\ m.applied = n.applied
  /\ Ops(ToSet(m.queue)) \subseteq Ops(ToSet(n.queue))
  /\ \A c \in m.confirmed : c \in n.confirmed \/ c.op \in Ops(ToSet(n.queue))

LEMMA KeepingReplays ==
  ASSUME NEW D, Base(D), NEW q \in Pages, \A k \in 1 .. Len(log) : log'[k] = log[k],
         NEW m, m = page'[q], NEW n, n = page[q], Replayed(n), Keeps(m, n)
  PROVE  Replayed(m)'
<1>1. n \in Memory(D) /\ GoodMemory(n, log) /\ Len(log) \in Nat
  BY BaseFacts, PageFacts
<1>2. n.hydrated \in Nat /\ n.hydrated <= Len(log)
  BY <1>1 DEF Memory, GoodMemory
<1>3. \A k \in 1 .. m.hydrated : log'[k] \notin m.applied
  BY <1>1, <1>2 DEF Keeps, Replayed
<1>4. Ops(ToSet(m.queue)) \subseteq m.applied
  BY DEF Keeps, Replayed
<1>5. \A c \in m.confirmed : c.revision <= m.hydrated \/ c.op \in m.applied
  BY DEF Keeps, Replayed
<1> QED
  BY <1>3, <1>4, <1>5 DEF Replayed

\* A page that is ready was ready before, and keeps its document, or drafted an
\* operation, or has just replayed its queue.
LEMMA KeepingSteps ==
  ASSUME NEW D, Base(D), NEW p \in Pages, phase'[p] = "ready",
         \/ Open(p) \/ Close(p) \/ Release(p) \/ Crash(p) \/ Discard(p) \/ Purge(p)
         \/ Write(p) \/ WriteFails(p)
         \/ TimerFires(p) \/ Save(p) \/ CheckpointSaved(p) \/ Covered(p)
         \/ CheckpointFails(p) \/ CoverFails(p)
         \/ Check(p) \/ Send(p) \/ Answer(p) \/ Acknowledge(p) \/ Fails(p)
  PROVE  phase[p] = "ready" /\ log' = log /\ Keeps(page'[p], page[p])
<1>1. /\ page[p] \in Memory(D) /\ page \in [Pages -> Memory(D)] /\ GoodMemory(page[p], log)
      /\ log \in Seq(D) /\ phase \in [Pages -> Phases] /\ phase[p] \in Phases
  BY BaseFacts, PageFacts
<1>2. ASSUME Alike(page'[p], page[p]) PROVE Keeps(page'[p], page[p])
  BY <1>2 DEF Alike, Keeps
<1>3. CASE Open(p) \/ Close(p) \/ Crash(p) \/ Discard(p) \/ Purge(p) \/ Fails(p)
  <2>1. \E f \in {"checking", "stopped", "closing", "crashed"} : phase' = [phase EXCEPT ![p] = f]
    BY <1>3 DEF Open, Opened, Close, Crash, Discard, Purge, Fails, Stop
  <2> QED
    BY <1>1, <2>1
<1>4. CASE Check(p)
  <2>1. phase[p] = "checking" /\ (phase' = phase \/ phase' = [phase EXCEPT ![p] = "stopped"])
    BY <1>4 DEF Check, Stop
  <2> QED
    BY <1>1, <2>1
<1>5. CASE Release(p)
  <2>1. phase' = [phase EXCEPT ![p] = "closed"]
    BY <1>5 DEF Release
  <2> QED
    BY <1>1, <2>1
<1>6. CASE TimerFires(p) \/ Save(p) \/ Covered(p) \/ Send(p)
  <2>1. phase' = phase /\ log' = log
    BY <1>6 DEF TimerFires, Save, StartFlush, Covered, Send, server
  <2>2. Alike(page'[p], page[p])
    BY <1>6, QuietSteps DEF Quiet
  <2> QED
    BY <1>2, <2>1, <2>2
<1>7. CASE CheckpointFails(p) \/ CoverFails(p)
  <2>1. (phase' = phase \/ phase' = [phase EXCEPT ![p] = "stopped"]) /\ log' = log
    BY <1>7 DEF CheckpointFails, CoverFails, Failed, Stop, server
  <2>2. Alike(page'[p], page[p])
    BY <1>7, QuietSteps DEF Quiet
  <2> QED
    BY <1>1, <1>2, <2>1, <2>2
<1>8. CASE Write(p)
  BY <1>8 DEF Write, Keeps, server
<1>9. CASE WriteFails(p)
  <2>1. phase' = phase /\ log' = log /\ page'[p] = [page[p] EXCEPT !.broken = TRUE]
    BY <1>1, <1>9 DEF WriteFails, server
  <2> QED
    BY <1>1, <2>1 DEF Keeps, Memory
<1>10. CASE CheckpointSaved(p)
  <2>1. /\ phase' = phase /\ log' = log
        /\ page'[p] = [page[p] EXCEPT !.confirmed = Uncovered(page[p], Len(log))]
    BY <1>1, <1>10 DEF CheckpointSaved, Persisted
  <2> QED
    BY <1>1, <2>1 DEF Keeps, Memory, Uncovered
<1>11. CASE Acknowledge(p)
  <2>1. phase' = phase /\ log' = log /\ page'[p] = Answered(page[p]) /\ page[p].answer > 0
    BY <1>1, <1>11 DEF Acknowledge, Dequeued, Persisted, server
  <2>2. LET a == Answered(page[p])
        IN  /\ Ops(ToSet(a.queue)) = Ops(ToSet(page[p].queue)) \ {page[p].inFlight}
            /\ a.confirmed = page[p].confirmed
            /\ a.hydrated = page[p].hydrated /\ a.applied = page[p].applied
    BY <1>1, <2>1, AnsweredProperties
  <2> QED
    BY <2>1, <2>2 DEF Keeps
<1>12. CASE Answer(p)
  <2>1. PICK m :
          /\ Persisted(p, m) /\ UNCHANGED <<phase, log>> /\ page[p].inFlight # None
          /\ m.confirmed = page[p].confirmed \cup
               {[op |-> page[p].inFlight, base |-> page[p].sentBase,
                 revision |-> RevisionOf(page[p].inFlight)]}
          /\ m.queue = page[p].queue
          /\ m.hydrated = page[p].hydrated /\ m.applied = page[p].applied
    BY <1>12, AnswerCases
  <2>2. page'[p] = m
    BY <1>1, <2>1 DEF Persisted
  <2>3. phase[p] = "ready" /\ log' = log
    BY <2>1
  <2>4. page[p].inFlight \in Ops(ToSet(page[p].queue))
    BY <2>1, <2>3, PageFacts DEF GoodPhase
  <2>5. \A d \in m.confirmed : d \in page[p].confirmed \/ d.op \in Ops(ToSet(page[p].queue))
    BY <2>1, <2>4
  <2>6. Keeps(m, page[p])
    BY <2>1, <2>5 DEF Keeps
  <2> QED
    BY <2>2, <2>3, <2>6
<1> QED
  BY <1>3, <1>4, <1>5, <1>6, <1>7, <1>8, <1>9, <1>10, <1>11, <1>12
LEMMA DraftReplays ==
  ASSUME NEW D, Base(D), NEW p \in Pages, Draft(p), Replayed(page[p]), NEW n, n = page'[p]
  PROVE  Replayed(n)'
<1>1. PICK op, m, F : op = DraftOf(p) /\ m = DraftedMemory(p) /\ F = With(D, op)
  OBVIOUS
<1>2. /\ phase[p] = "ready" /\ drafts < MaxDrafts /\ Persisted(p, m) /\ log' = log
  BY <1>1 DEF Draft, DraftOf, DraftedMemory, server
<1>3. /\ Ops(ToSet(m.queue)) = With(Ops(ToSet(page[p].queue)), op) /\ m.confirmed = page[p].confirmed
      /\ m.applied = With(page[p].applied, op) /\ m.hydrated = page[p].hydrated
      /\ op \notin D
  BY <1>1, <1>2, DraftProperties
<1>4. n = m
  <2>1. page \in [Pages -> Memory(D)]
    BY BaseFacts
  <2> QED
    BY <1>2, <2>1 DEF Persisted
<1>5. \A k \in 1 .. m.hydrated : log[k] # op
  <2>1. /\ page[p].hydrated \in Nat /\ page[p].hydrated <= Len(log) /\ Len(log) \in Nat
        /\ log \in Seq(D)
    <3>1. page[p] \in Memory(D) /\ GoodMemory(page[p], log) /\ Len(log) \in Nat /\ log \in Seq(D)
      BY BaseFacts, PageFacts
    <3> QED
      BY <3>1 DEF Memory, GoodMemory
  <2>2. \A k \in 1 .. Len(log) : log[k] \in D
    BY <2>1, ElementOfSeq
  <2> QED
    BY <1>3, <2>1, <2>2
<1> QED
  BY <1>2, <1>3, <1>4, <1>5 DEF Replayed, With

LEMMA FinishReplays ==
  ASSUME NEW D, Base(D), IInv', NEW p \in Pages, Finish(p), phase'[p] = "ready",
         NEW n, n = page'[p]
  PROVE  Replayed(n)'
<1>1. /\ page \in [Pages -> Memory(D)] /\ phase \in [Pages -> Phases] /\ log \in Seq(D)
      /\ Len(log) \in Nat /\ DOMAIN log = 1 .. Len(log)
  BY BaseFacts
<1>2. ~(phase' = [phase EXCEPT ![p] = "stopped"])
  BY <1>1
<1>3. PICK m :
        /\ Persisted(p, m) \/ page' = [page EXCEPT ![p] = m]
        /\ Ops(ToSet(m.queue)) = {op \in Ops(ToSet(page[p].queue)) : ~Committed(op)}
        /\ m.hydrated = Len(log) /\ m.applied = Ops(ToSet(m.queue))
  <2>1. PICK m : FinishesWith(p, m)
    BY <1>2, FinishCases
  <2> QED
    BY ONLY <2>1 DEF FinishesWith
<1>4. n = m /\ log' = log
  BY <1>1, <1>3 DEF Persisted, Finish, server
<1>5. \A k \in 1 .. n.hydrated : log'[k] \notin n.applied
  BY <1>1, <1>3, <1>4 DEF Committed
<1>6. \A c \in n.confirmed : c.revision <= n.hydrated
  <2>1. PICK E : Base(E)'
    BY DEF IInv
  <2>2. GoodMemory(n, log)
    <3>1. GoodPage(p)'
      BY <2>1 DEF Base
    <3> QED
      BY <1>4, <3>1 DEF GoodPage, GoodMemory
  <2> QED
    BY <1>1, <1>3, <1>4, <2>2 DEF GoodMemory
<1> QED
  BY <1>3, <1>4, <1>5, <1>6 DEF Replayed

LEMMA PageStepsReplay ==
  ASSUME NEW D, Base(D), IInv', NEW p \in Pages, ReplayedOnce,
         \/ Open(p) \/ Close(p) \/ Release(p) \/ Crash(p) \/ Discard(p) \/ Purge(p)
         \/ Write(p) \/ WriteFails(p)
         \/ TimerFires(p) \/ Save(p) \/ CheckpointSaved(p) \/ Covered(p)
         \/ CheckpointFails(p) \/ CoverFails(p)
         \/ Check(p) \/ Finish(p) \/ Draft(p) \/ Send(p) \/ Answer(p) \/ Acknowledge(p) \/ Fails(p)
  PROVE  ReplayedOnce'
<1>1. /\ page \in [Pages -> Memory(D)] /\ phase \in [Pages -> Phases]
      /\ Len(log) \in Nat
  BY BaseFacts
<1>2. \A q \in Pages : phase[q] = "ready" => Replayed(page[q])
  BY DEF ReplayedOnce, Replayed
<1>3. /\ log' = log
      /\ \A q \in Pages : q # p => phase'[q] = phase[q] /\ page'[q] = page[q]
  <2>1. CASE Open(p) \/ Close(p) \/ Release(p) \/ Crash(p) \/ Discard(p) \/ Purge(p)
    BY <1>1, <2>1 DEF Open, Opened, Stop, Close, Release, Crash, Discard, Purge, Dequeued,
                      Persisted, server
  <2>2. CASE \/ Write(p) \/ WriteFails(p) \/ TimerFires(p) \/ Save(p) \/ CheckpointSaved(p)
             \/ Covered(p) \/ CheckpointFails(p) \/ CoverFails(p)
    BY <1>1, <2>2 DEF Write, WriteFails, TimerFires, Save, StartFlush, CheckpointSaved, Covered,
                      CheckpointFails, CoverFails, Failed, Stop, Persisted, server
  <2>3. CASE \/ Check(p) \/ Finish(p) \/ Draft(p) \/ Send(p) \/ Answer(p) \/ Acknowledge(p)
             \/ Fails(p)
    BY <1>1, <2>3 DEF Check, Finish, Draft, Send, Answer, Acknowledge, Fails, Stop, Dequeued,
                      Persisted, server
  <2> QED
    BY <2>1, <2>2, <2>3
<1>4. ASSUME NEW q \in Pages, phase'[q] = "ready", NEW n, n = page'[q] PROVE Replayed(n)'
  <2>1. ASSUME phase[q] = "ready", Keeps(n, page[q]) PROVE Replayed(n)'
    <3>1. PICK o : o = page[q]
      OBVIOUS
    <3>2. Replayed(o) /\ Keeps(n, o) /\ \A k \in 1 .. Len(log) : log'[k] = log[k]
      BY <1>2, <1>3, <2>1, <3>1
    <3> QED
      BY <1>4, <3>1, <3>2, KeepingReplays
  <2>2. CASE q # p
    <3>1. phase[q] = "ready" /\ Keeps(n, page[q])
      BY <1>3, <1>4, <2>2 DEF Keeps
    <3> QED
      BY <2>1, <3>1
  <2>3. CASE q = p
    <3>1. CASE Finish(p)
      BY <1>4, <2>3, <3>1, FinishReplays
    <3>2. CASE Draft(p)
      <4>1. phase[p] = "ready"
        BY <3>2 DEF Draft
      <4> QED
        BY <1>2, <1>4, <2>3, <3>2, <4>1, DraftReplays
    <3>3. CASE ~Finish(p) /\ ~Draft(p)
      <4>1. phase[p] = "ready" /\ Keeps(page'[p], page[p])
        BY <1>4, <2>3, <3>3, KeepingSteps
      <4> QED
        BY <1>4, <2>1, <2>3, <4>1
    <3> QED
      BY <3>1, <3>2, <3>3
  <2> QED
    BY <2>2, <2>3
<1>5. ASSUME NEW q \in Pages, phase'[q] = "ready"
      PROVE  /\ \A k \in 1 .. page'[q].hydrated : log'[k] \notin page'[q].applied
             /\ Ops(ToSet(page'[q].queue)) \subseteq page'[q].applied
             /\ \A c \in page'[q].confirmed :
                  c.revision <= page'[q].hydrated \/ c.op \in page'[q].applied
  <2>1. PICK n : n = page'[q]
    OBVIOUS
  <2>2. Replayed(n)'
    BY <1>4, <1>5, <2>1
  <2> QED
    BY <2>1, <2>2 DEF Replayed
<1> QED
  BY <1>5 DEF ReplayedOnce

LEMMA StepsReplay ==
  ASSUME IInv, IInv', ReplayedOnce, [Next]_vars
  PROVE  ReplayedOnce'
<1> PICK D \in SUBSET Op : Base(D)
  BY DEF IInv
<1>1. ASSUME NEW p \in Pages,
             \/ Open(p) \/ Close(p) \/ Release(p) \/ Crash(p) \/ Discard(p) \/ Purge(p)
             \/ Write(p) \/ WriteFails(p)
             \/ TimerFires(p) \/ Save(p) \/ CheckpointSaved(p) \/ Covered(p)
             \/ CheckpointFails(p) \/ CoverFails(p)
             \/ Check(p) \/ Finish(p) \/ Draft(p) \/ Send(p) \/ Answer(p) \/ Acknowledge(p)
             \/ Fails(p)
      PROVE  ReplayedOnce'
  BY <1>1, PageStepsReplay
<1>2. CASE (\E op \in network : Handle(op) \/ Refuse(op)) \/ UNCHANGED vars
  <2>1. phase' = phase /\ page' = page /\ \A k \in 1 .. Len(log) : log'[k] = log[k]
    BY <1>2, ServerSteps
  <2>2. ASSUME NEW q \in Pages, phase[q] = "ready", NEW n, n = page[q] PROVE Replayed(n)'
    <3>1. Replayed(n) /\ Keeps(n, n) /\ n = page'[q]
      BY <2>1, <2>2 DEF ReplayedOnce, Replayed, Keeps
    <3> QED
      BY <2>1, <2>2, <3>1, KeepingReplays
  <2>3. ASSUME NEW q \in Pages, phase[q] = "ready"
        PROVE  /\ \A k \in 1 .. page[q].hydrated : log'[k] \notin page[q].applied
               /\ Ops(ToSet(page[q].queue)) \subseteq page[q].applied
               /\ \A c \in page[q].confirmed :
                    c.revision <= page[q].hydrated \/ c.op \in page[q].applied
    <3>1. PICK n : n = page[q]
      OBVIOUS
    <3>2. Replayed(n)'
      BY <2>2, <2>3, <3>1
    <3> QED
      BY <3>1, <3>2 DEF Replayed
  <2> QED
    BY <2>1, <2>3 DEF ReplayedOnce
<1> QED
  BY <1>1, <1>2 DEF Next

\* A document holds no operation twice: what a page applied on its snapshot is
\* not in the snapshot, and what it sends or was told to be committed is in one.
THEOREM DocumentsReplayOnce == Spec => []ReplayedOnce
<1>1. Init => ReplayedOnce
  BY DEF Init, ReplayedOnce
<1>2. IInv /\ IInv' /\ ReplayedOnce /\ [Next]_vars => ReplayedOnce'
  BY StepsReplay
<1> QED
  BY <1>1, <1>2, InvariantHolds, PTL DEF Spec-----------------------------------------------------------------------------
(* What a page would load can be loaded. *)

Single(entries) == \A e, f \in entries : e.op = f.op => e = f

Settled(m) == \A i \in DOMAIN m.queue : m.queue[i].fixed

\* An operation has one place in the queue, and one base in a memory once it
\* was sent or confirmed.
Consistent(m) ==
  /\ \A i, j \in DOMAIN m.queue : m.queue[i].op = m.queue[j].op => i = j
  /\ \A c, d \in m.confirmed : c.op = d.op => c.base = d.base
  /\ m.inFlight # None =>
       \A c \in m.confirmed : c.op = m.inFlight => c.base = m.sentBase
  /\ \A i \in DOMAIN m.queue :
       /\ \A c \in m.confirmed :
            c.op = m.queue[i].op => c.base = m.queue[i].base /\ m.queue[i].fixed
       /\ m.inFlight # None /\ m.queue[i].op = m.inFlight =>
            m.queue[i].base = m.sentBase /\ m.queue[i].fixed

\* What is in flight is that of the other memory, or nothing.
Flies(a, m) == a.inFlight = None \/ (a.inFlight = m.inFlight /\ a.sentBase = m.sentBase)

\* What a memory holds, and what it awaits an answer for.
Has(m) == Held(m) \cup ({m.inFlight} \ {None})

Sound(p) ==
  /\ Consistent(page[p])
  /\ phase[p] = "checking" => Settled(page[p])
  /\ Single(record[p]) /\ \A i \in DOMAIN tail[p] : Single(tail[p][i])

\* The operations of a page: in its record, on the way there, or in its memory.
Holds(p) ==
  Ops(record[p]) \cup (UNION {Ops(tail[p][i]) : i \in DOMAIN tail[p]})
    \cup (IF Owned(p) THEN Has(page[p]) ELSE {})

Apart ==
  /\ \A p \in Pages : Sound(p)
  /\ \A p, q \in Pages : p # q => Holds(p) \cap Holds(q) = {}

ApartInv == (\A r \in Pages : ~page[r].restarted) => Apart

\* The queue of a is a part of the queue of m, in which only bases differ.
Part(a, m) ==
  \E f \in [DOMAIN a.queue -> DOMAIN m.queue] :
    /\ \A i, j \in DOMAIN a.queue : f[i] = f[j] => i = j
    /\ \A i \in DOMAIN a.queue :
         /\ a.queue[i].op = m.queue[f[i]].op
         /\ m.queue[f[i]].fixed => a.queue[i].fixed /\ a.queue[i].base = m.queue[f[i]].base

LEMMA PartIsConsistent ==
  ASSUME NEW m, NEW a, Part(a, m), a.confirmed \subseteq m.confirmed,
         Flies(a, m), Consistent(m)
  PROVE  Consistent(a) /\ (Settled(m) => Settled(a))
<1>1. PICK f \in [DOMAIN a.queue -> DOMAIN m.queue] :
        /\ \A i, j \in DOMAIN a.queue : f[i] = f[j] => i = j
        /\ \A i \in DOMAIN a.queue :
             /\ a.queue[i].op = m.queue[f[i]].op
             /\ m.queue[f[i]].fixed => a.queue[i].fixed /\ a.queue[i].base = m.queue[f[i]].base
  BY DEF Part
<1>2. \A i \in DOMAIN a.queue : f[i] \in DOMAIN m.queue
  BY <1>1
<1>3. \A i, j \in DOMAIN a.queue : a.queue[i].op = a.queue[j].op => i = j
  BY <1>1, <1>2 DEF Consistent
<1>4. /\ \A c, d \in a.confirmed : c.op = d.op => c.base = d.base
      /\ a.inFlight # None =>
           \A c \in a.confirmed : c.op = a.inFlight => c.base = a.sentBase
  BY DEF Consistent, Flies
<1>5. ASSUME NEW i \in DOMAIN a.queue
      PROVE  /\ \A c \in a.confirmed :
                  c.op = a.queue[i].op => c.base = a.queue[i].base /\ a.queue[i].fixed
             /\ a.inFlight # None /\ a.queue[i].op = a.inFlight =>
                  a.queue[i].base = a.sentBase /\ a.queue[i].fixed
  <2>1. PICK j \in DOMAIN m.queue :
          /\ a.queue[i].op = m.queue[j].op
          /\ m.queue[j].fixed => a.queue[i].fixed /\ a.queue[i].base = m.queue[j].base
    BY <1>1, <1>2
  <2>2. \A c \in a.confirmed :
          c.op = a.queue[i].op => c.base = a.queue[i].base /\ a.queue[i].fixed
    BY <2>1 DEF Consistent
  <2>3. a.inFlight # None /\ a.queue[i].op = a.inFlight =>
          a.queue[i].base = a.sentBase /\ a.queue[i].fixed
    BY <2>1 DEF Consistent, Flies
  <2> QED
    BY <2>2, <2>3
<1>6. Settled(m) => Settled(a)
  BY <1>1, <1>2 DEF Settled
<1> QED
  BY <1>3, <1>4, <1>5, <1>6 DEF Consistent

LEMMA AcknowledgedPart ==
  ASSUME NEW D, NEW m \in Memory(D), NEW ops, NEW r \in Nat,
         NEW a, a = Acknowledged(m, ops, r)
  PROVE  Part(a, m)
<1> DEFINE E == [op : D, base : Nat, fixed : BOOLEAN]
           K == {i \in DOMAIN m.queue : m.queue[i].op \notin ops}
           rest == Kept(m.queue, K)
           latest == IF r > m.revision THEN r ELSE m.revision
           q == [i \in DOMAIN rest |-> IF rest[i].fixed THEN rest[i]
                                       ELSE [rest[i] EXCEPT !.base = latest + i - 1]]
           f == [i \in DOMAIN rest |-> Nth(K, i)]
<1>1. m.queue \in Seq(E) /\ DOMAIN m.queue = 1 .. Len(m.queue) /\ Len(m.queue) \in Nat
  BY LenProperties DEF Memory
<1>2. a.queue = q
  BY DEF Acknowledged, Memory
<1> HIDE DEF latest
<1>3. K \in SUBSET DOMAIN m.queue
  OBVIOUS
<1>4. /\ rest \in Seq(E) /\ DOMAIN rest = 1 .. Cardinality(K)
      /\ \A i \in DOMAIN rest : Nth(K, i) \in K /\ rest[i] = m.queue[Nth(K, i)]
      /\ \A i, j \in DOMAIN rest : i < j => Nth(K, i) < Nth(K, j)
  <2> HIDE DEF K, E
  <2>1. /\ rest \in Seq(E) /\ DOMAIN rest = 1 .. Cardinality(K)
        /\ \A i \in 1 .. Cardinality(K) : Nth(K, i) \in K /\ rest[i] = m.queue[Nth(K, i)]
        /\ \A i, j \in 1 .. Cardinality(K) : i < j => Nth(K, i) < Nth(K, j)
    BY <1>1, <1>3, KeptProperties
  <2> HIDE DEF rest
  <2> QED
    BY <2>1
<1>5. \A i \in DOMAIN rest : rest[i] \in E
  <2> HIDE DEF K, E, rest
  <2> QED
    BY <1>4, LenProperties, ElementOfSeq
<1> HIDE DEF rest
<1>6. /\ DOMAIN q = DOMAIN rest
      /\ \A i \in DOMAIN rest : q[i].op = rest[i].op /\ (rest[i].fixed => q[i] = rest[i])
  BY <1>5
<1> HIDE DEF q, E
<1>7. f \in [DOMAIN a.queue -> DOMAIN m.queue] /\ \A i \in DOMAIN rest : f[i] = Nth(K, i)
  <2> HIDE DEF K
  <2> QED
    BY <1>2, <1>3, <1>4, <1>6
<1>8. ASSUME NEW i \in DOMAIN a.queue, NEW j \in DOMAIN a.queue, f[i] = f[j] PROVE i = j
  <2>1. i \in DOMAIN rest /\ j \in DOMAIN rest /\ Nth(K, i) = Nth(K, j)
    BY <1>2, <1>6, <1>7, <1>8
  <2>2. i \in Int /\ j \in Int /\ Nth(K, i) \in Int
    <3>1. Nth(K, i) \in 1 .. Len(m.queue)
      BY <1>1, <1>3, <1>4, <2>1
    <3> QED
      BY <1>1, <1>4, <2>1, <3>1
  <2> HIDE DEF K, f
  <2> QED
    BY <1>4, <2>1, <2>2
<1>9. ASSUME NEW i \in DOMAIN a.queue
      PROVE  /\ a.queue[i].op = m.queue[f[i]].op
             /\ m.queue[f[i]].fixed => a.queue[i].fixed /\ a.queue[i].base = m.queue[f[i]].base
  <2>1. i \in DOMAIN rest /\ rest[i] = m.queue[f[i]]
    <3> HIDE DEF K, f
    <3> QED
      BY <1>2, <1>4, <1>6, <1>7, <1>9
  <2> HIDE DEF K, f
  <2> QED
    BY <1>2, <1>6, <2>1
<1> HIDE DEF f
<1> QED
  BY <1>7, <1>8, <1>9 DEF Part

LEMMA AcknowledgedConsistent ==
  ASSUME NEW D, NEW m \in Memory(D), NEW ops, NEW r \in Nat, Consistent(m),
         NEW a, a = Acknowledged(m, ops, r)
  PROVE  Consistent(a) /\ (Settled(m) => Settled(a))
<1>1. a.confirmed = m.confirmed /\ Flies(a, m)
  BY AcknowledgedProperties DEF Flies
<1>2. Part(a, m)
  BY AcknowledgedPart
<1> QED
  BY <1>1, <1>2, PartIsConsistent

\* What is confirmed is noted with the base under which it was sent.
LEMMA ConfirmedConsistent ==
  ASSUME NEW m, NEW a, NEW new, Consistent(m),
         a.confirmed = m.confirmed \cup new, a.queue = m.queue,
         a.inFlight = m.inFlight, a.sentBase = m.sentBase,
         \A c \in new : \A d \in a.confirmed : c.op = d.op => c.base = d.base,
         \A c \in new : \A i \in DOMAIN m.queue :
           c.op = m.queue[i].op => c.base = m.queue[i].base /\ m.queue[i].fixed,
         m.inFlight # None => \A c \in new : c.op = m.inFlight => c.base = m.sentBase
  PROVE  Consistent(a) /\ (Settled(m) => Settled(a))
<1>1. \A c, d \in a.confirmed : c.op = d.op => c.base = d.base
  BY DEF Consistent
<1>2. a.inFlight # None =>
        \A c \in a.confirmed : c.op = a.inFlight => c.base = a.sentBase
  BY DEF Consistent
<1>3. ASSUME NEW i \in DOMAIN a.queue
      PROVE  /\ \A c \in a.confirmed :
                  c.op = a.queue[i].op => c.base = a.queue[i].base /\ a.queue[i].fixed
             /\ a.inFlight # None /\ a.queue[i].op = a.inFlight =>
                  a.queue[i].base = a.sentBase /\ a.queue[i].fixed
  BY DEF Consistent
<1>4. \A i, j \in DOMAIN a.queue : a.queue[i].op = a.queue[j].op => i = j
  BY DEF Consistent
<1>5. Settled(m) => Settled(a)
  BY DEF Settled
<1> QED
  BY <1>1, <1>2, <1>3, <1>4, <1>5 DEF Consistent

\* An entry of the queue that was sent before, or restored.
LEMMA EntriesConsistent ==
  ASSUME NEW D, NEW m \in Memory(D), NEW entries, Consistent(m),
         \A e \in entries : \E i \in DOMAIN m.queue : e = m.queue[i] /\ m.queue[i].fixed,
         NEW a, a = Confirmed(m, entries)
  PROVE  Consistent(a) /\ (Settled(m) => Settled(a))
<1> DEFINE new == {[op |-> e.op, base |-> e.base, revision |-> RevisionOf(e.op)] : e \in entries}
<1>1. /\ a.confirmed = m.confirmed \cup new /\ a.queue = m.queue
      /\ a.inFlight = m.inFlight /\ a.sentBase = m.sentBase
  BY DEF Confirmed, Memory
<1>2. \A c \in new : \E i \in DOMAIN m.queue :
        c.op = m.queue[i].op /\ c.base = m.queue[i].base /\ m.queue[i].fixed
  <2>1. ASSUME NEW c \in new
        PROVE  \E i \in DOMAIN m.queue :
                 c.op = m.queue[i].op /\ c.base = m.queue[i].base /\ m.queue[i].fixed
    <3>1. PICK e \in entries : c.op = e.op /\ c.base = e.base
      OBVIOUS
    <3> HIDE DEF new
    <3> QED
      BY <3>1
  <2> QED
    BY ONLY <2>1
<1> HIDE DEF new
<1>3. \A c \in new : \A i \in DOMAIN m.queue :
        c.op = m.queue[i].op => c.base = m.queue[i].base /\ m.queue[i].fixed
  BY ONLY <1>2, Consistent(m) DEF Consistent
<1>4. \A c \in new : \A d \in m.confirmed : c.op = d.op => c.base = d.base
  BY ONLY <1>2, Consistent(m) DEF Consistent
<1>5. \A c \in new : \A d \in new : c.op = d.op => c.base = d.base
  BY ONLY <1>2, <1>3
<1>6. \A c \in new : \A d \in a.confirmed : c.op = d.op => c.base = d.base
  BY ONLY <1>1, <1>4, <1>5
<1>7. m.inFlight # None => \A c \in new : c.op = m.inFlight => c.base = m.sentBase
  BY ONLY <1>2, Consistent(m) DEF Consistent
<1> QED
  BY ONLY Consistent(m), <1>1, <1>3, <1>6, <1>7, ConfirmedConsistent

LEMMA CapturedSingle ==
  ASSUME NEW m, Consistent(m)
  PROVE  Single(Captured(m))
<1> DEFINE pending == {Entry(m.queue[i]) : i \in DOMAIN m.queue}
           kept == {Entry(c) : c \in {d \in m.confirmed : d.op \notin Ops(pending)}}
<1>1. Captured(m) = pending \cup kept
  BY DEF Captured
<1>2. \A e \in pending : \E i \in DOMAIN m.queue : e = Entry(m.queue[i]) /\ e.op = m.queue[i].op
  BY DEF Entry
<1>3. \A e \in pending : e.op \in Ops(pending)
  BY DEF Ops
<1>4. \A e \in kept : \E c \in m.confirmed : e = Entry(c) /\ e.op = c.op /\ c.op \notin Ops(pending)
  BY DEF Entry
<1> HIDE DEF pending, kept
<1>5. ASSUME NEW e \in pending, NEW f \in pending, e.op = f.op PROVE e = f
  BY <1>2, <1>5 DEF Consistent
<1>6. ASSUME NEW e \in kept, NEW f \in kept, e.op = f.op PROVE e = f
  BY <1>4, <1>6 DEF Consistent, Entry
<1>7. \A e \in pending, f \in kept : e.op # f.op
  BY <1>3, <1>4
<1> QED
  BY <1>1, <1>5, <1>6, <1>7 DEF Single
LEMMA HoldsKnown ==
  ASSUME NEW D, Base(D), NEW p \in Pages
  PROVE  Holds(p) \subseteq D
<1>1. /\ record[p] \in SUBSET Written(D) /\ tail[p] \in Seq(SUBSET Written(D))
      /\ Ops(ToSet(page[p].queue)) \subseteq D
      /\ page[p].confirmed \in SUBSET [op : D, base : Nat, revision : Nat]
      /\ page[p].inFlight \in D \cup {None}
  <2>1. page[p] \in Memory(D) /\ Ops(ToSet(page[p].queue)) \subseteq D
    BY PageFacts
  <2>2. /\ page[p].confirmed \in SUBSET [op : D, base : Nat, revision : Nat]
        /\ page[p].inFlight \in D \cup {None}
    BY <2>1 DEF Memory
  <2> QED
    BY <2>1, <2>2, BaseFacts
<1>2. Ops(record[p]) \subseteq D
  BY <1>1 DEF Ops, Written
<1>3. Ops(page[p].confirmed) \subseteq D
  BY <1>1 DEF Ops
<1>4. ASSUME NEW i \in DOMAIN tail[p] PROVE Ops(tail[p][i]) \subseteq D
  <2> DEFINE S == SUBSET Written(D)
  <2> HIDE DEF S
  <2>1. tail[p][i] \in S
    BY <1>1, LenProperties, ElementOfSeq DEF S
  <2> QED
    BY <2>1 DEF S, Ops, Written
<1> QED
  BY <1>1, <1>2, <1>3, <1>4 DEF Holds, Has, Held

\* The other pages keep what they have, or lose a record.
Still(p) ==
  \A q \in Pages : q # p => /\ page'[q] = page[q] /\ tail'[q] = tail[q] /\ phase'[q] = phase[q]
                            /\ record'[q] \subseteq record[q]

LEMMA StillHolds ==
  ASSUME NEW p \in Pages, Still(p), NEW q \in Pages, q # p
  PROVE  Holds(q)' \subseteq Holds(q) /\ (Sound(q) => Sound(q)')
<1>1. /\ page'[q] = page[q] /\ tail'[q] = tail[q] /\ phase'[q] = phase[q]
      /\ record'[q] \subseteq record[q]
  BY DEF Still
<1>2. Ops(record'[q]) \subseteq Ops(record[q])
  BY <1>1 DEF Ops
<1>3. Owned(q)' = Owned(q)
  BY <1>1 DEF Owned
<1>4. Holds(q)' \subseteq Holds(q)
  BY <1>1, <1>2, <1>3 DEF Holds
<1>5. ASSUME Sound(q) PROVE Sound(q)'
  <2>1. Single(record'[q])
    BY <1>1, <1>5 DEF Sound, Single
  <2> QED
    BY <1>1, <1>5, <2>1 DEF Sound
<1> QED
  BY <1>4, <1>5

LEMMA ApartStep ==
  ASSUME NEW p \in Pages, Still(p), page[p].restarted => page'[p].restarted, ApartInv,
         Apart /\ (\A r \in Pages : ~page[r].restarted) /\ ~page'[p].restarted =>
           Sound(p)' /\ \A q \in Pages : q # p => Holds(p)' \cap Holds(q)' = {}
  PROVE  ApartInv'
<1> SUFFICES ASSUME \A r \in Pages : ~page'[r].restarted PROVE Apart'
  BY DEF ApartInv
<1>1. Apart /\ \A r \in Pages : ~page[r].restarted
  <2>1. \A r \in Pages : ~page[r].restarted
    BY DEF Still
  <2> QED
    BY <2>1 DEF ApartInv
<1>2. Sound(p)' /\ \A q \in Pages : q # p => Holds(p)' \cap Holds(q)' = {}
  BY <1>1
<1>3. \A q \in Pages : q # p => Holds(q)' \subseteq Holds(q) /\ Sound(q)'
  BY <1>1, StillHolds DEF Apart
<1>4. \A q \in Pages : Sound(q)'
  BY <1>2, <1>3
<1>5. ASSUME NEW q \in Pages, NEW r \in Pages, q # r
      PROVE  Holds(q)' \cap Holds(r)' = {}
  <2>1. CASE q = p \/ r = p
    BY <1>2, <1>5, <2>1
  <2>2. CASE q # p /\ r # p
    <3>1. Holds(q) \cap Holds(r) = {}
      BY <1>1, <1>5 DEF Apart
    <3> QED
      BY <1>3, <2>2, <3>1
  <2> QED
    BY <2>1, <2>2
<1> QED
  BY <1>4, <1>5 DEF Apart

\* A page that holds less than before.
LEMMA LessKeepsApart ==
  ASSUME NEW p \in Pages, Still(p), page[p].restarted => page'[p].restarted, ApartInv,
         Sound(p) => Sound(p)', Holds(p)' \subseteq Holds(p)
  PROVE  ApartInv'
<1>1. ASSUME Apart
      PROVE  Sound(p)' /\ \A q \in Pages : q # p => Holds(p)' \cap Holds(q)' = {}
  <2>1. Sound(p)'
    BY <1>1 DEF Apart
  <2>2. ASSUME NEW q \in Pages, q # p PROVE Holds(p)' \cap Holds(q)' = {}
    <3>1. Holds(p) \cap Holds(q) = {}
      BY <1>1, <2>2 DEF Apart
    <3>2. Holds(q)' \subseteq Holds(q)
      BY <2>2, StillHolds
    <3> QED
      BY <3>1, <3>2
  <2> QED
    BY <2>1, <2>2
<1> QED
  BY <1>1, ApartStep

\* What a page makes of its memory, written or not.
Remembered(p, m) ==
  \/ Persisted(p, m)
  \/ page' = [page EXCEPT ![p] = m] /\ UNCHANGED storage

LEMMA RememberedProperties ==
  ASSUME NEW D, Base(D), NEW E, Base(E)', NEW p \in Pages, NEW m, Remembered(p, m),
         NEW f, phase' = [phase EXCEPT ![p] = f], Owned(p)
  PROVE  /\ Still(p) /\ page'[p] = m
         /\ Holds(p)' \subseteq Holds(p) \cup Has(m)
         /\ Sound(p) /\ Consistent(m) /\ (f = "checking" => Settled(m)) => Sound(p)'
<1>1. /\ page \in [Pages -> Memory(D)] /\ phase \in [Pages -> Phases]
  BY BaseFacts
<1>2. /\ page'[p] = m /\ record' = record
      /\ \A q \in Pages : q # p => page'[q] = page[q] /\ tail'[q] = tail[q]
      /\ phase'[p] = f /\ \A q \in Pages : q # p => phase'[q] = phase[q]
  <2>1. CASE Persisted(p, m)
    BY <1>1, <2>1, WrittenTail
  <2>2. CASE page' = [page EXCEPT ![p] = m] /\ UNCHANGED storage
    BY <1>1, <2>2 DEF storage
  <2> QED
    BY <1>1, <2>1, <2>2 DEF Remembered
<1>3. Still(p)
  BY <1>2 DEF Still
<1>4. \A i \in DOMAIN tail'[p] :
        \/ i \in DOMAIN tail[p] /\ tail'[p][i] = tail[p][i]
        \/ tail'[p][i] = Captured(m) /\ Ops(tail'[p][i]) = Held(m)
  <2>1. CASE tail'[p] = tail[p]
    BY <2>1
  <2>2. CASE Persisted(p, m) /\ ~m.broken
    <3>1. /\ DOMAIN tail[p] = 1 .. Len(tail[p]) /\ Len(tail[p]) \in Nat
          /\ DOMAIN tail'[p] = 1 .. Len(tail[p]) + 1
          /\ \A i \in 1 .. Len(tail[p]) : tail'[p][i] = tail[p][i]
          /\ tail'[p][Len(tail[p]) + 1] = Captured(m)
          /\ Ops(tail'[p][Len(tail[p]) + 1]) = Held(m)
      BY <2>2, WrittenTail
    <3>2. \A i \in DOMAIN tail'[p] : i \in 1 .. Len(tail[p]) \/ i = Len(tail[p]) + 1
      BY <3>1
    <3> QED
      BY <3>1, <3>2
  <2>3. CASE Persisted(p, m) /\ m.broken
    BY <2>1, <2>3 DEF Persisted
  <2> QED
    BY <2>1, <2>2, <2>3 DEF Remembered, storage
<1>5. Holds(p)' \subseteq Holds(p) \cup Has(m)
  <2>1. Ops(record'[p]) \subseteq Holds(p)
    BY <1>2 DEF Holds
  <2>2. \A i \in DOMAIN tail'[p] : Ops(tail'[p][i]) \subseteq Holds(p) \cup Has(m)
    BY <1>4 DEF Holds, Has
  <2> QED
    BY <1>2, <2>1, <2>2 DEF Holds
<1>6. ASSUME Sound(p), Consistent(m), f = "checking" => Settled(m)
      PROVE  Sound(p)'
  <2>1. \A i \in DOMAIN tail'[p] : Single(tail'[p][i])
    BY <1>4, <1>6, CapturedSingle DEF Sound
  <2> QED
    BY <1>2, <1>6, <2>1 DEF Sound
<1> QED
  BY <1>2, <1>3, <1>5, <1>6

LEMMA RememberingKeepsApart ==
  ASSUME NEW D, Base(D), NEW E, Base(E)', NEW p \in Pages, NEW m, Remembered(p, m),
         NEW f, phase' = [phase EXCEPT ![p] = f], Owned(p),
         page[p].restarted => m.restarted, Has(m) \subseteq Has(page[p]),
         Sound(p) => Consistent(m) /\ (f = "checking" => Settled(m)),
         ApartInv
  PROVE  ApartInv'
<1>1. /\ Still(p) /\ page'[p] = m
      /\ Holds(p)' \subseteq Holds(p) \cup Has(m)
      /\ Sound(p) /\ Consistent(m) /\ (f = "checking" => Settled(m)) => Sound(p)'
  BY RememberedProperties
<1>2. Has(m) \subseteq Holds(p)
  BY DEF Holds
<1> QED
  BY <1>1, <1>2, LessKeepsApart
\* Less is kept, and what is in flight is forgotten at most.
LEMMA LessIsConsistent ==
  ASSUME NEW m, NEW a, Consistent(m), a.queue = m.queue, a.confirmed \subseteq m.confirmed,
         Flies(a, m)
  PROVE  Consistent(a) /\ (Settled(m) => Settled(a))
<1>1. Settled(m) => Settled(a)
  BY DEF Settled
<1>2. a.inFlight # None =>
        \A c \in a.confirmed : c.op = a.inFlight => c.base = a.sentBase
  BY DEF Consistent, Flies
<1>3. ASSUME NEW i \in DOMAIN a.queue
      PROVE  /\ \A c \in a.confirmed :
                  c.op = a.queue[i].op => c.base = a.queue[i].base /\ a.queue[i].fixed
             /\ a.inFlight # None /\ a.queue[i].op = a.inFlight =>
                  a.queue[i].base = a.sentBase /\ a.queue[i].fixed
  BY DEF Consistent, Flies
<1> QED
  BY <1>1, <1>2, <1>3 DEF Consistent

LEMMA RestingKeepsApart ==
  ASSUME NEW D, Base(D), NEW p \in Pages, UNCHANGED <<storage, page>>, ApartInv,
         \/ phase' = phase
         \/ Owned(p) /\ \E f : f # "checking" /\ phase' = [phase EXCEPT ![p] = f]
  PROVE  ApartInv'
<1>1. /\ record' = record /\ tail' = tail /\ page' = page
      /\ \A q \in Pages : q # p => phase'[q] = phase[q]
      /\ phase'[p] = "checking" => phase[p] = "checking"
      /\ phase'[p] = phase[p] \/ Owned(p)
  BY BaseFacts DEF storage
<1>2. Still(p)
  BY <1>1 DEF Still
<1>3. Sound(p) => Sound(p)'
  BY <1>1 DEF Sound
<1>4. Owned(p)' => Owned(p)
  BY <1>1 DEF Owned
<1>5. Holds(p)' \subseteq Holds(p)
  BY <1>1, <1>4 DEF Holds
<1> QED
  BY <1>1, <1>2, <1>3, <1>5, LessKeepsApart

LEMMA RestingSteps ==
  ASSUME NEW D, Base(D), NEW p \in Pages, ApartInv,
         \/ Release(p) \/ TimerFires(p) \/ Save(p) \/ Covered(p) \/ CheckpointFails(p)
         \/ CoverFails(p)
  PROVE  ApartInv'
<1>1. UNCHANGED <<storage, page>>
  BY DEF Release, TimerFires, Save, StartFlush, Covered, CheckpointFails, CoverFails, Failed
<1>2. CASE Release(p)
  <2>1. Owned(p) /\ phase' = [phase EXCEPT ![p] = "closed"]
    BY <1>2 DEF Release, Owned
  <2> QED
    BY <1>1, <2>1, RestingKeepsApart
<1>3. CASE phase' = phase
  BY <1>1, <1>3, RestingKeepsApart
<1>4. CASE Settling(p) /\ Stop(p)
  <2>1. Owned(p) /\ phase' = [phase EXCEPT ![p] = "stopped"]
    BY <1>4 DEF Settling, Stop, Owned
  <2> QED
    BY <1>1, <2>1, RestingKeepsApart
<1>5. CASE CheckpointFails(p) \/ CoverFails(p)
  BY <1>3, <1>4, <1>5 DEF CheckpointFails, CoverFails, Failed
<1>6. CASE TimerFires(p) \/ Save(p) \/ Covered(p)
  BY <1>3, <1>6 DEF TimerFires, Save, StartFlush, Covered
<1> QED
  BY <1>2, <1>5, <1>6

LEMMA SendApart ==
  ASSUME NEW D, Base(D), NEW E, Base(E)', NEW p \in Pages, ApartInv, Send(p)
  PROVE  ApartInv'
<1> DEFINE op == page[p].queue[1].op
           q == [page[p].queue EXCEPT ![1].fixed = TRUE]
           b == page[p].queue[1].base
           m == [page[p] EXCEPT !.inFlight = op, !.sentBase = b, !.queue = q]
<1>1. /\ page[p] \in Memory(D) /\ phase \in [Pages -> Phases]
      /\ page[p].queue \in Seq([op : D, base : Nat, fixed : BOOLEAN])
      /\ Len(page[p].queue) \in Nat /\ DOMAIN page[p].queue = 1 .. Len(page[p].queue)
      /\ \A i \in 1 .. Len(page[p].queue) :
           page[p].queue[i] \in [op : D, base : Nat, fixed : BOOLEAN]
  BY BaseFacts, PageFacts
<1>2. /\ phase[p] = "ready" /\ page[p].queue # <<>> /\ UNCHANGED <<storage, phase>>
      /\ page' = [page EXCEPT ![p] = m]
  BY <1>1 DEF Send, Memory
<1>3. Ops(ToSet(q)) = Ops(ToSet(page[p].queue))
  BY <1>1, <1>2, FixedFirst
<1>4. 1 \in DOMAIN page[p].queue
  BY <1>1, <1>2, EmptySeq
<1>5. q = [page[p].queue EXCEPT ![1] = [page[p].queue[1] EXCEPT !.fixed = TRUE]]
  OBVIOUS
<1>6. /\ DOMAIN q = DOMAIN page[p].queue /\ q[1].fixed
      /\ \A i \in DOMAIN q : /\ q[i].op = page[p].queue[i].op /\ q[i].base = page[p].queue[i].base
                             /\ page[p].queue[i].fixed => q[i].fixed
  BY <1>1, <1>4, <1>5
<1> HIDE DEF q
<1>7. /\ m.queue = q /\ m.confirmed = page[p].confirmed /\ m.inFlight = op /\ m.sentBase = b
      /\ m.restarted = page[p].restarted
  BY <1>1 DEF Memory
<1> HIDE DEF m
<1>8. ASSUME Consistent(page[p]) PROVE Consistent(m)
  <2>1. \A i, j \in DOMAIN m.queue : m.queue[i].op = m.queue[j].op => i = j
    BY <1>6, <1>7, <1>8 DEF Consistent
  <2>2. \A c, d \in m.confirmed : c.op = d.op => c.base = d.base
    BY <1>7, <1>8 DEF Consistent
  <2>3. \A c \in m.confirmed : c.op = m.inFlight => c.base = m.sentBase
    BY <1>4, <1>7, <1>8 DEF Consistent
  <2>4. ASSUME NEW i \in DOMAIN m.queue
        PROVE  /\ \A c \in m.confirmed :
                    c.op = m.queue[i].op => c.base = m.queue[i].base /\ m.queue[i].fixed
               /\ m.queue[i].op = m.inFlight => m.queue[i].base = m.sentBase /\ m.queue[i].fixed
    <3>1. /\ i \in DOMAIN page[p].queue /\ m.queue[i].op = page[p].queue[i].op
          /\ m.queue[i].base = page[p].queue[i].base
          /\ page[p].queue[i].fixed => m.queue[i].fixed
      BY <1>6, <1>7
    <3>2. \A c \in m.confirmed :
            c.op = m.queue[i].op => c.base = m.queue[i].base /\ m.queue[i].fixed
      BY <1>7, <1>8, <3>1 DEF Consistent
    <3>3. m.queue[i].op = m.inFlight => i = 1
      BY <1>4, <1>7, <1>8, <3>1 DEF Consistent
    <3> QED
      BY <1>6, <1>7, <3>1, <3>2, <3>3
  <2> QED
    BY <2>1, <2>2, <2>3, <2>4 DEF Consistent
<1>9. Has(m) \subseteq Has(page[p])
  <2>1. op \in Ops(ToSet(page[p].queue))
    BY <1>4, QueueOps
  <2> QED
    BY <1>3, <1>7, <2>1 DEF Has, Held
<1>10. /\ Remembered(p, m) /\ Owned(p) /\ phase' = [phase EXCEPT ![p] = "ready"]
  BY <1>1, <1>2 DEF Remembered, Owned
<1>11. Sound(p) => Consistent(m)
  BY <1>8 DEF Sound
<1> QED
  BY <1>7, <1>9, <1>10, <1>11, RememberingKeepsApart

LEMMA FailsApart ==
  ASSUME NEW D, Base(D), NEW E, Base(E)', NEW p \in Pages, ApartInv, Fails(p)
  PROVE  ApartInv'
<1> DEFINE m == Landed(page[p])
<1>1. page[p] \in Memory(D) /\ GoodMemory(page[p], log)
  BY PageFacts
<1>2. /\ Owned(p) /\ UNCHANGED storage
      /\ page' = [page EXCEPT ![p] = m] /\ phase' = [phase EXCEPT ![p] = "stopped"]
  BY <1>1 DEF Fails, Stop, Owned, Memory
<1>3. /\ m.queue = page[p].queue /\ m.confirmed = page[p].confirmed /\ m.inFlight = None
      /\ m.restarted = page[p].restarted
  BY <1>1, LandedProperties
<1> HIDE DEF m
<1>4. Sound(p) => Consistent(m)
  BY <1>3, LessIsConsistent DEF Sound, Flies
<1>5. Has(m) \subseteq Has(page[p]) /\ Remembered(p, m)
  BY <1>2, <1>3 DEF Has, Held, Remembered
<1> QED
  BY <1>2, <1>3, <1>4, <1>5, RememberingKeepsApart

\* The memory of a page that acknowledged its answer, by itself.
LEMMA AnsweredConsistent ==
  ASSUME NEW D, NEW m \in Memory(D), GoodMemory(m, log), m.answer > 0, Consistent(m)
  PROVE  Consistent(Answered(m)) /\ (Settled(m) => Settled(Answered(m)))
<1> DEFINE ops == {m.inFlight}
           r == m.answer
           b == Acknowledged(m, ops, r)
           a == Answered(m)
<1>1. r \in Nat /\ b = Acknowledged(m, ops, r) /\ a = Landed(b)
  BY DEF Answered, Memory
<1> HIDE DEF ops, r, b
<1>2. b \in Memory(D)
  BY <1>1, AcknowledgedProperties
<1>3. Consistent(b) /\ (Settled(m) => Settled(b))
  BY <1>1, AcknowledgedConsistent
<1>4. a.queue = b.queue /\ a.confirmed = b.confirmed /\ a.inFlight = None
  BY <1>1, <1>2 DEF Landed, Memory
<1> HIDE DEF a
<1>5. Consistent(a) /\ (Settled(b) => Settled(a))
  BY <1>3, <1>4, LessIsConsistent DEF Flies
<1> QED
  BY <1>3, <1>5 DEF a

LEMMA AnsweredApart ==
  ASSUME NEW D, Base(D), NEW E, Base(E)', NEW p \in Pages, ApartInv, page[p].answer > 0,
         Remembered(p, Answered(page[p])), Owned(p),
         NEW f, phase' = [phase EXCEPT ![p] = f], f = "checking" => phase[p] = "checking"
  PROVE  ApartInv'
<1>1. page[p] \in Memory(D) /\ GoodMemory(page[p], log)
  BY PageFacts
<1> DEFINE m == Answered(page[p])
<1>2. m = Answered(page[p]) /\ Remembered(p, m)
  OBVIOUS
<1> HIDE DEF m
<1>3. /\ Ops(ToSet(m.queue)) \subseteq Ops(ToSet(page[p].queue))
      /\ m.confirmed = page[p].confirmed /\ m.inFlight = None /\ m.restarted = page[p].restarted
  BY <1>1, <1>2, AnsweredProperties
<1>4. Sound(p) => Consistent(m) /\ (f = "checking" => Settled(m))
  BY <1>1, <1>2, AnsweredConsistent DEF Sound
<1>5. Has(m) \subseteq Has(page[p]) /\ Remembered(p, m)
  <2>1. Has(m) \subseteq Has(page[p])
    BY <1>3 DEF Has, Held
  <2> QED
    BY <1>2, <2>1
<1> QED
  BY <1>3, <1>4, <1>5, RememberingKeepsApart

LEMMA DequeuedRemembers ==
  ASSUME NEW D, Base(D), NEW p \in Pages, Dequeued(p)
  PROVE  Remembered(p, Answered(page[p]))
<1> DEFINE m == Answered(page[p])
<1>1. page' = [page EXCEPT ![p] = Answered(@)] => page' = [page EXCEPT ![p] = m]
  BY BaseFacts
<1>2. Persisted(p, m) \/ (page' = [page EXCEPT ![p] = m] /\ UNCHANGED storage)
  BY <1>1 DEF Dequeued
<1> QED
  BY <1>2 DEF Remembered

LEMMA AcknowledgeApart ==
  ASSUME NEW D, Base(D), NEW E, Base(E)', NEW p \in Pages, ApartInv, Acknowledge(p)
  PROVE  ApartInv'
<1>1. /\ page[p].answer > 0 /\ Remembered(p, Answered(page[p])) /\ phase' = phase
  BY DequeuedRemembers DEF Acknowledge
<1>2. phase[p] \in {"ready", "stopped"}
  <2>1. page[p].inFlight # None
    BY <1>1, PageFacts DEF GoodMemory
  <2> QED
    BY <2>1, PageFacts DEF GoodPhase
<1>3. Owned(p) /\ phase' = [phase EXCEPT ![p] = phase[p]]
  BY <1>1, <1>2, BaseFacts DEF Owned
<1> QED
  BY <1>1, <1>3, AnsweredApart

LEMMA CloseApart ==
  ASSUME NEW D, Base(D), NEW E, Base(E)', NEW p \in Pages, ApartInv, Close(p)
  PROVE  ApartInv'
<1>1. Owned(p) /\ phase' = [phase EXCEPT ![p] = "closing"]
  BY DEF Close, Active, Owned
<1>2. CASE page[p].answer > 0
  <2>1. Remembered(p, Answered(page[p]))
    BY <1>2, DequeuedRemembers DEF Close
  <2> QED
    BY <1>1, <1>2, <2>1, AnsweredApart
<1>3. CASE ~(page[p].answer > 0)
  <2> DEFINE m == Landed(page[p])
  <2>1. page[p] \in Memory(D) /\ GoodMemory(page[p], log)
    BY PageFacts
  <2>2. page' = [page EXCEPT ![p] = m] /\ UNCHANGED storage
    BY <1>3, <2>1 DEF Close, Memory
  <2>3. /\ m.queue = page[p].queue /\ m.confirmed = page[p].confirmed /\ m.inFlight = None
        /\ m.restarted = page[p].restarted
    BY <2>1, LandedProperties
  <2> HIDE DEF m
  <2>4. Sound(p) => Consistent(m)
    BY <2>3, LessIsConsistent DEF Sound, Flies
  <2>5. Has(m) \subseteq Has(page[p]) /\ Remembered(p, m)
    BY <2>2, <2>3 DEF Has, Held, Remembered
  <2> QED
    BY <1>1, <2>3, <2>4, <2>5, RememberingKeepsApart
<1> QED
  BY <1>2, <1>3

LEMMA DiscardApart ==
  ASSUME NEW D, Base(D), NEW E, Base(E)', NEW p \in Pages, ApartInv, Discard(p)
  PROVE  ApartInv'
<1> DEFINE b == Landed(page[p])
           m == [b EXCEPT !.queue = <<>>]
           f == IF page[p].broken THEN "stopped" ELSE "closing"
<1>1. /\ page[p] \in Memory(D) /\ GoodMemory(page[p], log) /\ b \in Memory(D)
      /\ b.confirmed = page[p].confirmed /\ b.inFlight = None
      /\ b.restarted = page[p].restarted
  <2>1. page[p] \in Memory(D) /\ GoodMemory(page[p], log)
    BY PageFacts
  <2> QED
    BY ONLY <2>1, LandedProperties
<1>2. Owned(p) /\ Persisted(p, m) /\ phase' = [phase EXCEPT ![p] = f]
  BY DEF Discard, Owned
<1>3. /\ m.queue = <<>> /\ m.confirmed = page[p].confirmed /\ m.inFlight = None
      /\ m.restarted = page[p].restarted
  <2> HIDE DEF b
  <2> QED
    BY <1>1 DEF Memory
<1>4. f # "checking"
  OBVIOUS
<1> HIDE DEF m, f
<1>5. DOMAIN m.queue = {}
  BY <1>3
<1>6. Sound(p) => Consistent(m)
  BY <1>3, <1>5 DEF Sound, Consistent
<1>7. Ops(ToSet(m.queue)) = {}
  BY <1>5, QueueOps
<1>8. Has(m) \subseteq Has(page[p]) /\ Remembered(p, m)
  <2>1. Has(m) \subseteq Has(page[p])
    BY <1>3, <1>7 DEF Has, Held
  <2>2. Remembered(p, m)
    BY <1>2 DEF Remembered
  <2> QED
    BY <2>1, <2>2
<1> QED
  BY <1>2, <1>3, <1>4, <1>6, <1>8, RememberingKeepsApart

LEMMA CheckpointApart ==
  ASSUME NEW D, Base(D), NEW E, Base(E)', NEW p \in Pages, ApartInv, CheckpointSaved(p)
  PROVE  ApartInv'
<1> DEFINE left == Uncovered(page[p], Len(log))
           m == [page[p] EXCEPT !.confirmed = left]
<1>1. page[p] \in Memory(D)
  BY PageFacts
<1>2. phase[p] \in {"checking", "ready", "stopped"}
  BY AtWork DEF CheckpointSaved
<1>3. Owned(p) /\ Persisted(p, m) /\ phase' = [phase EXCEPT ![p] = phase[p]]
  BY <1>2, BaseFacts DEF CheckpointSaved, Owned
<1>4. left \subseteq page[p].confirmed
  BY DEF Uncovered
<1> HIDE DEF left
<1>5. /\ m.queue = page[p].queue /\ m.confirmed = left /\ m.inFlight = page[p].inFlight
      /\ m.sentBase = page[p].sentBase /\ m.restarted = page[p].restarted
  BY <1>1 DEF Memory
<1> HIDE DEF m
<1>6. Sound(p) => Consistent(m) /\ (phase[p] = "checking" => Settled(m))
  BY <1>4, <1>5, LessIsConsistent DEF Sound, Flies
<1>7. Has(m) \subseteq Has(page[p]) /\ Remembered(p, m)
  <2>1. Has(m) \subseteq Has(page[p])
    BY <1>4, <1>5 DEF Has, Held, Ops
  <2>2. Remembered(p, m)
    BY <1>3 DEF Remembered
  <2> QED
    BY <2>1, <2>2
<1> QED
  BY <1>3, <1>5, <1>6, <1>7, RememberingKeepsApart

LEMMA AnswerApart ==
  ASSUME NEW D, Base(D), NEW E, Base(E)', NEW p \in Pages, ApartInv, Answer(p)
  PROVE  ApartInv'
<1> DEFINE c == [op |-> page[p].inFlight, base |-> page[p].sentBase,
                 revision |-> RevisionOf(page[p].inFlight)]
           new == {c}
<1>1. PICK m :
        /\ Persisted(p, m) /\ phase' = phase /\ page[p].inFlight # None
        /\ m.confirmed = page[p].confirmed \cup new
        /\ Ops(m.confirmed) = Ops(page[p].confirmed) \cup {page[p].inFlight}
        /\ m.queue = page[p].queue /\ m.inFlight = page[p].inFlight
        /\ m.sentBase = page[p].sentBase /\ m.restarted = page[p].restarted
  BY AnswerCases
<1>2. Owned(p) /\ phase[p] # "checking" /\ phase' = [phase EXCEPT ![p] = phase[p]]
  <2>1. phase[p] \in {"ready", "stopped"}
    BY <1>1, PageFacts DEF GoodPhase
  <2> QED
    BY <1>1, <2>1, BaseFacts DEF Owned
<1>3. \A d \in new : d.op = page[p].inFlight /\ d.base = page[p].sentBase
  OBVIOUS
<1> HIDE DEF new
<1>4. ASSUME Sound(p) PROVE Consistent(m)
  <2> DEFINE n == page[p]
  <2>1. Consistent(n)
    BY <1>4 DEF Sound
  <2>2. /\ m.confirmed = n.confirmed \cup new /\ m.queue = n.queue
        /\ m.inFlight = n.inFlight /\ m.sentBase = n.sentBase /\ n.inFlight # None
        /\ \A d \in new : d.op = n.inFlight /\ d.base = n.sentBase
    BY <1>1, <1>3
  <2> HIDE DEF n
  <2>3. \A d \in new : \A e \in m.confirmed : d.op = e.op => d.base = e.base
    BY ONLY <2>1, <2>2 DEF Consistent
  <2>4. \A d \in new : \A i \in DOMAIN n.queue :
          d.op = n.queue[i].op => d.base = n.queue[i].base /\ n.queue[i].fixed
    BY ONLY <2>1, <2>2 DEF Consistent
  <2> QED
    BY ONLY <2>1, <2>2, <2>3, <2>4, ConfirmedConsistent
<1>5. Has(m) \subseteq Has(page[p])
  BY <1>1 DEF Has, Held
<1>6. Remembered(p, m)
  BY <1>1 DEF Remembered
<1> QED
  BY <1>1, <1>2, <1>4, <1>5, <1>6, RememberingKeepsApart
\* A restored operation was sent, or may have been: its entry is not rewritten.
LEMMA CheckApart ==
  ASSUME NEW D, Base(D), NEW E, Base(E)', NEW p \in Pages, ApartInv, Check(p)
  PROVE  ApartInv'
<1> DEFINE n == page[p].checked + 1
           x == page[p].queue[n]
           op == x.op
           known == {x}
           ops == {op}
           r == RevisionOf(op)
           c == Confirmed(page[p], known)
           a == Acknowledged(c, ops, r)
           d == [page[p] EXCEPT !.checked = n]
<1>1. /\ page[p] \in Memory(D) /\ page[p].checked \in Nat /\ GoodMemory(page[p], log)
      /\ log \in Seq(D) /\ phase \in [Pages -> Phases]
  BY BaseFacts, PageFacts DEF Memory
<1>2. phase[p] = "checking" /\ Owned(p)
  BY DEF Check, Owned
<1>3. \/ UNCHANGED <<storage, page>> /\ (Stop(p) \/ phase' = phase)
      \/ phase' = phase /\ page' = [page EXCEPT ![p] = d] /\ UNCHANGED storage
      \/ phase' = phase /\ Committed(op) /\ Persisted(p, a)
  <2>1. d = [page[p] EXCEPT !.checked = @ + 1]
    BY <1>1 DEF Memory
  <2> HIDE DEF d, a, c, r, ops, known
  <2>2. CASE Committed(op)
    BY <2>2 DEF Check, storage, a, c, r, ops, known
  <2>3. CASE ~Committed(op)
    <3>1. \/ UNCHANGED <<storage, page>> /\ Stop(p)
          \/ /\ phase' = phase /\ UNCHANGED storage
             /\ page' = [page EXCEPT ![p].checked = @ + 1]
      BY <2>3 DEF Check, storage
    <3>2. page' = [page EXCEPT ![p].checked = @ + 1] => page' = [page EXCEPT ![p] = d]
      BY <2>1
    <3> QED
      BY <3>1, <3>2
  <2> QED
    BY <2>2, <2>3
<1>4. phase' = phase => phase' = [phase EXCEPT ![p] = "checking"]
  BY <1>1, <1>2
<1>5. CASE UNCHANGED <<storage, page>> /\ (Stop(p) \/ phase' = phase)
  BY <1>2, <1>5, RestingKeepsApart DEF Stop
<1>6. CASE phase' = phase /\ page' = [page EXCEPT ![p] = d] /\ UNCHANGED storage
  <2>1. /\ d.queue = page[p].queue /\ d.confirmed = page[p].confirmed
        /\ d.inFlight = page[p].inFlight /\ d.sentBase = page[p].sentBase
        /\ d.restarted = page[p].restarted
    BY <1>1 DEF Memory
  <2> HIDE DEF d
  <2>2. Sound(p) => Consistent(d) /\ Settled(d)
    BY <1>2, <2>1, LessIsConsistent DEF Sound, Flies
  <2>3. Has(d) \subseteq Has(page[p]) /\ Remembered(p, d)
    BY <1>6, <2>1 DEF Has, Held, Remembered
  <2> QED
    BY <1>2, <1>4, <1>6, <2>1, <2>2, <2>3, RememberingKeepsApart
<1>7. CASE phase' = phase /\ Committed(op) /\ Persisted(p, a)
  <2>1. r \in Nat
    BY <1>1, <1>7, RevisionOfCommitted
  <2>2. /\ n \in DOMAIN page[p].queue /\ x = page[p].queue[n]
        /\ op \in Ops(ToSet(page[p].queue)) /\ Ops(known) = {op}
        /\ IsFiniteSet(known) /\ \A o \in known : o.base \in Nat /\ Committed(o.op)
    <3>1. n \in DOMAIN page[p].queue
      <4>1. page[p].checked < Len(page[p].queue)
        BY DEF Check
      <4> QED
        BY <1>1, <4>1, PageFacts
    <3>2. x = page[p].queue[n] /\ x.op = op /\ Committed(op)
      BY <1>7
    <3>3. x \in [op : D, base : Nat, fixed : BOOLEAN]
      <4>1. n \in 1 .. Len(page[p].queue)
        BY <3>1, PageFacts
      <4>2. \A i \in 1 .. Len(page[p].queue) :
              page[p].queue[i] \in [op : D, base : Nat, fixed : BOOLEAN]
        BY PageFacts
      <4> HIDE DEF n
      <4> QED
        BY ONLY <4>1, <4>2
    <3> HIDE DEF n, x, op
    <3>4. IsFiniteSet(known) /\ Ops(known) = {x.op}
      <4>1. IsFiniteSet(known)
        BY FS_Singleton
      <4>2. Ops(known) = {x.op}
        BY DEF Ops
      <4> QED
        BY ONLY <4>1, <4>2
    <3>5. x.op \in Ops(ToSet(page[p].queue))
      BY <3>1, <3>2, QueueOps
    <3>6. x.base \in Nat
      BY <3>3
    <3> QED
      BY ONLY <3>1, <3>2, <3>4, <3>5, <3>6
  <2>3. c = Confirmed(page[p], known) /\ a = Acknowledged(c, ops, r)
    OBVIOUS
  <2> HIDE DEF op, r, n, ops, c, x
  <2>4. /\ c \in Memory(D)
        /\ Ops(c.confirmed) = Ops(page[p].confirmed) \cup Ops(known)
        /\ c.queue = page[p].queue /\ c.restarted = page[p].restarted
        /\ c.inFlight = page[p].inFlight
    <3>1. IsFiniteSet(known) /\ \A o \in known : o.base \in Nat /\ Committed(o.op)
      BY ONLY <2>2
    <3>2. log \in Seq(D) /\ page[p] \in Memory(D) /\ GoodMemory(page[p], log)
      BY ONLY <1>1
    <3>3. c = Confirmed(page[p], known)
      BY ONLY <2>3
    <3> HIDE DEF known
    <3> QED
      BY ONLY <3>1, <3>2, <3>3, ConfirmedProperties
  <2>5. Sound(p) => Consistent(c) /\ Settled(c)
    <3>1. ASSUME Sound(p)
          PROVE  /\ Consistent(page[p]) /\ Settled(page[p])
                 /\ \A e \in known :
                      \E i \in DOMAIN page[p].queue : e = page[p].queue[i] /\ page[p].queue[i].fixed
      BY <1>2, <2>2, <3>1 DEF Sound, Settled
    <3> HIDE DEF known, a
    <3> QED
      BY <1>1, <2>3, <3>1, EntriesConsistent
  <2> HIDE DEF a
  <2>6. /\ Ops(ToSet(a.queue)) = Ops(ToSet(c.queue)) \ ops /\ a.confirmed = c.confirmed
        /\ a.restarted = c.restarted /\ a.inFlight = c.inFlight
    BY <2>1, <2>3, <2>4, AcknowledgedProperties
  <2>7. Sound(p) => Consistent(a) /\ Settled(a)
    BY <2>1, <2>3, <2>4, <2>5, AcknowledgedConsistent
  <2>8. Has(a) \subseteq Has(page[p])
    BY <2>2, <2>4, <2>6 DEF Has, Held
  <2>9. Remembered(p, a)
    BY <1>7 DEF Remembered
  <2> QED
    BY <1>2, <1>4, <1>7, <2>4, <2>6, <2>7, <2>8, <2>9, RememberingKeepsApart
<1> QED
  BY <1>3, <1>5, <1>6, <1>7

LEMMA LoadedConsistent ==
  ASSUME NEW D, log \in Seq(D), NEW m \in Memory(D), GoodMemory(m, log), Consistent(m), Settled(m)
  PROVE  Consistent(Loaded(m)) /\ Settled(Loaded(m))
<1> DEFINE known == {e \in ToSet(m.queue) : Committed(e.op)}
           ops == Ops(known)
           n == Len(log)
           b == [m EXCEPT !.hydrated = n]
           c == Confirmed(b, known)
           a == Loaded(m)
<1>1. n \in Nat
  BY LenProperties
<1>2. /\ b \in Memory(D) /\ b.queue = m.queue /\ b.confirmed = m.confirmed
      /\ b.inFlight = m.inFlight /\ b.sentBase = m.sentBase
  <2> HIDE DEF n
  <2> QED
    BY <1>1 DEF Memory
<1>3. a = Acknowledged(c, ops, n)
  BY DEF Loaded
<1>4. \A e \in known : \E i \in DOMAIN m.queue : e = m.queue[i] /\ m.queue[i].fixed
  BY DEF ToSet, Settled
<1>5. IsFiniteSet(known) /\ \A e \in known : e.base \in Nat /\ Committed(e.op)
  BY KnownProperties
<1> HIDE DEF a, n, ops, b, known
<1>6. Consistent(b) /\ Settled(b)
  BY <1>2, LessIsConsistent DEF Flies
<1>7. c = Confirmed(b, known)
  OBVIOUS
<1> HIDE DEF c
<1>8. Consistent(c) /\ Settled(c)
  BY ONLY <1>2, <1>4, <1>6, <1>7, EntriesConsistent
<1>9. c \in Memory(D)
  <2>1. c = [Confirmed(m, known) EXCEPT !.hydrated = n]
    BY <1>7 DEF Confirmed, b, Memory
  <2>2. Confirmed(m, known) \in Memory(D)
    BY <1>5, ConfirmedProperties
  <2> QED
    BY <1>1, <2>1, <2>2 DEF Memory
<1>10. Consistent(a) /\ Settled(a)
  BY ONLY <1>1, <1>3, <1>8, <1>9, AcknowledgedConsistent
<1> QED
  BY <1>10 DEF a

LEMMA FinishApart ==
  ASSUME NEW D, Base(D), NEW E, Base(E)', NEW p \in Pages, ApartInv, Finish(p)
  PROVE  ApartInv'
<1> DEFINE a == Loaded(page[p])
           ops == Ops(ToSet(a.queue))
           late == {c.revision : c \in a.confirmed \ page[p].confirmed}
           m == [a EXCEPT !.applied = ops]
           f == IF \A e \in ToSet(a.queue) : e.base = a.revision THEN "ready" ELSE "stopped"
<1>1. /\ page[p] \in Memory(D) /\ GoodMemory(page[p], log) /\ log \in Seq(D)
      /\ phase \in [Pages -> Phases]
  BY BaseFacts, PageFacts
<1>2. phase[p] = "checking" /\ Owned(p)
  BY DEF Finish, Settling, Owned
<1>3. \/ UNCHANGED <<storage, page>> /\ Stop(p)
      \/ /\ Persisted(p, m) \/ (page' = [page EXCEPT ![p] = m] /\ UNCHANGED storage)
         /\ phase' = [phase EXCEPT ![p] = f]
  <2> HIDE DEF late
  <2> QED
    BY DEF Finish, storage, late
<1>4. f # "checking"
  OBVIOUS
<1> HIDE DEF f
<1>5. CASE UNCHANGED <<storage, page>> /\ Stop(p)
  BY <1>2, <1>5, RestingKeepsApart DEF Stop
<1>6. CASE /\ Persisted(p, m) \/ (page' = [page EXCEPT ![p] = m] /\ UNCHANGED storage)
           /\ phase' = [phase EXCEPT ![p] = f]
  <2>1. /\ a \in Memory(D)
        /\ Ops(ToSet(a.queue)) = {op \in Ops(ToSet(page[p].queue)) : ~Committed(op)}
        /\ Ops(a.confirmed) =
             Ops(page[p].confirmed) \cup {op \in Ops(ToSet(page[p].queue)) : Committed(op)}
        /\ a.restarted = page[p].restarted
        /\ a.inFlight = page[p].inFlight
    BY <1>1, LoadedProperties
  <2>2. Sound(p) => Consistent(a)
    BY <1>1, <1>2, LoadedConsistent DEF Sound
  <2> HIDE DEF a, ops
  <2>3. /\ m.queue = a.queue /\ m.confirmed = a.confirmed /\ m.inFlight = a.inFlight
        /\ m.sentBase = a.sentBase /\ m.restarted = a.restarted
    BY <2>1 DEF Memory
  <2> HIDE DEF m
  <2>4. Sound(p) => Consistent(m)
    BY <2>2, <2>3, LessIsConsistent DEF Flies
  <2>5. Has(m) \subseteq Has(page[p])
    BY <2>1, <2>3 DEF Has, Held
  <2>6. Remembered(p, m)
    BY <1>6 DEF Remembered
  <2> QED
    BY <1>2, <1>4, <1>6, <2>1, <2>3, <2>4, <2>5, <2>6, RememberingKeepsApart
<1> QED
  BY <1>3, <1>5, <1>6
\* A draft is an operation no page had.
LEMMA DraftApart ==
  ASSUME NEW D, Base(D), NEW E, Base(E)', NEW p \in Pages, ApartInv, Draft(p)
  PROVE  ApartInv'
<1> DEFINE op == DraftOf(p)
           e == [op |-> op, base |-> page[p].revision, fixed |-> FALSE]
           q == Append(page[p].queue, e)
           m == DraftedMemory(p)
<1>1. /\ page[p] \in Memory(D) /\ page[p].queue \in Seq([op : D, base : Nat, fixed : BOOLEAN])
      /\ DOMAIN page[p].queue = 1 .. Len(page[p].queue) /\ Len(page[p].queue) \in Nat
      /\ \A i \in 1 .. Len(page[p].queue) :
           page[p].queue[i] \in [op : D, base : Nat, fixed : BOOLEAN]
  BY PageFacts
<1>2. /\ phase[p] = "ready" /\ drafts < MaxDrafts /\ phase' = phase /\ Persisted(p, m)
  BY DEF Draft, DraftOf, DraftedMemory
<1>3. /\ op \notin D
      /\ Ops(ToSet(m.queue)) = With(Ops(ToSet(page[p].queue)), op)
      /\ m.confirmed = page[p].confirmed /\ m.inFlight = page[p].inFlight
      /\ m.sentBase = page[p].sentBase /\ m.restarted = page[p].restarted
  <2>1. PICK F : F = With(D, op)
    OBVIOUS
  <2> QED
    BY <1>2, <2>1, DraftProperties
<1>4. m.queue = q
  BY <1>1 DEF DraftedMemory, Memory
<1>5. /\ DOMAIN q = 1 .. Len(page[p].queue) + 1 /\ q[Len(page[p].queue) + 1] = e
      /\ \A i \in 1 .. Len(page[p].queue) : q[i] = page[p].queue[i]
  <2> DEFINE S == [op : With(D, op), base : Nat, fixed : BOOLEAN]
  <2>1. page[p].queue \in Seq(S)
    <3>1. D \subseteq With(D, op)
      BY DEF With
    <3> HIDE DEF op
    <3>2. page[p] \in Memory(With(D, op))
      BY <1>1, <3>1, MemoryGrows
    <3> QED
      BY <3>2 DEF Memory
  <2>2. e \in S
    BY <1>1 DEF With, Memory
  <2> HIDE DEF S, e
  <2> QED
    BY <2>1, <2>2, AppendProperties
<1>6. e.op = op
  OBVIOUS
<1> HIDE DEF op, e, q, m
<1>7. /\ \A i \in 1 .. Len(page[p].queue) : q[i].op \in D
      /\ \A c \in page[p].confirmed : c.op \in D
      /\ page[p].inFlight \in D \cup {None}
  BY <1>1, <1>5 DEF Memory
<1>8. ASSUME Consistent(page[p]) PROVE Consistent(m)
  <2>1. ASSUME NEW i \in DOMAIN q, NEW j \in DOMAIN q, q[i].op = q[j].op PROVE i = j
    <3>1. i \in 1 .. Len(page[p].queue) \/ i = Len(page[p].queue) + 1
      BY <1>1, <1>5
    <3>2. j \in 1 .. Len(page[p].queue) \/ j = Len(page[p].queue) + 1
      BY <1>1, <1>5
    <3>3. CASE i \in 1 .. Len(page[p].queue) /\ j \in 1 .. Len(page[p].queue)
      BY <1>1, <1>5, <1>8, <2>1, <3>3 DEF Consistent
    <3> QED
      BY <1>3, <1>5, <1>6, <1>7, <2>1, <3>1, <3>2, <3>3
  <2>2. ASSUME NEW i \in DOMAIN q
        PROVE  /\ \A c \in page[p].confirmed : c.op = q[i].op => c.base = q[i].base /\ q[i].fixed
               /\ page[p].inFlight # None /\ q[i].op = page[p].inFlight =>
                    q[i].base = page[p].sentBase /\ q[i].fixed
    <3>1. CASE i \in 1 .. Len(page[p].queue)
      BY <1>1, <1>5, <1>8, <3>1 DEF Consistent
    <3>2. CASE i = Len(page[p].queue) + 1
      BY <1>3, <1>5, <1>6, <1>7, <3>2
    <3> QED
      BY <1>1, <1>5, <3>1, <3>2
  <2>3. page[p].inFlight # None =>
          \A c \in page[p].confirmed : c.op = page[p].inFlight => c.base = page[p].sentBase
    BY <1>8 DEF Consistent
  <2>4. \A c, d \in page[p].confirmed : c.op = d.op => c.base = d.base
    BY <1>8 DEF Consistent
  <2> QED
    BY <1>3, <1>4, <2>1, <2>2, <2>3, <2>4 DEF Consistent
<1>9. Owned(p) /\ phase' = [phase EXCEPT ![p] = "ready"] /\ Remembered(p, m)
  BY <1>2, BaseFacts DEF Owned, Remembered
<1>10. /\ Still(p) /\ page'[p] = m
       /\ Holds(p)' \subseteq Holds(p) \cup Has(m)
       /\ Sound(p) /\ Consistent(m) => Sound(p)'
  <2>1. PICK f : f = "ready"
    OBVIOUS
  <2>2. phase' = [phase EXCEPT ![p] = f] /\ f # "checking"
    BY <1>9, <2>1
  <2>3. /\ Still(p) /\ page'[p] = m
        /\ Holds(p)' \subseteq Holds(p) \cup Has(m)
        /\ Sound(p) /\ Consistent(m) /\ (f = "checking" => Settled(m)) => Sound(p)'
    BY <1>9, <2>2, RememberedProperties
  <2> QED
    BY <2>2, <2>3
<1>11. Holds(p)' \subseteq Holds(p) \cup {op}
  <2>1. Has(page[p]) \subseteq Holds(p)
    BY <1>9 DEF Holds
  <2> QED
    BY <1>3, <1>10, <2>1 DEF Has, Held, With
<1>12. ASSUME Apart
       PROVE  Sound(p)' /\ \A r \in Pages : r # p => Holds(p)' \cap Holds(r)' = {}
  <2>1. Sound(p)'
    BY <1>8, <1>10, <1>12 DEF Apart, Sound
  <2>2. ASSUME NEW r \in Pages, r # p PROVE Holds(p)' \cap Holds(r)' = {}
    <3>1. Holds(p) \cap Holds(r) = {} /\ Holds(r) \subseteq D
      BY <1>12, <2>2, HoldsKnown DEF Apart
    <3>2. Holds(r)' \subseteq Holds(r)
      BY <1>10, <2>2, StillHolds
    <3> QED
      BY <1>3, <1>11, <3>1, <3>2
  <2> QED
    BY <2>1, <2>2
<1> QED
  BY <1>3, <1>10, <1>12, ApartStep

LEMMA WriteApart ==
  ASSUME NEW D, Base(D), NEW p \in Pages, ApartInv, Write(p)
  PROVE  ApartInv'
<1> DEFINE t == tail[p]
           S == SUBSET Written(D)
<1>1. t \in Seq(S) /\ t # <<>> /\ tail \in [Pages -> Seq(S)] /\ record \in [Pages -> S]
  BY BaseFacts DEF Write
<1>2. /\ record' = [record EXCEPT ![p] = Head(t)] /\ tail' = [tail EXCEPT ![p] = Tail(t)]
      /\ page' = page /\ phase' = phase
  BY DEF Write
<1> HIDE DEF t, S
<1>3. /\ DOMAIN t = 1 .. Len(t) /\ Len(t) \in Nat /\ Head(t) = t[1] /\ 1 \in DOMAIN t
      /\ DOMAIN Tail(t) = 1 .. Len(t) - 1
      /\ \A i \in 1 .. Len(t) - 1 : Tail(t)[i] = t[i + 1]
  <2>1. Tail(t) \in Seq(S) /\ Len(Tail(t)) = Len(t) - 1 /\ Head(t) = t[1]
        /\ \A i \in 1 .. Len(Tail(t)) : Tail(t)[i] = t[i + 1]
    BY <1>1, HeadTailProperties
  <2>2. DOMAIN Tail(t) = 1 .. Len(Tail(t)) /\ Len(t) \in Nat /\ DOMAIN t = 1 .. Len(t) /\ Len(t) # 0
    BY <1>1, <2>1, LenProperties, EmptySeq
  <2> QED
    BY <2>1, <2>2
<1>4. tail'[p] = Tail(t) /\ record'[p] = t[1]
  BY <1>1, <1>2, <1>3
<1>5. \A i \in DOMAIN tail'[p] : \E j \in DOMAIN t : tail'[p][i] = t[j]
  <2>1. ASSUME NEW i \in 1 .. Len(t) - 1 PROVE i + 1 \in DOMAIN t
    BY <1>3
  <2> QED
    BY <1>3, <1>4, <2>1
<1>6. Still(p)
  BY <1>1, <1>2 DEF Still
<1>7. Sound(p) => Sound(p)'
  BY <1>2, <1>3, <1>4, <1>5 DEF Sound, t
<1>8. Holds(p)' \subseteq Holds(p)
  <2>1. Ops(record'[p]) \subseteq Holds(p)
    BY <1>3, <1>4 DEF Holds, t
  <2>2. \A i \in DOMAIN tail'[p] : Ops(tail'[p][i]) \subseteq Holds(p)
    BY <1>5 DEF Holds, t
  <2> QED
    BY <1>2, <2>1, <2>2 DEF Holds, Owned
<1> QED
  BY <1>2, <1>6, <1>7, <1>8, LessKeepsApart

\* A page that loses its writes, its memory, or everything.
LEMMA LosingApart ==
  ASSUME NEW D, Base(D), NEW p \in Pages, ApartInv, WriteFails(p) \/ Crash(p) \/ Purge(p)
  PROVE  ApartInv'
<1>1. /\ page \in [Pages -> Memory(D)] /\ record \in [Pages -> SUBSET Written(D)]
      /\ tail \in [Pages -> Seq(SUBSET Written(D))] /\ phase \in [Pages -> Phases]
      /\ page[p] \in Memory(D)
  BY BaseFacts
<1>2. /\ \A q \in Pages : q # p => page'[q] = page[q] /\ tail'[q] = tail[q] /\ phase'[q] = phase[q]
      /\ \A q \in Pages : record'[q] \in {record[q], {}}
  BY <1>1 DEF WriteFails, Crash, Purge, Stop
<1>3. Still(p)
  BY <1>2 DEF Still
<1>4. tail'[p] = <<>> \/ tail'[p] = tail[p]
  BY <1>1 DEF WriteFails, Crash, Purge
<1>5. \A i \in DOMAIN tail'[p] : i \in DOMAIN tail[p] /\ tail'[p][i] = tail[p][i]
  BY <1>4
<1>6. /\ page'[p].restarted = page[p].restarted
      /\ Consistent(page[p]) => Consistent(page'[p]) /\ (Settled(page[p]) => Settled(page'[p]))
      /\ phase'[p] = "checking" => phase[p] = "checking"
      /\ Owned(p)' => Owned(p) /\ Has(page'[p]) \subseteq Has(page[p])
  <2>1. CASE WriteFails(p)
    <3>1. page'[p] = [page[p] EXCEPT !.broken = TRUE] /\ phase' = phase
      BY <1>1, <2>1 DEF WriteFails, Memory
    <3>2. /\ page'[p].queue = page[p].queue /\ page'[p].confirmed = page[p].confirmed
          /\ page'[p].inFlight = page[p].inFlight /\ page'[p].sentBase = page[p].sentBase
          /\ page'[p].restarted = page[p].restarted
      BY <1>1, <3>1 DEF Memory
    <3>3. Consistent(page[p]) => Consistent(page'[p]) /\ (Settled(page[p]) => Settled(page'[p]))
      BY <3>2, LessIsConsistent DEF Flies
    <3> QED
      BY <3>1, <3>2, <3>3 DEF Owned, Has, Held
  <2>2. ASSUME page'[p].queue = <<>>, page'[p].confirmed = {},
               page'[p].inFlight \in {page[p].inFlight, None}
        PROVE  /\ Consistent(page'[p]) /\ Settled(page'[p])
               /\ Has(page'[p]) \subseteq Has(page[p])
    <3>1. DOMAIN page'[p].queue = {}
      BY <2>2
    <3>2. Ops(ToSet(page'[p].queue)) = {} /\ Ops(page'[p].confirmed) = {}
      BY <2>2, <3>1 DEF Ops, ToSet
    <3> QED
      BY <2>2, <3>1, <3>2 DEF Consistent, Settled, Has, Held
  <2>3. CASE Crash(p)
    <3>1. page'[p] = [Empty EXCEPT !.restarted = page[p].restarted] /\ phase'[p] = "crashed"
      BY <1>1, <2>3 DEF Crash
    <3>2. /\ page'[p].queue = <<>> /\ page'[p].confirmed = {} /\ page'[p].inFlight = None
          /\ page'[p].restarted = page[p].restarted
      BY <3>1 DEF Empty
    <3> QED
      BY <2>2, <3>1, <3>2 DEF Owned
  <2>4. CASE Purge(p)
    <3>1. /\ page'[p] = [page[p] EXCEPT !.queue = <<>>, !.confirmed = {}]
          /\ phase'[p] = "stopped" /\ Owned(p)
      BY <1>1, <2>4 DEF Purge, Stop, Owned, Memory
    <3>2. /\ page'[p].queue = <<>> /\ page'[p].confirmed = {}
          /\ page'[p].inFlight = page[p].inFlight /\ page'[p].restarted = page[p].restarted
      BY <1>1, <3>1 DEF Memory
    <3> QED
      BY <2>2, <3>1, <3>2
  <2> QED
    BY <2>1, <2>3, <2>4
<1>7. Sound(p) => Sound(p)'
  <2>1. Single({})
    BY DEF Single
  <2> QED
    BY <1>2, <1>5, <1>6, <2>1 DEF Sound
<1>8. Holds(p)' \subseteq Holds(p)
  <2>1. Ops(record'[p]) \subseteq Ops(record[p])
    BY <1>2 DEF Ops
  <2>2. \A i \in DOMAIN tail'[p] : Ops(tail'[p][i]) \subseteq Holds(p)
    BY <1>5 DEF Holds
  <2> QED
    BY <1>6, <2>1, <2>2 DEF Holds
<1> QED
  BY <1>3, <1>6, <1>7, <1>8, LessKeepsApart
\* A client sequence names one operation, and an operation has one entry.
LEMMA SingleIsLoadable ==
  ASSUME NEW D, Base(D), \A r \in Pages : ~page[r].restarted,
         NEW entries \in SUBSET Written(D), Single(entries)
  PROVE  SequencesDiffer(entries)
<1>1. D \subseteq [session : Pages, sequence : 1 .. drafts, id : 1 .. drafts] /\ Numbered(D)
  BY DEF Base, Typed
<1>2. ASSUME NEW e \in entries, NEW f \in entries,
             e.op.session = f.op.session, e.op.sequence = f.op.sequence
      PROVE  e = f
  <2>1. e.op \in D /\ f.op \in D
    BY DEF Written
  <2>2. e.op.session \in Pages
    BY <1>1, <2>1
  <2>3. e.op = f.op
    BY <1>1, <1>2, <2>1, <2>2 DEF Numbered
  <2> QED
    BY <2>3 DEF Single
<1> QED
  BY <1>2 DEF SequencesDiffer

LEMMA OpenApart ==
  ASSUME NEW D, Base(D), NEW E, Base(E)', NEW p \in Pages, ApartInv, Open(p)
  PROVE  ApartInv'
<1> DEFINE merged == UNION {record[q] : q \in Claimed(p)}
<1>1. /\ page \in [Pages -> Memory(D)] /\ record \in [Pages -> SUBSET Written(D)]
      /\ phase \in [Pages -> Phases] /\ GoodPhase(p) /\ merged \in SUBSET Written(D)
      /\ Claimed(p) \subseteq Pages
  BY BaseFacts, PageFacts, ClaimedRecords DEF Claimed
<1>2. /\ phase[p] \in {"new", "closed"} /\ tail[p] = <<>>
      /\ \E m, entries :
           /\ Took(p, m, entries) /\ m.restarted = (phase[p] = "closed")
           /\ \/ /\ entries = merged
                 /\ record' = Retired(p, Claimed(p), entries)
                 /\ phase' = [phase EXCEPT ![p] =
                      IF SequencesDiffer(entries) THEN "checking" ELSE "stopped"]
              \/ /\ entries = {} /\ record' = record
                 /\ phase' = [phase EXCEPT ![p] = "stopped"]
  BY OpenCases
<1> HIDE DEF merged
<1>3. PICK m, entries :
        /\ Took(p, m, entries) /\ m.restarted = (phase[p] = "closed")
        /\ \/ /\ entries = merged
              /\ record' = Retired(p, Claimed(p), entries)
              /\ phase' = [phase EXCEPT ![p] =
                   IF SequencesDiffer(entries) THEN "checking" ELSE "stopped"]
           \/ /\ entries = {} /\ record' = record
              /\ phase' = [phase EXCEPT ![p] = "stopped"]
  BY <1>2
<1>4. /\ page' = [page EXCEPT ![p] = m] /\ tail' = tail
      /\ Ops(ToSet(m.queue)) = Ops(entries) /\ m.confirmed = page[p].confirmed
      /\ m.inFlight = None /\ \A i \in DOMAIN m.queue : m.queue[i].fixed
      /\ SequencesDiffer(entries) =>
           \A i, j \in DOMAIN m.queue : m.queue[i].op = m.queue[j].op => i = j
  BY <1>3 DEF Took
<1>5. page'[p] = m /\ \A q \in Pages : q # p => page'[q] = page[q] /\ phase'[q] = phase[q]
  BY <1>1, <1>3, <1>4
<1>6. \A q \in Pages : q # p => record'[q] \in {record[q], {}}
  BY <1>3 DEF Retired
<1>7. Still(p)
  BY <1>4, <1>5, <1>6 DEF Still
<1>8. page[p].restarted => page'[p].restarted
  <2>1. phase[p] = "new" => ~page[p].restarted
    BY <1>1 DEF GoodPhase, Empty
  <2> QED
    BY <1>2, <1>3, <1>5, <2>1
<1>9. ASSUME Apart, \A r \in Pages : ~page[r].restarted, ~page'[p].restarted
      PROVE  Sound(p)' /\ \A q \in Pages : q # p => Holds(p)' \cap Holds(q)' = {}
  <2>1. m.confirmed = {}
    <3>1. phase[p] = "new"
      BY <1>2, <1>3, <1>5, <1>9
    <3> QED
      BY <1>1, <1>4, <3>1 DEF GoodPhase, Empty
  <2>2. \A q \in Pages : Ops(record[q]) \subseteq Holds(q) /\ Single(record[q])
    BY <1>9 DEF Holds, Apart, Sound
  <2>3. Single(merged)
    <3>1. ASSUME NEW e \in merged, NEW f \in merged, e.op = f.op PROVE e = f
      <4>1. PICK q \in Claimed(p) : e \in record[q]
        BY DEF merged
      <4>2. PICK r \in Claimed(p) : f \in record[r]
        BY DEF merged
      <4>3. q \in Pages /\ r \in Pages /\ e.op \in Holds(q) /\ e.op \in Holds(r)
        BY <1>1, <2>2, <3>1, <4>1, <4>2 DEF Ops
      <4>4. q = r
        BY <1>9, <4>3 DEF Apart
      <4> QED
        BY <2>2, <3>1, <4>1, <4>2, <4>3, <4>4 DEF Single
    <3> QED
      BY <3>1 DEF Single
  <2>4. Single({})
    BY DEF Single
  <2>5. entries \in SUBSET Written(D) /\ Single(entries)
    BY <1>1, <1>3, <2>3, <2>4
  <2>6. SequencesDiffer(entries)
    BY <1>9, <2>5, SingleIsLoadable
  <2>7. Consistent(m) /\ Settled(m)
    BY <1>4, <2>1, <2>6 DEF Consistent, Settled
  <2>8. record'[p] \in {record[p], merged}
    BY <1>3 DEF Retired
  <2>9. Sound(p)'
    <3>1. Single(record'[p])
      BY <2>2, <2>3, <2>8
    <3>2. DOMAIN tail'[p] = {}
      BY <1>2, <1>4
    <3> QED
      BY <1>5, <2>7, <3>1, <3>2 DEF Sound
  <2>10. Holds(p)' \subseteq Ops(record'[p]) \cup Ops(entries)
    <3>1. Has(m) = Ops(entries)
      BY <1>4, <2>1 DEF Has, Held, Ops
    <3>2. DOMAIN tail'[p] = {}
      BY <1>2, <1>4
    <3> QED
      BY <1>5, <3>1, <3>2 DEF Holds
  <2>11. ASSUME NEW q \in Pages, q # p PROVE Holds(p)' \cap Holds(q)' = {}
    <3>1. Holds(q)' \subseteq Holds(q) /\ Holds(p) \cap Holds(q) = {}
      BY <1>7, <1>9, <2>11, StillHolds DEF Apart
    <3>2. CASE entries = {} /\ record' = record
      <4>1. Ops(entries) = {}
        BY <3>2 DEF Ops
      <4>2. Holds(p)' \subseteq Holds(p)
        BY <2>2, <2>10, <3>2, <4>1
      <4> QED
        BY <3>1, <4>2
    <3>3. CASE entries = merged /\ record' = Retired(p, Claimed(p), entries)
      <4>1. Holds(p)' \subseteq Ops(merged)
        BY <2>10, <3>3 DEF Retired
      <4>2. CASE q \in Claimed(p)
        <5>1. ~Owned(q) /\ tail[q] = <<>>
          <6>1. ~Owned(q)
            BY <2>11, <4>2 DEF Claimed
          <6> QED
            BY <6>1, PageFacts DEF GoodPhase
        <5>2. record'[q] = {} /\ tail'[q] = <<>> /\ phase'[q] = phase[q]
          BY <1>4, <1>5, <2>11, <3>3, <4>2, <5>1 DEF Retired
        <5>3. DOMAIN tail'[q] = {} /\ Ops(record'[q]) = {} /\ ~Owned(q)'
          BY <5>1, <5>2 DEF Ops, Owned
        <5>4. Holds(q)' = {}
          BY <5>3 DEF Holds
        <5> QED
          BY <5>4
      <4>3. CASE q \notin Claimed(p)
        <5>1. ASSUME NEW op \in Ops(merged) PROVE op \notin Holds(q)
          <6>1. PICK r \in Claimed(p) : op \in Ops(record[r])
            BY <5>1 DEF Ops, merged
          <6>2. r \in Pages /\ r # q /\ op \in Holds(r)
            BY <1>1, <2>2, <4>3, <6>1
          <6> QED
            BY <1>9, <6>2 DEF Apart
        <5> QED
          BY <3>1, <4>1, <5>1
      <4> QED
        BY <4>2, <4>3
    <3> QED
      BY <1>3, <3>2, <3>3
  <2> QED
    BY <2>9, <2>11
<1> QED
  BY <1>7, <1>8, <1>9, ApartStep

LEMMA StepsKeepApart ==
  ASSUME IInv, IInv', ApartInv, [Next]_vars
  PROVE  ApartInv'
<1> PICK D \in SUBSET Op : Base(D)
  BY DEF IInv
<1> PICK E : Base(E)'
  BY DEF IInv
<1>1. ASSUME NEW p \in Pages,
             \/ Open(p) \/ Crash(p) \/ Purge(p) \/ Write(p) \/ WriteFails(p) \/ Draft(p)
      PROVE  ApartInv'
  BY <1>1, OpenApart, LosingApart, WriteApart, DraftApart
<1>2. ASSUME NEW p \in Pages,
             \/ Close(p) \/ Discard(p) \/ CheckpointSaved(p) \/ Check(p) \/ Finish(p)
             \/ Send(p) \/ Answer(p) \/ Acknowledge(p) \/ Fails(p)
      PROVE  ApartInv'
  BY <1>2, CloseApart, DiscardApart, CheckpointApart, CheckApart, FinishApart, SendApart,
     AnswerApart, AcknowledgeApart, FailsApart
<1>3. ASSUME NEW p \in Pages,
             \/ Release(p) \/ TimerFires(p) \/ Save(p) \/ Covered(p) \/ CheckpointFails(p)
             \/ CoverFails(p)
      PROVE  ApartInv'
  BY <1>3, RestingSteps
<1>4. CASE (\E op \in network : Handle(op) \/ Refuse(op)) \/ UNCHANGED vars
  <2>1. UNCHANGED <<record, tail, phase, page>>
    BY <1>4, ServerSteps DEF storage
  <2>2. \A p \in Pages : Sound(p)' = Sound(p) /\ Holds(p)' = Holds(p)
    BY <2>1 DEF Sound, Holds, Owned
  <2> QED
    BY <2>1, <2>2 DEF ApartInv, Apart
<1> QED
  BY <1>1, <1>2, <1>3, <1>4 DEF Next

LEMMA InitApart ==
  ASSUME Init
  PROVE  ApartInv
<1>1. ASSUME NEW p \in Pages PROVE Sound(p) /\ Holds(p) = {}
  <2>1. /\ record[p] = {} /\ tail[p] = <<>> /\ page[p] = Empty /\ phase[p] = "new"
        /\ Empty.queue = <<>> /\ Empty.confirmed = {}
    BY DEF Init, Empty
  <2>2. DOMAIN Empty.queue = {} /\ DOMAIN tail[p] = {}
    BY <2>1
  <2>3. Sound(p)
    BY <2>1, <2>2 DEF Sound, Consistent, Single
  <2>4. Holds(p) = {}
    BY <2>1, <2>2 DEF Holds, Owned, Ops
  <2> QED
    BY <2>3, <2>4
<1> QED
  BY <1>1 DEF ApartInv, Apart

\* The records of a workbook can be loaded by whichever page starts next, and
\* no page holds a draft of another live page, until a page is started again.
THEOREM RecordsAreLoadable == Spec => []LoadableUnlessRestarted
<1>1. Init => ApartInv
  BY InitApart
<1>2. IInv /\ IInv' /\ ApartInv /\ [Next]_vars => ApartInv'
  BY StepsKeepApart
<1>3. ASSUME IInv, ApartInv PROVE LoadableUnlessRestarted
  <2> PICK D \in SUBSET Op : Base(D)
    BY <1>3 DEF IInv
  <2>1. ASSUME \A r \in Pages : ~page[r].restarted, NEW p \in Pages, NEW q \in Pages
        PROVE  /\ p # q => Ops(record[p]) \cap Ops(record[q]) = {}
               /\ p # q /\ Active(p) /\ Active(q) =>
                    Ops(ToSet(page[p].queue)) \cap Ops(ToSet(page[q].queue)) = {}
               /\ SequencesDiffer(record[p])
    <3>1. Apart
      BY <1>3, <2>1 DEF ApartInv
    <3>2. \A r \in Pages : Ops(record[r]) \subseteq Holds(r)
      BY DEF Holds
    <3>3. \A r \in Pages : Active(r) => Ops(ToSet(page[r].queue)) \subseteq Holds(r)
      BY DEF Holds, Has, Held, Active, Owned
    <3>4. p # q => Holds(p) \cap Holds(q) = {}
      BY <3>1 DEF Apart
    <3>5. SequencesDiffer(record[p])
      <4>1. record[p] \in SUBSET Written(D)
        <5>1. record \in [Pages -> SUBSET Written(D)]
          BY ONLY Base(D), BaseFacts
        <5> QED
          BY ONLY <5>1, p \in Pages
      <4>2. Single(record[p])
        BY <3>1 DEF Apart, Sound
      <4> QED
        BY <2>1, <4>1, <4>2, SingleIsLoadable
    <3> QED
      BY <3>2, <3>3, <3>4, <3>5
  <2> QED
    BY <2>1 DEF LoadableUnlessRestarted
<1> QED
  BY <1>1, <1>2, <1>3, InvariantHolds, PTL DEF Spec
=============================================================================
