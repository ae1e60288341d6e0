---------------------- MODULE CalculationTasks_proofs ----------------------
(***************************************************************************)
(* Proofs about CalculationTasks, for any cells, any references between    *)
(* them and any number of changes, commands and faults.                    *)
(*                                                                         *)
(* That the worker keeps in step rests on the order of the port: a result  *)
(* the page accepts is that of the last task it sent, so that nothing else *)
(* is under way when the page counts the inputs of that task as known      *)
(* (Ordered), and the page has not changed since (Current): until the      *)
(* worker has handled that task the task is the last on its way and says   *)
(* all the worker may lack, and then the worker has the texts of the page. *)
(*                                                                         *)
(* That no formula is forgotten rests on the same order (DirtyInv): what   *)
(* the page and the worker hold as dirty reaches every value that is not   *)
(* that of its sources, and the result that is accepted covers all of it.  *)
(* The values are defined by recursion over the references.  They exist    *)
(* because no formula depends on itself, and what is said of all of them   *)
(* holds because the formulas without it would have a first.               *)
(***************************************************************************)
EXTENDS CalculationTasks, SequenceTheorems, TLAPS

Modes == {"automatic", "manual"}

IsEngine(e) ==
  /\ DOMAIN e = {"text", "value", "dirty", "mode"}
  /\ e.text \in [Cells \cup {View} -> 0 .. MaxChanges]
  /\ DOMAIN e.value = Formulas
  /\ e.dirty \in SUBSET Cells
  /\ e.mode \in Modes

\* The page after n changes.
IsPage(p, n) ==
  /\ DOMAIN p = {"text", "value", "dirty", "mode", "updates", "sequence",
                 "generation", "context"}
  /\ p.text \in [Cells \cup {View} -> 0 .. n]
  /\ DOMAIN p.value = Formulas
  /\ p.dirty \in SUBSET Cells
  /\ p.mode \in Modes
  /\ p.sequence \in 1 .. n + 1
  /\ p.updates \in [Cells -> 0 .. p.sequence]
  /\ p.generation \in 1 .. n + 1
  /\ p.context \in 1 .. n + 1

\* The page has sent n tasks at most.
IsMessage(m, p, n) ==
  /\ m.id \in 1 .. n
  /\ m.roots \in SUBSET Cells
  /\ m.snapshot = NoEngine \/ IsEngine(m.snapshot)
  /\ DOMAIN m.inputs \in SUBSET Unacknowledged(p)
  /\ \A c \in DOMAIN m.inputs : m.inputs[c] \in 0 .. MaxChanges

IsResult(r, n) ==
  /\ r.id \in 1 .. n
  /\ DOMAIN r.values \in SUBSET Formulas
  /\ r.dirty \in SUBSET Cells

Sent == changes + commands + 1

IsSequence(q) == \E S : q \in Seq(S)

Typed ==
  /\ changes \in 0 .. MaxChanges
  /\ commands \in 0 .. MaxCommands
  /\ faults \in 0 .. MaxFaults
  /\ failed \in BOOLEAN
  /\ alone \in BOOLEAN
  /\ IsPage(page, changes)
  /\ workerContext \in 0 .. page.context
  /\ worker = NoEngine \/ IsEngine(worker)
  /\ IsSequence(inbox)
  /\ IsSequence(outbox)
  /\ \A i \in 1 .. Len(inbox) : IsMessage(inbox[i], page, Sent)
  /\ \A i \in 1 .. Len(outbox) : IsResult(outbox[i], Sent)

\* The worker has an engine once a task said anything about a context.
Started ==
  worker = NoEngine =>
    /\ workerContext = 0
    /\ \A i \in 1 .. Len(inbox) : inbox[i].snapshot # NoEngine

\* What is under way is in the order in which the page sent it.
Ordered ==
  /\ \A i, j \in 1 .. Len(inbox) : i < j => inbox[i].id < inbox[j].id
  /\ \A i, j \in 1 .. Len(outbox) : i < j => outbox[i].id < outbox[j].id
  /\ \A i \in 1 .. Len(inbox), j \in 1 .. Len(outbox) : outbox[j].id < inbox[i].id

\* The task says all that the worker may lack.
SaysAll(m, p, known) ==
  IF m.snapshot = NoEngine
  THEN /\ known = p.context
       /\ m.inputs = [c \in Unacknowledged(p) |-> p.text[c]]
  ELSE /\ m.snapshot.text = p.text
       /\ m.snapshot.mode = p.mode

Current ==
  task # NoTask =>
    /\ task.generation = page.generation
    /\ task.context = page.context
    /\ task.revision = page.sequence
    /\ task.id \in 1 .. Sent
    /\ \A j \in 1 .. Len(outbox) : outbox[j].id <= task.id
    /\ IF Len(inbox) = 0
       THEN worker.text = page.text /\ worker.mode = page.mode
       ELSE /\ inbox[Len(inbox)].id = task.id
            /\ SaysAll(inbox[Len(inbox)], page, workerContext)

IInv == Typed /\ Started /\ Ordered /\ Current /\ WorkerInStep

-----------------------------------------------------------------------------
(* Sequences, and the values that are not there.                           *)

LEMMA AppendExtends ==
  ASSUME NEW q, IsSequence(q), NEW m
  PROVE  /\ IsSequence(Append(q, m))
         /\ Len(q) \in Nat
         /\ Len(Append(q, m)) = Len(q) + 1
         /\ \A i \in 1 .. Len(q) : Append(q, m)[i] = q[i]
         /\ Append(q, m)[Len(q) + 1] = m
<1>1. PICK S : q \in Seq(S)
  BY DEF IsSequence
<1>2. q \in Seq(S \cup {m}) /\ m \in S \cup {m}
  BY <1>1
<1>3. Append(q, m) \in Seq(S \cup {m})
  BY <1>2
<1> QED
  BY <1>2, <1>3 DEF IsSequence

LEMMA TailDropsHead ==
  ASSUME NEW q, IsSequence(q), q # <<>>
  PROVE  /\ IsSequence(Tail(q))
         /\ Len(q) \in Nat \ {0}
         /\ Len(Tail(q)) = Len(q) - 1
         /\ \A i \in 1 .. Len(q) - 1 : Tail(q)[i] = q[i + 1]
         /\ Head(q) = q[1]
<1>1. PICK S : q \in Seq(S)
  BY DEF IsSequence
<1>2. Tail(q) \in Seq(S) /\ Len(q) \in Nat \ {0}
  BY <1>1, HeadTailProperties, EmptySeq, LenProperties
<1> QED
  BY <1>1, <1>2 DEF IsSequence

LEMMA SequenceLength ==
  ASSUME NEW q, IsSequence(q)
  PROVE  /\ Len(q) \in Nat
         /\ DOMAIN q = 1 .. Len(q)
         /\ q = <<>> <=> Len(q) = 0
<1>1. PICK S : q \in Seq(S)
  BY DEF IsSequence
<1> QED
  BY <1>1, EmptySeq, LenProperties

LEMMA NothingIsSent ==
  /\ DOMAIN Null = {}
  /\ NoTask.id = 0
  /\ NoEngine.mode = "none"
  /\ \A e : IsEngine(e) => e # NoEngine
<1>1. NoEngine.mode = "none" /\ NoTask.id = 0
  BY DEF NoEngine, NoTask
<1>2. \A e : IsEngine(e) => e.mode # "none"
  BY DEF IsEngine, Modes
<1>3. DOMAIN Null = {}
  BY DEF Null
<1> QED
  BY <1>1, <1>2, <1>3

\* The invariant has the properties the runs check of the types.
LEMMA TypedIsTypeOK ==
  ASSUME IInv
  PROVE  TypeOK
<1>1. /\ IsPage(page, changes)
      /\ changes \in 0 .. MaxChanges
      /\ commands \in 0 .. MaxCommands
      /\ MaxChanges \in Nat /\ MaxCommands \in Nat
  BY BoundsAssumption DEF IInv, Typed
<1>2. Core(page) \in Engines /\ DOMAIN page.value = Formulas
  <2>1. page.text \in [Cells \cup {View} -> 0 .. MaxChanges]
    BY <1>1 DEF IsPage
  <2> QED
    BY <1>1, <2>1 DEF IsPage, Core, Engines, Modes
<1>3. /\ page.updates \in [Cells -> 0 .. page.sequence]
      /\ page.sequence \in 1 .. MaxChanges + 1
      /\ {page.generation, page.context} \subseteq 1 .. MaxChanges + 1
  BY <1>1 DEF IsPage
<1>4. worker = NoEngine \/ (Core(worker) \in Engines /\ DOMAIN worker.value = Formulas)
  BY DEF IInv, Typed, IsEngine, Core, Engines, Modes
<1>5. task.id \in 0 .. MaxChanges + MaxCommands + 1
  BY <1>1, NothingIsSent DEF IInv, Current, Sent
<1>6. /\ \A i \in 1 .. Len(inbox) :
           inbox[i].roots \subseteq Cells /\ DOMAIN inbox[i].inputs \subseteq Cells
      /\ \A i \in 1 .. Len(outbox) : DOMAIN outbox[i].values \subseteq Formulas
  BY DEF IInv, Typed, IsMessage, IsResult, Unacknowledged
<1> QED
  BY <1>2, <1>3, <1>4, <1>5, <1>6 DEF TypeOK, IInv, Typed
-----------------------------------------------------------------------------
(* The page changes, and sends a task or cancels the one it waits for.     *)

\* The page p comes after the present one: what the worker had acknowledged is
\* kept, or is an unacknowledged input, or the context is another one.
Follows(p, n) ==
  /\ IsPage(p, n)
  /\ Unacknowledged(page) \subseteq Unacknowledged(p)
  /\ page.context <= p.context
  /\ p.context = page.context =>
       /\ p.mode = page.mode
       /\ \A c \in Cells \cup {View} : c \notin Unacknowledged(p) => p.text[c] = page.text[c]

LEMMA PageFollowsItself ==
  ASSUME IInv
  PROVE  Follows(page, changes)
<1>1. IsPage(page, changes) /\ changes \in Nat
  BY BoundsAssumption DEF IInv, Typed
<1>2. page.context \in Int
  BY <1>1 DEF IsPage
<1> QED
  BY <1>1, <1>2 DEF Follows

\* Edits, shown rows and modes only add to what the page says of itself.
LEMMA MessageIsMessage ==
  ASSUME IInv, NEW p, NEW kind, NEW roots \in SUBSET Cells,
         NEW n \in 0 .. MaxChanges, Follows(p, n)
  PROVE  LET m == Message(p, kind, roots)
         IN  /\ m.id = Sent + 1
             /\ m.roots \in SUBSET Cells
             /\ m.snapshot = NoEngine <=> workerContext = p.context
             /\ m.snapshot # NoEngine =>
                  /\ IsEngine(m.snapshot)
                  /\ m.snapshot.text = p.text
                  /\ m.snapshot.mode = p.mode
             /\ m.inputs = [c \in Unacknowledged(p) |-> p.text[c]]
             /\ DOMAIN m.inputs = Unacknowledged(p)
             /\ \A c \in DOMAIN m.inputs : m.inputs[c] \in 0 .. MaxChanges
<1> DEFINE m == Message(p, kind, roots)
<1>1. IsPage(p, n) /\ MaxChanges \in Nat
  BY BoundsAssumption DEF Follows
<1>2. /\ m.id = changes + commands + 2
      /\ m.roots = roots
      /\ m.snapshot = IF workerContext # p.context THEN Snapshot(p) ELSE NoEngine
      /\ m.inputs = [c \in Unacknowledged(p) |-> p.text[c]]
  BY DEF Message
<1>3. m.id = Sent + 1
  BY <1>2, BoundsAssumption DEF IInv, Typed, Sent
<1>4. /\ IsEngine(Snapshot(p))
      /\ Snapshot(p).text = p.text
      /\ Snapshot(p).mode = p.mode
  <2>1. /\ DOMAIN Snapshot(p) = {"text", "value", "dirty", "mode"}
        /\ Snapshot(p).text = p.text
        /\ Snapshot(p).mode = p.mode
        /\ Snapshot(p).dirty = p.dirty
        /\ Snapshot(p).value = [f \in Formulas |-> Null]
    BY DEF Snapshot
  <2>2. p.text \in [Cells \cup {View} -> 0 .. MaxChanges]
    BY <1>1 DEF IsPage
  <2> QED
    BY <1>1, <2>1, <2>2 DEF IsEngine, IsPage
<1>5. \A c \in Unacknowledged(p) : p.text[c] \in 0 .. MaxChanges
  BY <1>1 DEF IsPage, Unacknowledged
<1> HIDE DEF m
<1>6. DOMAIN m.inputs = Unacknowledged(p)
  BY <1>2
<1>7. \A c \in DOMAIN m.inputs : m.inputs[c] \in 0 .. MaxChanges
  BY <1>2, <1>5
<1>8. m.snapshot = NoEngine <=> workerContext = p.context
  BY <1>2, <1>4, NothingIsSent
<1>9. /\ IsEngine(m.snapshot) \/ m.snapshot = NoEngine
      /\ m.snapshot # NoEngine => m.snapshot.text = p.text /\ m.snapshot.mode = p.mode
  BY <1>2, <1>4
<1> QED
  BY <1>2, <1>3, <1>6, <1>7, <1>8, <1>9 DEF m

\* The parts of the invariant that do not depend on whether a task is sent.
LEMMA FollowingKeepsEngines ==
  ASSUME IInv, NEW p, Follows(p, changes'), page' = p,
         changes' \in 0 .. MaxChanges,
         UNCHANGED <<workerContext, worker>>
  PROVE  /\ IsPage(page, changes)'
         /\ workerContext' \in 0 .. page'.context
         /\ workerContext' = page'.context =>
              /\ workerContext = page.context
              /\ worker'.mode = page'.mode
              /\ \A c \in Cells \cup {View} :
                   c \notin Unacknowledged(page)' => worker'.text[c] = page'.text[c]
<1>1. /\ IsPage(p, changes')
      /\ page.context <= p.context
      /\ Unacknowledged(page) \subseteq Unacknowledged(p)
  BY DEF Follows
<1>2. IsPage(page, changes)' /\ Unacknowledged(page)' = Unacknowledged(p)
  BY <1>1 DEF IsPage, Unacknowledged, Modes
<1>3. page.context \in Int /\ p.context \in Int /\ workerContext \in 0 .. page.context
  BY <1>1, BoundsAssumption DEF IsPage, IInv, Typed
<1>4. workerContext' \in 0 .. page'.context
  BY <1>1, <1>3
<1>5. ASSUME workerContext' = page'.context
      PROVE  /\ workerContext = page.context
             /\ worker'.mode = page'.mode
             /\ \A c \in Cells \cup {View} :
                  c \notin Unacknowledged(page)' => worker'.text[c] = page'.text[c]
  <2>1. workerContext = page.context /\ p.context = page.context
    BY <1>1, <1>3, <1>5
  <2>2. /\ p.mode = page.mode
        /\ \A c \in Cells \cup {View} : c \notin Unacknowledged(p) => p.text[c] = page.text[c]
    BY <2>1 DEF Follows
  <2>3. /\ worker.mode = page.mode
        /\ \A c \in Cells \cup {View} :
             c \notin Unacknowledged(page) => worker.text[c] = page.text[c]
    BY <2>1 DEF IInv, WorkerInStep
  <2> QED
    BY <1>1, <1>2, <2>1, <2>2, <2>3
<1> QED
  BY <1>2, <1>4, <1>5

\* What was said before is still said of inputs the page holds.
LEMMA MessagesStay ==
  ASSUME IInv, NEW p, NEW n, Follows(p, n), page' = p,
         Sent \in Nat, Sent' \in Nat, Sent <= Sent'
  PROVE  /\ \A m : IsMessage(m, page, Sent) => IsMessage(m, page', Sent')
         /\ \A r : IsResult(r, Sent) => IsResult(r, Sent')
<1>1. Sent \in Nat /\ Sent' \in Nat /\ Sent <= Sent'
  OBVIOUS
<1>2. Unacknowledged(page)' = Unacknowledged(p) /\ Unacknowledged(page) \subseteq Unacknowledged(p)
  BY DEF Unacknowledged, Follows
<1>3. ASSUME NEW m, IsMessage(m, page, Sent) PROVE IsMessage(m, page', Sent')
  <2>1. m.id \in 1 .. Sent' /\ DOMAIN m.inputs \in SUBSET Unacknowledged(page)'
    BY <1>1, <1>2, <1>3 DEF IsMessage
  <2> QED
    BY <1>3, <2>1 DEF IsMessage, IsEngine
<1>4. ASSUME NEW r, IsResult(r, Sent) PROVE IsResult(r, Sent')
  BY <1>1, <1>4 DEF IsResult
<1> QED
  BY <1>3, <1>4
\* A cancelled task is still handled, and its result passed over.
LEMMA CancelKeepsInv ==
  ASSUME IInv, NEW p, Follows(p, changes'), Cancel(p),
         changes' \in 0 .. MaxChanges, changes' = changes + 1,
         UNCHANGED <<workerContext, worker, outbox, commands, faults, alone>>
  PROVE  IInv'
<1>1. page' = p /\ task' = NoTask /\ inbox' = inbox /\ failed' = failed
  BY DEF Cancel
<1>2. /\ IsPage(page, changes)'
      /\ workerContext' \in 0 .. page'.context
      /\ workerContext' = page'.context =>
           /\ workerContext = page.context
           /\ worker'.mode = page'.mode
           /\ \A c \in Cells \cup {View} :
                c \notin Unacknowledged(page)' => worker'.text[c] = page'.text[c]
  BY <1>1, FollowingKeepsEngines
<1>3. /\ \A m : IsMessage(m, page, Sent) => IsMessage(m, page', Sent')
      /\ \A r : IsResult(r, Sent) => IsResult(r, Sent')
  <2>1. changes \in Nat /\ commands \in Nat
    BY BoundsAssumption DEF IInv, Typed
  <2>2. Sent \in Nat
    BY <2>1 DEF Sent
  <2>3. Sent' = Sent + 1
    BY <2>1 DEF Sent
  <2>4. Sent' \in Nat /\ Sent <= Sent'
    BY <2>2, <2>3
  <2> QED
    BY <1>1, <2>2, <2>4, MessagesStay
<1>4. Typed'
  <2>1. /\ IsSequence(inbox') /\ IsSequence(outbox')
        /\ \A i \in 1 .. Len(inbox') : IsMessage(inbox'[i], page', Sent')
        /\ \A i \in 1 .. Len(outbox') : IsResult(outbox'[i], Sent')
    BY <1>1, <1>3 DEF IInv, Typed
  <2>2. worker' = NoEngine \/ IsEngine(worker')
    BY DEF IInv, Typed
  <2>3. commands' \in 0 .. MaxCommands /\ faults' \in 0 .. MaxFaults
    BY DEF IInv, Typed
  <2>4. failed' \in BOOLEAN /\ alone' \in BOOLEAN
    BY <1>1 DEF IInv, Typed
  <2> QED
    BY <1>2, <2>1, <2>2, <2>3, <2>4 DEF Typed, IsEngine, IsSequence
<1>5. Started' /\ Ordered'
  BY <1>1 DEF IInv, Started, Ordered
<1>6. Current'
  BY <1>1 DEF Current
<1>7. WorkerInStep'
  <2>1. ASSUME workerContext' = page'.context, NEW i \in DOMAIN inbox'
        PROVE  inbox'[i].snapshot = NoEngine /\ DOMAIN inbox'[i].inputs \subseteq Unacknowledged(page)'
    <3>1. inbox[i].snapshot = NoEngine
      BY <1>1, <1>2, <2>1 DEF IInv, WorkerInStep
    <3>2. DOMAIN inbox = 1 .. Len(inbox)
      BY SequenceLength DEF IInv, Typed
    <3>3. IsMessage(inbox'[i], page', Sent')
      BY <1>1, <1>4, <2>1, <3>2 DEF Typed
    <3> QED
      BY <1>1, <3>1, <3>3 DEF IsMessage
  <2> QED
    BY <1>2, <2>1 DEF WorkerInStep
<1> QED
  BY <1>4, <1>5, <1>6, <1>7 DEF IInv

\* A task that is sent is the last one, and says what the worker may lack.
LEMMA SubmitKeepsInv ==
  ASSUME IInv, NEW p, NEW kind, NEW roots \in SUBSET Cells,
         Follows(p, changes'), Submit(p, kind, roots),
         changes' \in 0 .. MaxChanges, commands' \in 0 .. MaxCommands,
         changes' + commands' = changes + commands + 1,
         alone' \in BOOLEAN,
         UNCHANGED <<workerContext, worker, outbox, faults>>
  PROVE  IInv'
<1> DEFINE m == Message(p, kind, roots)
<1>1. /\ page' = p
      /\ inbox' = Append(inbox, m)
      /\ failed' = FALSE
      /\ task' = [id |-> m.id, kind |-> m.kind, generation |-> p.generation,
                  context |-> p.context, revision |-> p.sequence]
  BY DEF Submit, Send
<1>2. /\ m.id = Sent + 1
      /\ m.roots \in SUBSET Cells
      /\ m.snapshot = NoEngine <=> workerContext = p.context
      /\ m.snapshot # NoEngine =>
           /\ IsEngine(m.snapshot)
           /\ m.snapshot.text = p.text
           /\ m.snapshot.mode = p.mode
      /\ m.inputs = [c \in Unacknowledged(p) |-> p.text[c]]
      /\ DOMAIN m.inputs = Unacknowledged(p)
      /\ \A c \in DOMAIN m.inputs : m.inputs[c] \in 0 .. MaxChanges
  BY MessageIsMessage
<1> HIDE DEF m
<1>3. /\ IsPage(page, changes)'
      /\ workerContext' \in 0 .. page'.context
      /\ workerContext' = page'.context =>
           /\ workerContext = page.context
           /\ worker'.mode = page'.mode
           /\ \A c \in Cells \cup {View} :
                c \notin Unacknowledged(page)' => worker'.text[c] = page'.text[c]
  BY <1>1, FollowingKeepsEngines
<1>4. /\ changes \in Nat /\ commands \in Nat /\ Sent \in Nat
      /\ changes' \in Nat /\ commands' \in Nat /\ Sent' = Sent + 1
  <2>1. changes \in Nat /\ commands \in Nat /\ changes' \in Nat /\ commands' \in Nat
    BY BoundsAssumption DEF IInv, Typed
  <2>2. Sent \in Nat
    BY <2>1 DEF Sent
  <2>3. Sent' = Sent + 1
    BY <2>1 DEF Sent
  <2> QED
    BY <2>1, <2>2, <2>3
<1>5. /\ \A n : IsMessage(n, page, Sent) => IsMessage(n, page', Sent')
      /\ \A r : IsResult(r, Sent) => IsResult(r, Sent')
  <2>1. Sent \in Nat /\ Sent' \in Nat /\ Sent <= Sent'
    BY <1>4
  <2> QED
    BY <1>1, <1>4, <2>1, MessagesStay
<1>6. Unacknowledged(page)' = Unacknowledged(p)
  BY <1>1 DEF Unacknowledged
<1>7. IsMessage(m, page', Sent')
  <2>1. m.id \in 1 .. Sent' /\ DOMAIN m.inputs \in SUBSET Unacknowledged(page)'
    BY <1>2, <1>4, <1>6
  <2>2. m.snapshot = NoEngine \/ IsEngine(m.snapshot)
    BY <1>2
  <2> QED
    BY <1>2, <2>1, <2>2 DEF IsMessage, IsEngine
<1>8. /\ IsSequence(inbox') /\ Len(inbox) \in Nat
      /\ Len(inbox') = Len(inbox) + 1
      /\ \A i \in 1 .. Len(inbox) : inbox'[i] = inbox[i]
      /\ inbox'[Len(inbox) + 1] = m
  BY <1>1, AppendExtends DEF IInv, Typed
<1>9. /\ \A i \in 1 .. Len(inbox) : inbox[i].id \in 1 .. Sent
      /\ \A i \in 1 .. Len(outbox) : outbox[i].id \in 1 .. Sent
  BY DEF IInv, Typed, IsMessage, IsResult
<1>10. Typed'
  <2>1. \A i \in 1 .. Len(inbox') : IsMessage(inbox'[i], page', Sent')
    BY <1>5, <1>7, <1>8 DEF IInv, Typed
  <2>2. IsSequence(outbox') /\ \A i \in 1 .. Len(outbox') : IsResult(outbox'[i], Sent')
    BY <1>5 DEF IInv, Typed
  <2>3. worker' = NoEngine \/ IsEngine(worker')
    BY DEF IInv, Typed
  <2>4. faults' \in 0 .. MaxFaults /\ failed' \in BOOLEAN
    BY <1>1 DEF IInv, Typed
  <2> QED
    BY <1>3, <1>8, <2>1, <2>2, <2>3, <2>4 DEF Typed, IsEngine, IsSequence
<1>11. Started'
  <2>1. ASSUME worker = NoEngine
        PROVE  workerContext = 0 /\ \A i \in 1 .. Len(inbox') : inbox'[i].snapshot # NoEngine
    <3>1. workerContext = 0 /\ \A i \in 1 .. Len(inbox) : inbox[i].snapshot # NoEngine
      BY <2>1 DEF IInv, Started
    <3>2. p.context # 0
      BY <1>4 DEF Follows, IsPage
    <3> QED
      BY <1>2, <1>8, <3>1, <3>2
  <2> QED
    BY <2>1 DEF Started
<1>12. Ordered'
  <2>1. ASSUME NEW i \in 1 .. Len(inbox'), NEW j \in 1 .. Len(inbox'), i < j
        PROVE  inbox'[i].id < inbox'[j].id
    <3>1. i \in 1 .. Len(inbox)
      BY <1>8, <2>1
    <3>2. CASE j \in 1 .. Len(inbox)
      BY <1>8, <2>1, <3>1, <3>2 DEF IInv, Ordered
    <3>3. CASE j = Len(inbox) + 1
      BY <1>2, <1>4, <1>8, <1>9, <3>1, <3>3
    <3> QED
      BY <1>8, <3>2, <3>3
  <2>2. ASSUME NEW i \in 1 .. Len(inbox'), NEW j \in 1 .. Len(outbox)
        PROVE  outbox[j].id < inbox'[i].id
    <3>1. CASE i \in 1 .. Len(inbox)
      BY <1>8, <3>1 DEF IInv, Ordered
    <3>2. CASE i = Len(inbox) + 1
      BY <1>2, <1>4, <1>8, <1>9, <3>2
    <3> QED
      BY <1>8, <3>1, <3>2
  <2>3. \A i, j \in 1 .. Len(outbox) : i < j => outbox[i].id < outbox[j].id
    BY DEF IInv, Ordered
  <2> QED
    BY <2>1, <2>2, <2>3 DEF Ordered
<1>13. Current'
  <2>1. /\ task'.generation = page'.generation
        /\ task'.context = page'.context
        /\ task'.revision = page'.sequence
        /\ task'.id = m.id
    BY <1>1
  <2>2. /\ task'.id \in 1 .. Sent'
        /\ \A j \in 1 .. Len(outbox') : outbox'[j].id <= task'.id
    BY <1>2, <1>4, <1>9, <2>1
  <2>3. Len(inbox') # 0 /\ inbox'[Len(inbox')] = m
    BY <1>8
  <2>4. SaysAll(m, page', workerContext')
    <3>1. CASE m.snapshot = NoEngine
      BY <1>1, <1>2, <1>6, <3>1 DEF SaysAll
    <3>2. CASE m.snapshot # NoEngine
      BY <1>1, <1>2, <3>2 DEF SaysAll
    <3> QED
      BY <3>1, <3>2
  <2> QED
    BY <2>1, <2>2, <2>3, <2>4 DEF Current
<1>14. WorkerInStep'
  <2>1. ASSUME workerContext' = page'.context, NEW i \in DOMAIN inbox'
        PROVE  inbox'[i].snapshot = NoEngine /\ DOMAIN inbox'[i].inputs \subseteq Unacknowledged(page)'
    <3>1. i \in 1 .. Len(inbox')
      BY <1>8, SequenceLength
    <3>2. DOMAIN inbox = 1 .. Len(inbox)
      BY SequenceLength DEF IInv, Typed
    <3>3. inbox'[i].snapshot = NoEngine
      <4>1. CASE i \in 1 .. Len(inbox)
        BY <1>3, <1>8, <2>1, <3>2, <4>1 DEF IInv, WorkerInStep
      <4>2. CASE i = Len(inbox) + 1
        BY <1>1, <1>2, <1>8, <2>1, <4>2
      <4> QED
        BY <1>8, <3>1, <4>1, <4>2
    <3>4. IsMessage(inbox'[i], page', Sent')
      BY <1>10, <3>1 DEF Typed
    <3> QED
      BY <3>3, <3>4 DEF IsMessage
  <2> QED
    BY <1>3, <2>1 DEF WorkerInStep
<1> QED
  BY <1>10, <1>11, <1>12, <1>13, <1>14 DEF IInv
LEMMA ChangeKeepsInv ==
  ASSUME IInv, NEW p, NEW automatic, Follows(p, changes'), Change(p, automatic)
  PROVE  IInv'
<1>1. /\ changes < MaxChanges
      /\ changes' = changes + 1
      /\ IF automatic THEN Submit(p, "roots", p.dirty) ELSE Cancel(p)
      /\ UNCHANGED <<workerContext, worker, outbox, commands, faults, alone>>
  BY DEF Change
<1>2. /\ changes' \in 0 .. MaxChanges
      /\ changes' + commands' = changes + commands + 1
      /\ commands' \in 0 .. MaxCommands
      /\ alone' \in BOOLEAN
      /\ p.dirty \in SUBSET Cells
  <2>1. changes \in 0 .. MaxChanges /\ commands \in 0 .. MaxCommands /\ alone \in BOOLEAN
    BY DEF IInv, Typed
  <2>2. p.dirty \in SUBSET Cells
    BY DEF Follows, IsPage
  <2> QED
    BY <1>1, <2>1, <2>2, BoundsAssumption
<1>3. CASE Submit(p, "roots", p.dirty)
  BY <1>1, <1>2, <1>3, SubmitKeepsInv
<1>4. CASE Cancel(p)
  BY <1>1, <1>2, <1>4, CancelKeepsInv
<1> QED
  BY <1>1, <1>3, <1>4

LEMMA EditKeepsInv ==
  ASSUME IInv, NEW c \in Cells, Edit(c)
  PROVE  IInv'
<1> DEFINE text == [page EXCEPT !.text[c] = @ + 1,
                                !.value = [f \in Formulas |-> IF f = c THEN Null ELSE @[f]],
                                !.dirty = @ \cup {c},
                                !.updates[c] = page.sequence + 1,
                                !.sequence = @ + 1,
                                !.generation = @ + 1]
           edited == IF page.mode = "automatic" \/ c \notin Formulas THEN text
                     ELSE [text EXCEPT !.value = Evaluated(text, {c} \cup (Sources[c] \cap Formulas))]
<1>1. Change(edited, page.mode = "automatic")
  BY DEF Edit
<1>2. changes' = changes + 1 /\ changes \in Nat
  BY <1>1, BoundsAssumption DEF Change, IInv, Typed
<1>3. IsPage(page, changes)
  BY DEF IInv, Typed
<1>4. /\ DOMAIN text = DOMAIN page
      /\ text.text = [page.text EXCEPT ![c] = @ + 1]
      /\ text.value = [f \in Formulas |-> IF f = c THEN Null ELSE page.value[f]]
      /\ text.dirty = page.dirty \cup {c}
      /\ text.mode = page.mode
      /\ text.updates = [page.updates EXCEPT ![c] = page.sequence + 1]
      /\ text.sequence = page.sequence + 1
      /\ text.generation = page.generation + 1
      /\ text.context = page.context
  BY <1>3 DEF IsPage
<1> HIDE DEF text
<1>5. /\ DOMAIN edited = DOMAIN page
      /\ edited.text = text.text
      /\ DOMAIN edited.value = Formulas
      /\ edited.dirty = text.dirty
      /\ edited.mode = text.mode
      /\ edited.updates = text.updates
      /\ edited.sequence = text.sequence
      /\ edited.generation = text.generation
      /\ edited.context = text.context
  <2>1. DOMAIN Evaluated(text, {c} \cup (Sources[c] \cap Formulas)) = Formulas
    BY DEF Evaluated
  <2>2. CASE page.mode = "automatic" \/ c \notin Formulas
    BY <1>4, <2>2
  <2>3. CASE ~ (page.mode = "automatic" \/ c \notin Formulas)
    BY <1>3, <1>4, <2>1, <2>3 DEF IsPage
  <2> QED
    BY <2>2, <2>3
<1> HIDE DEF edited
<1>6. PICK p : p = edited
  OBVIOUS
<1>7. IsPage(p, changes')
  <2>1. p.text \in [Cells \cup {View} -> 0 .. changes + 1]
    BY <1>2, <1>3, <1>4, <1>5, <1>6 DEF IsPage
  <2>2. /\ p.sequence \in 1 .. changes + 2
        /\ p.generation \in 1 .. changes + 2
        /\ p.context \in 1 .. changes + 2
    BY <1>2, <1>3, <1>4, <1>5, <1>6 DEF IsPage
  <2>3. p.updates \in [Cells -> 0 .. p.sequence]
    BY <1>2, <1>3, <1>4, <1>5, <1>6 DEF IsPage
  <2>4. /\ DOMAIN p = DOMAIN page
        /\ DOMAIN p.value = Formulas
        /\ p.dirty \in SUBSET Cells
        /\ p.mode = page.mode
    BY <1>3, <1>4, <1>5, <1>6 DEF IsPage
  <2>5. changes' + 1 = changes + 2
    BY <1>2
  <2> QED
    BY <1>2, <1>3, <2>1, <2>2, <2>3, <2>4, <2>5 DEF IsPage
<1>8. Unacknowledged(p) = Unacknowledged(page) \cup {c}
  <2>1. p.updates = [page.updates EXCEPT ![c] = page.sequence + 1]
    BY <1>4, <1>5, <1>6
  <2>2. page.sequence + 1 # 0 /\ page.updates \in [Cells -> 0 .. page.sequence]
    BY <1>2, <1>3 DEF IsPage
  <2> QED
    BY <2>1, <2>2 DEF Unacknowledged
<1>9. \A d \in (Cells \cup {View}) \ {c} : p.text[d] = page.text[d]
  BY <1>3, <1>4, <1>5, <1>6 DEF IsPage
<1>10. p.mode = page.mode /\ p.context = page.context /\ page.context <= p.context
  <2>1. page.context \in Int
    BY <1>2, <1>3 DEF IsPage
  <2> QED
    BY <1>4, <1>5, <1>6, <2>1
<1>11. Follows(p, changes')
  BY <1>7, <1>8, <1>9, <1>10 DEF Follows
<1> QED
  BY <1>1, <1>6, <1>11, ChangeKeepsInv

\* A change of the context: the worker is sent a snapshot next.
LEMMA ContextChangeFollows ==
  ASSUME IInv, NEW p,
         changes' = changes + 1,
         DOMAIN p = DOMAIN page,
         p.text \in [Cells \cup {View} -> 0 .. changes + 1],
         p.value = page.value,
         p.dirty \in SUBSET Cells,
         p.mode \in Modes,
         p.updates = page.updates,
         p.sequence = page.sequence,
         p.generation = page.generation + 1,
         p.context = page.context + 1
  PROVE  Follows(p, changes')
<1>1. IsPage(page, changes) /\ changes \in Nat
  BY BoundsAssumption DEF IInv, Typed
<1>2. /\ p.sequence \in 1 .. changes + 2
      /\ p.generation \in 1 .. changes + 2
      /\ p.context \in 1 .. changes + 2
      /\ page.context \in Int
  BY <1>1 DEF IsPage
<1>3. changes' + 1 = changes + 2
  BY <1>1
<1>4. IsPage(p, changes')
  BY <1>1, <1>2, <1>3 DEF IsPage
<1>5. Unacknowledged(p) = Unacknowledged(page)
  BY DEF Unacknowledged
<1>6. page.context <= p.context /\ p.context # page.context
  BY <1>2
<1> QED
  BY <1>4, <1>5, <1>6 DEF Follows

LEMMA ChangeVisibilityKeepsInv ==
  ASSUME IInv, ChangeVisibility
  PROVE  IInv'
<1> DEFINE shown == [page EXCEPT !.text[View] = @ + 1,
                      !.dirty = @ \cup {f \in Formulas : View \in Reads[f]},
                      !.context = @ + 1,
                      !.generation = @ + 1]
<1>1. Change(shown, TRUE)
  BY DEF ChangeVisibility
<1>2. changes' = changes + 1 /\ changes \in Nat
  BY <1>1, BoundsAssumption DEF Change, IInv, Typed
<1>3. IsPage(page, changes)
  BY DEF IInv, Typed
<1>4. /\ DOMAIN shown = DOMAIN page
      /\ shown.text = [page.text EXCEPT ![View] = @ + 1]
      /\ shown.value = page.value
      /\ shown.dirty = page.dirty \cup {f \in Formulas : View \in Reads[f]}
      /\ shown.mode = page.mode
      /\ shown.updates = page.updates
      /\ shown.sequence = page.sequence
      /\ shown.generation = page.generation + 1
      /\ shown.context = page.context + 1
  BY <1>3 DEF IsPage
<1> HIDE DEF shown
<1>5. PICK p : p = shown
  OBVIOUS
<1>6. p.text \in [Cells \cup {View} -> 0 .. changes + 1]
  BY <1>2, <1>3, <1>4, <1>5 DEF IsPage
<1>7. p.dirty \in SUBSET Cells /\ p.mode \in Modes
  BY <1>3, <1>4, <1>5 DEF IsPage, Cells
<1>8. Follows(p, changes')
  BY <1>2, <1>4, <1>5, <1>6, <1>7, ContextChangeFollows
<1> QED
  BY <1>1, <1>5, <1>8, ChangeKeepsInv

LEMMA SetModeKeepsInv ==
  ASSUME IInv, NEW mode \in Modes, SetMode(mode)
  PROVE  IInv'
<1> DEFINE moded == [page EXCEPT !.mode = mode, !.context = @ + 1, !.generation = @ + 1]
<1>1. Change(moded, mode = "automatic")
  BY DEF SetMode
<1>2. changes' = changes + 1 /\ changes \in Nat
  BY <1>1, BoundsAssumption DEF Change, IInv, Typed
<1>3. IsPage(page, changes)
  BY DEF IInv, Typed
<1>4. /\ DOMAIN moded = DOMAIN page
      /\ moded.text = page.text
      /\ moded.value = page.value
      /\ moded.dirty = page.dirty
      /\ moded.mode = mode
      /\ moded.updates = page.updates
      /\ moded.sequence = page.sequence
      /\ moded.generation = page.generation + 1
      /\ moded.context = page.context + 1
  BY <1>3 DEF IsPage
<1> HIDE DEF moded
<1>5. PICK p : p = moded
  OBVIOUS
<1>6. p.text \in [Cells \cup {View} -> 0 .. changes + 1]
  BY <1>2, <1>3, <1>4, <1>5 DEF IsPage
<1>7. p.dirty \in SUBSET Cells /\ p.mode \in Modes
  BY <1>3, <1>4, <1>5 DEF IsPage
<1>8. Follows(p, changes')
  BY <1>2, <1>4, <1>5, <1>6, <1>7, ContextChangeFollows
<1> QED
  BY <1>1, <1>5, <1>8, ChangeKeepsInv

LEMMA RecalculateKeepsInv ==
  ASSUME IInv, NEW kind, NEW roots \in SUBSET Cells, Recalculate(kind, roots),
         alone' \in BOOLEAN
  PROVE  IInv'
<1>1. /\ commands < MaxCommands
      /\ commands' = commands + 1
      /\ Submit(page, kind, roots)
      /\ UNCHANGED <<workerContext, worker, outbox, changes, faults>>
  BY DEF Recalculate
<1>2. /\ changes' \in 0 .. MaxChanges
      /\ commands' \in 0 .. MaxCommands
      /\ changes' + commands' = changes + commands + 1
  BY <1>1, BoundsAssumption DEF IInv, Typed
<1>3. PICK p : p = page
  OBVIOUS
<1>4. Follows(p, changes')
  BY <1>1, <1>3, PageFollowsItself
<1>5. Submit(p, kind, roots)
  BY <1>1, <1>3
<1> QED
  BY <1>1, <1>2, <1>4, <1>5, SubmitKeepsInv

LEMMA CommandsKeepInv ==
  ASSUME IInv,
         CalculateNow \/ CalculateFull \/ \E s : CalculateSheet(s)
  PROVE  IInv'
<1>1. alone \in BOOLEAN
  BY DEF IInv, Typed
<1>2. CASE CalculateNow
  BY <1>1, <1>2, RecalculateKeepsInv DEF CalculateNow
<1>3. CASE CalculateFull
  BY <1>1, <1>3, RecalculateKeepsInv DEF CalculateFull
<1>4. CASE \E s : CalculateSheet(s)
  <2>1. PICK s : CalculateSheet(s)
    BY <1>4
  <2>2. SheetRoots(s) \in SUBSET Cells
    BY DEF SheetRoots, IInv, Typed, IsPage, Cells
  <2>3. Recalculate("roots", SheetRoots(s)) /\ alone' \in BOOLEAN
    BY <1>1, <2>1 DEF CalculateSheet
  <2> QED
    BY <2>2, <2>3, RecalculateKeepsInv
<1> QED
  BY <1>2, <1>3, <1>4
-----------------------------------------------------------------------------
(* The worker, and its results.                                            *)

\* The texts of the worker once it has what a task brings.
LEMMA BootstrappedTexts ==
  ASSUME IInv, NEW m, IsMessage(m, page, Sent),
         m.snapshot = NoEngine => worker # NoEngine
  PROVE  LET e == Bootstrapped(worker, m)
         IN  /\ IsEngine(e)
             /\ m.snapshot # NoEngine => e.text = m.snapshot.text /\ e.mode = m.snapshot.mode
             /\ m.snapshot = NoEngine =>
                  /\ e.mode = worker.mode
                  /\ \A c \in Cells \cup {View} :
                       e.text[c] = IF c \in DOMAIN m.inputs THEN m.inputs[c] ELSE worker.text[c]
<1> DEFINE e == Bootstrapped(worker, m)
<1>1. CASE m.snapshot # NoEngine
  <2>1. e = m.snapshot
    BY <1>1 DEF Bootstrapped
  <2>2. IsEngine(m.snapshot)
    BY <1>1 DEF IsMessage
  <2> QED
    BY <1>1, <2>1, <2>2
<1>2. CASE m.snapshot = NoEngine
  <2>1. IsEngine(worker)
    BY <1>2 DEF IInv, Typed
  <2>2. e = [worker EXCEPT
               !.text  = [c \in DOMAIN @ |-> IF c \in DOMAIN m.inputs THEN m.inputs[c] ELSE @[c]],
               !.value = [f \in Formulas |-> IF f \in DOMAIN m.inputs THEN Null ELSE @[f]],
               !.dirty = @ \cup DOMAIN m.inputs]
    BY <1>2 DEF Bootstrapped
  <2>3. /\ DOMAIN e = DOMAIN worker
        /\ e.text = [c \in Cells \cup {View} |->
                       IF c \in DOMAIN m.inputs THEN m.inputs[c] ELSE worker.text[c]]
        /\ DOMAIN e.value = Formulas
        /\ e.dirty = worker.dirty \cup DOMAIN m.inputs
        /\ e.mode = worker.mode
    BY <2>1, <2>2 DEF IsEngine
  <2> HIDE DEF e
  <2>4. /\ \A c \in DOMAIN m.inputs : m.inputs[c] \in 0 .. MaxChanges
        /\ DOMAIN m.inputs \in SUBSET Cells
    BY DEF IsMessage, Unacknowledged
  <2>5. e.text \in [Cells \cup {View} -> 0 .. MaxChanges]
    BY <2>1, <2>3, <2>4 DEF IsEngine
  <2>6. IsEngine(e)
    BY <2>1, <2>3, <2>4, <2>5 DEF IsEngine
  <2> QED
    BY <1>2, <2>3, <2>6 DEF e
<1> QED
  BY <1>1, <1>2

\* Whether the task is finished or fails, the worker has its texts, and adds a
\* result with its identity.
LEMMA HandlingKeepsTexts ==
  ASSUME IInv, NEW m, IsMessage(m, page, Sent),
         m.snapshot = NoEngine => worker # NoEngine,
         Handles(m) \/ Throws(m)
  PROVE  /\ IsEngine(worker')
         /\ m.snapshot # NoEngine =>
              worker'.text = m.snapshot.text /\ worker'.mode = m.snapshot.mode
         /\ m.snapshot = NoEngine =>
              /\ worker'.mode = worker.mode
              /\ \A c \in Cells \cup {View} :
                   worker'.text[c] = IF c \in DOMAIN m.inputs THEN m.inputs[c] ELSE worker.text[c]
         /\ faults' \in 0 .. MaxFaults
         /\ \E r : /\ outbox' = Append(outbox, r)
                   /\ r.id = m.id
                   /\ IsResult(r, Sent)
<1>1. PICK e : e = Bootstrapped(worker, m)
  OBVIOUS
<1>2. /\ IsEngine(e)
      /\ m.snapshot # NoEngine => e.text = m.snapshot.text /\ e.mode = m.snapshot.mode
      /\ m.snapshot = NoEngine =>
           /\ e.mode = worker.mode
           /\ \A c \in Cells \cup {View} :
                e.text[c] = IF c \in DOMAIN m.inputs THEN m.inputs[c] ELSE worker.text[c]
  BY <1>1, BootstrappedTexts
<1>3. PICK owners : owners = Owners(e, Targets(e, m))
  OBVIOUS
<1>4. owners \in SUBSET Formulas
  BY <1>3 DEF Owners
<1>5. DOMAIN Evaluated(e, owners) = Formulas
  BY DEF Evaluated
<1>6. m.id \in 1 .. Sent
  BY DEF IsMessage
<1>7. faults \in 0 .. MaxFaults /\ MaxFaults \in Nat
  BY BoundsAssumption DEF IInv, Typed
<1>8. CASE Handles(m)
  <2> DEFINE r == Result(m, "completed", [f \in owners |-> worker'.value[f]], worker'.dirty)
  <2>1. worker' = Calculated(e, m, owners) /\ outbox' = Append(outbox, r) /\ faults' = faults
    BY <1>1, <1>3, <1>8 DEF Handles
  <2>2. Remaining(e, m) \in SUBSET Cells
    BY <1>2 DEF Remaining, IsEngine
  <2>3. /\ DOMAIN worker' = DOMAIN e
        /\ worker'.text = e.text
        /\ worker'.mode = e.mode
        /\ worker'.dirty = Remaining(e, m)
        /\ worker'.value = Evaluated(e, owners)
    BY <1>2, <2>1 DEF Calculated, IsEngine
  <2>4. IsEngine(worker')
    BY <1>2, <1>5, <2>2, <2>3 DEF IsEngine
  <2>5. r.id = m.id /\ r.dirty = worker'.dirty /\ DOMAIN r.values = owners
    BY DEF Result
  <2> HIDE DEF r
  <2>6. IsResult(r, Sent)
    BY <1>4, <1>6, <2>2, <2>3, <2>5 DEF IsResult
  <2> QED
    BY <1>2, <1>7, <2>1, <2>3, <2>4, <2>5, <2>6
<1>9. CASE Throws(m)
  <2> DEFINE r == Result(m, "failed", Null, {})
  <2>1. /\ faults < MaxFaults
        /\ faults' = faults + 1
        /\ worker' = e \/ worker' = [e EXCEPT !.value = Evaluated(e, owners)]
        /\ outbox' = Append(outbox, r)
    BY <1>1, <1>3, <1>9 DEF Throws
  <2>2. /\ DOMAIN worker' = DOMAIN e
        /\ worker'.text = e.text
        /\ worker'.mode = e.mode
        /\ worker'.dirty = e.dirty
        /\ DOMAIN worker'.value = Formulas
    BY <1>2, <1>5, <2>1 DEF IsEngine
  <2>3. IsEngine(worker')
    BY <1>2, <2>2 DEF IsEngine
  <2>4. r.id = m.id /\ r.dirty = {} /\ DOMAIN r.values = {}
    BY NothingIsSent DEF Result
  <2> HIDE DEF r
  <2>5. IsResult(r, Sent)
    BY <1>6, <2>4 DEF IsResult
  <2>6. faults' \in 0 .. MaxFaults
    BY <1>7, <2>1
  <2> QED
    BY <1>2, <2>1, <2>2, <2>3, <2>4, <2>5, <2>6
<1> QED
  BY <1>8, <1>9

LEMMA WorkerHandlesKeepsInv ==
  ASSUME IInv, WorkerHandles
  PROVE  IInv'
<1>1. PICK m : m = Head(inbox)
  OBVIOUS
<1>2. /\ inbox # <<>>
      /\ Handles(m) \/ Throws(m)
      /\ inbox' = Tail(inbox)
      /\ UNCHANGED <<page, task, workerContext, changes, commands, failed, alone>>
  BY <1>1 DEF WorkerHandles, port
<1>3. /\ IsSequence(inbox')
      /\ Len(inbox) \in Nat \ {0}
      /\ Len(inbox') = Len(inbox) - 1
      /\ \A i \in 1 .. Len(inbox') : inbox'[i] = inbox[i + 1]
      /\ m = inbox[1]
  BY <1>1, <1>2, TailDropsHead DEF IInv, Typed
<1>4. IsMessage(m, page, Sent) /\ m.id \in 1 .. Sent
  BY <1>3 DEF IInv, Typed, IsMessage
<1>5. m.snapshot = NoEngine => worker # NoEngine
  BY <1>3 DEF IInv, Started
<1>6. /\ IsEngine(worker')
      /\ m.snapshot # NoEngine =>
           worker'.text = m.snapshot.text /\ worker'.mode = m.snapshot.mode
      /\ m.snapshot = NoEngine =>
           /\ worker'.mode = worker.mode
           /\ \A c \in Cells \cup {View} :
                worker'.text[c] = IF c \in DOMAIN m.inputs THEN m.inputs[c] ELSE worker.text[c]
      /\ faults' \in 0 .. MaxFaults
  BY <1>2, <1>4, <1>5, HandlingKeepsTexts
<1>7. PICK r : outbox' = Append(outbox, r) /\ r.id = m.id /\ IsResult(r, Sent)
  BY <1>2, <1>4, <1>5, HandlingKeepsTexts
<1>8. /\ IsSequence(outbox') /\ Len(outbox) \in Nat
      /\ Len(outbox') = Len(outbox) + 1
      /\ \A i \in 1 .. Len(outbox) : outbox'[i] = outbox[i]
      /\ outbox'[Len(outbox) + 1] = r
  BY <1>7, AppendExtends DEF IInv, Typed
<1>9. Sent' = Sent
  BY <1>2 DEF Sent
<1>10. Typed'
  <2>1. \A i \in 1 .. Len(inbox') : IsMessage(inbox'[i], page', Sent')
    BY <1>2, <1>3, <1>9 DEF IInv, Typed
  <2>2. \A i \in 1 .. Len(outbox') : IsResult(outbox'[i], Sent')
    BY <1>7, <1>8, <1>9 DEF IInv, Typed
  <2>3. IsPage(page', changes')
    BY <1>2 DEF IInv, Typed
  <2>4. IsEngine(worker)'
    BY <1>6 DEF IsEngine
  <2>5. failed' \in BOOLEAN /\ alone' \in BOOLEAN
    BY <1>2 DEF IInv, Typed
  <2> QED
    BY <1>2, <1>3, <1>6, <1>8, <2>1, <2>2, <2>3, <2>4, <2>5 DEF IInv, Typed, IsSequence
<1>11. Started'
  BY <1>6, NothingIsSent DEF Started
<1>12. Ordered'
  <2>1. \A i, j \in 1 .. Len(inbox') : i < j => inbox'[i].id < inbox'[j].id
    BY <1>3 DEF IInv, Ordered
  <2>2. ASSUME NEW i \in 1 .. Len(inbox') PROVE m.id < inbox'[i].id
    BY <1>3 DEF IInv, Ordered
  <2>3. ASSUME NEW i \in 1 .. Len(outbox) PROVE outbox[i].id < m.id
    BY <1>3 DEF IInv, Ordered
  <2>4. ASSUME NEW i \in 1 .. Len(outbox'), NEW j \in 1 .. Len(outbox'), i < j
        PROVE  outbox'[i].id < outbox'[j].id
    <3>1. i \in 1 .. Len(outbox)
      BY <1>8, <2>4
    <3>2. CASE j \in 1 .. Len(outbox)
      BY <1>8, <2>4, <3>1, <3>2 DEF IInv, Ordered
    <3>3. CASE j = Len(outbox) + 1
      BY <1>7, <1>8, <2>3, <3>1, <3>3
    <3> QED
      BY <1>8, <3>2, <3>3
  <2>5. ASSUME NEW i \in 1 .. Len(inbox'), NEW j \in 1 .. Len(outbox')
        PROVE  outbox'[j].id < inbox'[i].id
    <3>1. CASE j \in 1 .. Len(outbox)
      <4>1. i + 1 \in 1 .. Len(inbox) /\ inbox'[i] = inbox[i + 1]
        BY <1>3
      <4> QED
        BY <1>8, <3>1, <4>1 DEF IInv, Ordered
    <3>2. CASE j = Len(outbox) + 1
      BY <1>7, <1>8, <2>2, <3>2
    <3> QED
      BY <1>8, <3>1, <3>2
  <2> QED
    BY <2>1, <2>4, <2>5 DEF Ordered
<1>13. Current'
  <2> SUFFICES ASSUME task # NoTask
               PROVE  /\ \A j \in 1 .. Len(outbox') : outbox'[j].id <= task.id
                      /\ IF Len(inbox') = 0
                         THEN worker'.text = page.text /\ worker'.mode = page.mode
                         ELSE /\ inbox'[Len(inbox')].id = task.id
                              /\ SaysAll(inbox'[Len(inbox')], page, workerContext)
    BY <1>2, <1>9 DEF IInv, Current
  <2>1. /\ inbox[Len(inbox)].id = task.id
        /\ SaysAll(inbox[Len(inbox)], page, workerContext)
        /\ task.id \in 1 .. Sent
        /\ \A j \in 1 .. Len(outbox) : outbox[j].id <= task.id
    BY <1>3 DEF IInv, Current
  <2>2. m.id <= task.id
    <3>1. CASE Len(inbox) = 1
      BY <1>3, <1>4, <2>1, <3>1
    <3>2. CASE Len(inbox) # 1
      <4>1. m.id < inbox[Len(inbox)].id
        BY <1>3, <3>2 DEF IInv, Ordered
      <4> QED
        BY <1>4, <2>1, <4>1
    <3> QED
      BY <3>1, <3>2
  <2>3. \A j \in 1 .. Len(outbox') : outbox'[j].id <= task.id
    BY <1>7, <1>8, <2>1, <2>2
  <2>4. CASE Len(inbox') # 0
    <3>1. inbox'[Len(inbox')] = inbox[Len(inbox)]
      BY <1>3, <2>4
    <3> QED
      BY <2>1, <2>3, <2>4, <3>1
  <2>5. CASE Len(inbox') = 0
    <3>1. SaysAll(m, page, workerContext)
      <4>1. Len(inbox) = 1
        BY <1>3, <2>5
      <4> QED
        BY <1>3, <2>1, <4>1
    <3>2. CASE m.snapshot # NoEngine
      BY <1>6, <2>3, <2>5, <3>1, <3>2 DEF SaysAll
    <3>3. CASE m.snapshot = NoEngine
      <4>1. workerContext = page.context /\ m.inputs = [c \in Unacknowledged(page) |-> page.text[c]]
        BY <3>1, <3>3 DEF SaysAll
      <4>2. /\ worker.mode = page.mode
            /\ \A c \in Cells \cup {View} :
                 c \notin Unacknowledged(page) => worker.text[c] = page.text[c]
        BY <4>1 DEF IInv, WorkerInStep
      <4>3. \A c \in Cells \cup {View} : worker'.text[c] = page.text[c]
        BY <1>6, <3>3, <4>1, <4>2
      <4>4. /\ worker'.text \in [Cells \cup {View} -> 0 .. MaxChanges]
            /\ page.text \in [Cells \cup {View} -> 0 .. changes]
        BY <1>6 DEF IsEngine, IInv, Typed, IsPage
      <4>5. worker'.text = page.text
        BY <4>3, <4>4
      <4> QED
        BY <1>6, <2>3, <2>5, <3>3, <4>2, <4>5
    <3> QED
      BY <3>2, <3>3
  <2> QED
    BY <2>4, <2>5
<1>14. WorkerInStep'
  <2> SUFFICES ASSUME workerContext = page.context
               PROVE  /\ worker'.mode = page.mode
                      /\ \A c \in Cells \cup {View} :
                           c \notin Unacknowledged(page) => worker'.text[c] = page.text[c]
                      /\ \A i \in DOMAIN inbox' :
                           /\ inbox'[i].snapshot = NoEngine
                           /\ DOMAIN inbox'[i].inputs \subseteq Unacknowledged(page)
    BY <1>2 DEF WorkerInStep, Unacknowledged
  <2>1. DOMAIN inbox = 1 .. Len(inbox) /\ DOMAIN inbox' = 1 .. Len(inbox')
    BY <1>3, SequenceLength DEF IInv, Typed
  <2>2. /\ worker.mode = page.mode
        /\ \A c \in Cells \cup {View} :
             c \notin Unacknowledged(page) => worker.text[c] = page.text[c]
        /\ \A i \in 1 .. Len(inbox) :
             /\ inbox[i].snapshot = NoEngine
             /\ DOMAIN inbox[i].inputs \subseteq Unacknowledged(page)
    BY <2>1 DEF IInv, WorkerInStep
  <2>3. m.snapshot = NoEngine /\ DOMAIN m.inputs \subseteq Unacknowledged(page)
    BY <1>3, <2>2
  <2>4. ASSUME NEW c \in Cells \cup {View}, c \notin Unacknowledged(page)
        PROVE  worker'.text[c] = page.text[c]
    <3>1. c \notin DOMAIN m.inputs
      BY <2>3, <2>4
    <3> QED
      BY <1>6, <2>2, <2>3, <2>4, <3>1
  <2>5. ASSUME NEW i \in DOMAIN inbox'
        PROVE  /\ inbox'[i].snapshot = NoEngine
               /\ DOMAIN inbox'[i].inputs \subseteq Unacknowledged(page)
    <3>1. i + 1 \in 1 .. Len(inbox) /\ inbox'[i] = inbox[i + 1]
      BY <1>3, <2>1
    <3> QED
      BY <2>2, <3>1
  <2> QED
    BY <1>6, <2>2, <2>3, <2>4, <2>5
<1> QED
  BY <1>10, <1>11, <1>12, <1>13, <1>14 DEF IInv
\* The results after the first one, and what they are results of.
LEMMA OutboxTail ==
  ASSUME IInv, outbox # <<>>, outbox' = Tail(outbox), UNCHANGED <<inbox, changes, commands>>
  PROVE  /\ IsSequence(outbox')
         /\ \A i \in 1 .. Len(outbox') : IsResult(outbox'[i], Sent')
         /\ \A i \in 1 .. Len(outbox') :
              /\ i + 1 \in 1 .. Len(outbox)
              /\ outbox'[i] = outbox[i + 1]
         /\ Ordered'
<1>1. /\ IsSequence(outbox')
      /\ Len(outbox) \in Nat \ {0}
      /\ Len(outbox') = Len(outbox) - 1
      /\ \A i \in 1 .. Len(outbox') : outbox'[i] = outbox[i + 1]
  BY TailDropsHead DEF IInv, Typed
<1>2. Sent' = Sent
  BY DEF Sent
<1>3. \A i \in 1 .. Len(outbox') : i + 1 \in 1 .. Len(outbox) /\ outbox'[i] = outbox[i + 1]
  BY <1>1
<1>4. \A i \in 1 .. Len(outbox') : IsResult(outbox'[i], Sent')
  BY <1>2, <1>3 DEF IInv, Typed
<1>5. \A i, j \in 1 .. Len(outbox') : i < j => outbox'[i].id < outbox'[j].id
  BY <1>1 DEF IInv, Ordered
<1>6. \A i \in 1 .. Len(inbox), j \in 1 .. Len(outbox') : outbox'[j].id < inbox[i].id
  BY <1>3 DEF IInv, Ordered
<1>7. \A i, j \in 1 .. Len(inbox) : i < j => inbox[i].id < inbox[j].id
  BY DEF IInv, Ordered
<1> QED
  BY <1>1, <1>3, <1>4, <1>5, <1>6, <1>7 DEF Ordered

\* The page takes the result that answers its task.
Accepts(r) ==
  /\ outbox # <<>> /\ outbox' = Tail(outbox)
  /\ r = Head(outbox) /\ r.id = task.id /\ r.status = "completed"
  /\ task' = NoTask
  /\ page' = [page EXCEPT
                !.value = [f \in Formulas |-> IF f \in DOMAIN r.values
                                              THEN r.values[f] ELSE @[f]],
                !.dirty = r.dirty,
                !.updates = Acknowledged(page, task.revision)]
  /\ workerContext' = task.context
  /\ alone' = (alone /\ task.kind # "full")
  /\ UNCHANGED <<worker, inbox, bounds, failed>>

\* The page passes over a result.
PassesOver ==
  /\ outbox # <<>> /\ outbox' = Tail(outbox)
  /\ task' = NoTask \/ task' = task
  /\ UNCHANGED <<worker, inbox, bounds, page, workerContext, alone>>
  /\ failed' \in {failed, TRUE, FALSE}

LEMMA ReceiveCases ==
  ASSUME Receive
  PROVE  (\E r : Accepts(r)) \/ PassesOver
<1>1. PICK r : r = Head(outbox)
  OBVIOUS
<1>2. /\ outbox # <<>>
      /\ outbox' = Tail(outbox)
      /\ UNCHANGED <<worker, inbox, bounds>>
      /\ IF r.id # task.id THEN UNCHANGED <<page, port, failed, alone>>
         ELSE /\ task' = NoTask
              /\ IF r.status = "completed" /\ task.generation = page.generation
                 THEN /\ page' = [page EXCEPT
                           !.value = [f \in Formulas |-> IF f \in DOMAIN r.values
                                                         THEN r.values[f] ELSE @[f]],
                           !.dirty = r.dirty,
                           !.updates = Acknowledged(page, task.revision)]
                      /\ workerContext' = task.context
                      /\ alone' = (alone /\ task.kind # "full")
                      /\ UNCHANGED failed
                 ELSE failed' = (r.status = "failed") /\ UNCHANGED <<page, workerContext, alone>>
  BY <1>1 DEF Receive
<1>3. CASE r.id # task.id
  BY <1>2, <1>3 DEF port, PassesOver
<1>4. CASE r.id = task.id /\ r.status = "completed" /\ task.generation = page.generation
  <2>1. Accepts(r)
    BY ONLY <1>1, <1>2, <1>4 DEF Accepts
  <2> QED
    BY ONLY <2>1
<1>5. CASE r.id = task.id /\ ~ (r.status = "completed" /\ task.generation = page.generation)
  <2>1. failed' \in {TRUE, FALSE}
    BY <1>2, <1>5
  <2> QED
    BY <1>2, <1>5, <2>1 DEF PassesOver
<1> QED
  BY <1>3, <1>4, <1>5

\* When the page accepts a result, nothing is under way: the worker has all its
\* texts, and counts as having them.
LEMMA AcceptKeepsInv ==
  ASSUME IInv, NEW r, Accepts(r)
  PROVE  IInv'
<1> USE DEF Accepts
<1>1. UNCHANGED <<changes, commands, faults>>
  BY DEF bounds
<1>2. Len(outbox) \in Nat \ {0} /\ r = outbox[1] /\ r.id = task.id
  BY TailDropsHead DEF IInv, Typed
<1>3. IsResult(r, Sent)
  BY ONLY IInv, <1>2 DEF IInv, Typed
<1>4. task # NoTask
  <2>1. r.id # 0
    BY <1>3 DEF IsResult
  <2> QED
    BY <2>1, NothingIsSent
<1>5. /\ task.context = page.context
      /\ task.revision = page.sequence
      /\ Len(inbox) = 0 =>
           worker.text = page.text /\ worker.mode = page.mode
      /\ Len(inbox) # 0 => inbox[Len(inbox)].id = task.id
  BY <1>4 DEF IInv, Current
<1>6. Len(inbox) = 0
  <2>1. Len(inbox) \in Nat
    BY SequenceLength DEF IInv, Typed
  <2>2. ASSUME Len(inbox) # 0 PROVE FALSE
    <3>1. Len(inbox) \in 1 .. Len(inbox)
      BY <2>1, <2>2
    <3>2. r.id < inbox[Len(inbox)].id /\ r.id = inbox[Len(inbox)].id
      BY ONLY IInv, <1>2, <1>5, <2>2, <3>1 DEF IInv, Ordered
    <3>3. r.id \in Int
      BY <1>3 DEF IsResult
    <3> QED
      BY <3>2, <3>3
  <2> QED
    BY <2>2
<1>7. /\ IsPage(page, changes)
      /\ worker.text = page.text
      /\ worker.mode = page.mode
      /\ worker # NoEngine
  <2>1. IsPage(page, changes)
    BY DEF IInv, Typed
  <2>2. worker.mode # "none"
    BY <1>5, <1>6, <2>1 DEF IsPage, Modes
  <2> QED
    BY <1>5, <1>6, <2>1, <2>2, NothingIsSent
<1>8. /\ DOMAIN page' = DOMAIN page
      /\ page'.text = page.text
      /\ DOMAIN page'.value = Formulas
      /\ page'.dirty = r.dirty
      /\ page'.mode = page.mode
      /\ page'.updates = Acknowledged(page, task.revision)
      /\ page'.sequence = page.sequence
      /\ page'.generation = page.generation
      /\ page'.context = page.context
  BY <1>7 DEF IsPage
<1>9. page'.updates \in [Cells -> 0 .. page.sequence]
  BY <1>7, <1>8, BoundsAssumption DEF Acknowledged, IsPage
<1>10. IsPage(page', changes')
  BY <1>1, <1>3, <1>7, <1>8, <1>9 DEF IsPage, IsResult
<1>11. page.context \in 1 .. changes + 1 /\ changes \in Nat
  BY <1>7, BoundsAssumption DEF IsPage, IInv, Typed
<1>12. workerContext' \in 0 .. page'.context
  BY <1>5, <1>8, <1>11
<1>13. /\ IsSequence(outbox')
       /\ \A i \in 1 .. Len(outbox') : IsResult(outbox'[i], Sent')
       /\ Ordered'
  BY <1>1, OutboxTail
<1>14. Typed'
  <2>1. alone' \in BOOLEAN
    OBVIOUS
  <2>2. failed' \in BOOLEAN /\ faults' \in 0 .. MaxFaults
    BY <1>1 DEF IInv, Typed
  <2>3. changes' \in 0 .. MaxChanges /\ commands' \in 0 .. MaxCommands
    BY <1>1 DEF IInv, Typed
  <2>4. IsEngine(worker')
    BY <1>7 DEF IInv, Typed, IsEngine
  <2>5. \A i \in 1 .. Len(inbox') : IsMessage(inbox'[i], page', Sent')
    BY <1>6
  <2>6. IsSequence(inbox')
    BY DEF IInv, Typed, IsSequence
  <2> QED
    BY <1>10, <1>12, <1>13, <2>1, <2>2, <2>3, <2>4, <2>5, <2>6 DEF Typed, IsSequence
<1>15. Started' /\ Current'
  BY <1>7 DEF Started, Current
<1>16. WorkerInStep'
  <2>1. DOMAIN inbox' = {}
    <3>1. DOMAIN inbox = 1 .. Len(inbox)
      BY SequenceLength DEF IInv, Typed
    <3> QED
      BY <1>6, <3>1
  <2> QED
    BY <1>7, <1>8, <2>1 DEF WorkerInStep
<1> QED
  BY <1>13, <1>14, <1>15, <1>16 DEF IInv

\* A result the page passes over, a task that failed.
LEMMA DropKeepsInv ==
  ASSUME IInv, outbox # <<>>, outbox' = Tail(outbox),
         UNCHANGED <<worker, inbox, changes, commands, page, workerContext, alone>>,
         task' = NoTask \/ task' = task,
         failed' \in BOOLEAN, faults' \in 0 .. MaxFaults
  PROVE  IInv'
<1>1. /\ IsSequence(outbox')
      /\ \A i \in 1 .. Len(outbox') : IsResult(outbox'[i], Sent')
      /\ \A i \in 1 .. Len(outbox') :
           i + 1 \in 1 .. Len(outbox) /\ outbox'[i] = outbox[i + 1]
      /\ Ordered'
  BY OutboxTail
<1>2. Sent' = Sent
  BY DEF Sent
<1>3. Typed'
  <2>1. /\ changes' \in 0 .. MaxChanges /\ commands' \in 0 .. MaxCommands
        /\ alone' \in BOOLEAN
        /\ IsPage(page', changes')
        /\ workerContext' \in 0 .. page'.context
        /\ \A i \in 1 .. Len(inbox') : IsMessage(inbox'[i], page', Sent')
    BY <1>2 DEF IInv, Typed
  <2>2. (worker = NoEngine \/ IsEngine(worker))' /\ IsSequence(inbox')
    BY DEF IInv, Typed, IsEngine, IsSequence
  <2> QED
    BY <1>1, <2>1, <2>2 DEF Typed, IsSequence
<1>4. Started' /\ WorkerInStep'
  BY DEF IInv, Started, WorkerInStep, Unacknowledged
<1>5. Current'
  <2>1. CASE task' = NoTask
    BY <2>1 DEF Current
  <2>2. CASE task' = task
    BY <1>1, <1>2, <2>2 DEF IInv, Current, SaysAll, Unacknowledged
  <2> QED
    BY <2>1, <2>2
<1> QED
  BY <1>1, <1>3, <1>4, <1>5 DEF IInv

LEMMA ReceiveKeepsInv ==
  ASSUME IInv, Receive
  PROVE  IInv'
<1>1. ASSUME NEW r, Accepts(r) PROVE IInv'
  BY ONLY IInv, <1>1, AcceptKeepsInv
<1>2. CASE PassesOver
  <2>1. UNCHANGED <<changes, commands>> /\ failed \in BOOLEAN /\ faults' \in 0 .. MaxFaults
    BY <1>2 DEF PassesOver, bounds, IInv, Typed
  <2>2. failed' \in BOOLEAN
    BY <1>2, <2>1 DEF PassesOver
  <2> QED
    BY <1>2, <2>1, <2>2, DropKeepsInv DEF PassesOver
<1> QED
  BY <1>1, <1>2, ReceiveCases

\* A task that is lost: the page waits for none any more.
LEMMA WorkerErrorKeepsInv ==
  ASSUME IInv, WorkerError
  PROVE  IInv'
<1>1. /\ faults < MaxFaults
      /\ faults' = faults + 1
      /\ task' = NoTask
      /\ failed' = (failed \/ task # NoTask)
      /\ UNCHANGED <<page, workerContext, worker, changes, commands, alone>>
      /\ \/ inbox # <<>> /\ inbox' = Tail(inbox) /\ UNCHANGED outbox
         \/ outbox # <<>> /\ outbox' = Tail(outbox) /\ UNCHANGED inbox
  BY DEF WorkerError
<1>2. faults' \in 0 .. MaxFaults /\ failed' \in BOOLEAN
  <2>1. faults \in 0 .. MaxFaults
    BY DEF IInv, Typed
  <2>2. faults' \in 0 .. MaxFaults
    BY <1>1, <2>1, BoundsAssumption
  <2>3. failed' \in BOOLEAN
    BY <1>1
  <2> QED
    BY <2>2, <2>3
<1>3. CASE outbox # <<>> /\ outbox' = Tail(outbox) /\ UNCHANGED inbox
  BY <1>1, <1>2, <1>3, DropKeepsInv
<1>4. CASE inbox # <<>> /\ inbox' = Tail(inbox) /\ UNCHANGED outbox
  <2>1. /\ IsSequence(inbox')
        /\ Len(inbox) \in Nat \ {0}
        /\ Len(inbox') = Len(inbox) - 1
        /\ \A i \in 1 .. Len(inbox') : inbox'[i] = inbox[i + 1]
    BY <1>4, TailDropsHead DEF IInv, Typed
  <2>2. /\ \A i \in 1 .. Len(inbox') : i + 1 \in 1 .. Len(inbox) /\ inbox'[i] = inbox[i + 1]
        /\ DOMAIN inbox = 1 .. Len(inbox) /\ DOMAIN inbox' = 1 .. Len(inbox')
    BY <2>1, SequenceLength DEF IInv, Typed
  <2>3. Sent' = Sent
    BY <1>1 DEF Sent
  <2>4. Typed'
    <3>1. \A i \in 1 .. Len(inbox') : IsMessage(inbox'[i], page', Sent')
      BY <1>1, <2>2, <2>3 DEF IInv, Typed
    <3>2. /\ changes' \in 0 .. MaxChanges /\ commands' \in 0 .. MaxCommands
          /\ alone' \in BOOLEAN
          /\ IsPage(page', changes')
          /\ workerContext' \in 0 .. page'.context
          /\ \A i \in 1 .. Len(outbox') : IsResult(outbox'[i], Sent')
      BY <1>1, <1>4, <2>3 DEF IInv, Typed
    <3>3. (worker = NoEngine \/ IsEngine(worker))' /\ IsSequence(outbox')
      BY <1>1, <1>4 DEF IInv, Typed, IsEngine, IsSequence
    <3> QED
      BY <1>2, <2>1, <3>1, <3>2, <3>3 DEF Typed, IsSequence
  <2>5. Started'
    BY <1>1, <2>2 DEF IInv, Started
  <2>6. Ordered'
    <3>1. \A i, j \in 1 .. Len(inbox') : i < j => inbox'[i].id < inbox'[j].id
      BY <2>1 DEF IInv, Ordered
    <3> QED
      BY <1>4, <2>2, <3>1 DEF IInv, Ordered
  <2>7. Current'
    BY <1>1 DEF Current
  <2>8. WorkerInStep'
    <3> SUFFICES ASSUME workerContext = page.context
                 PROVE  /\ worker.mode = page.mode
                        /\ \A c \in Cells \cup {View} :
                             c \notin Unacknowledged(page) => worker.text[c] = page.text[c]
                        /\ \A i \in DOMAIN inbox' :
                             /\ inbox'[i].snapshot = NoEngine
                             /\ DOMAIN inbox'[i].inputs \subseteq Unacknowledged(page)
      BY <1>1 DEF WorkerInStep, Unacknowledged
    <3>1. /\ worker.mode = page.mode
          /\ \A c \in Cells \cup {View} :
               c \notin Unacknowledged(page) => worker.text[c] = page.text[c]
          /\ \A i \in DOMAIN inbox :
               /\ inbox[i].snapshot = NoEngine
               /\ DOMAIN inbox[i].inputs \subseteq Unacknowledged(page)
      BY DEF IInv, WorkerInStep
    <3>2. ASSUME NEW i \in DOMAIN inbox'
          PROVE  /\ inbox'[i].snapshot = NoEngine
                 /\ DOMAIN inbox'[i].inputs \subseteq Unacknowledged(page)
      BY <2>2, <3>1
    <3> QED
      BY <3>1, <3>2
  <2> QED
    BY <2>4, <2>5, <2>6, <2>7, <2>8 DEF IInv
<1> QED
  BY <1>1, <1>3, <1>4
-----------------------------------------------------------------------------
(* The invariant.                                                          *)

LEMMA InitHasInv ==
  ASSUME Init
  PROVE  IInv
<1>1. PICK mode \in Modes :
        LET loaded == [text       |-> [c \in Cells \cup {View} |-> 0],
                       value      |-> [f \in Formulas |-> Null],
                       dirty      |-> Cells,
                       mode       |-> mode,
                       updates    |-> [c \in Cells |-> 1],
                       sequence   |-> 1,
                       generation |-> 1,
                       context    |-> 1]
        IN  /\ page = loaded
            /\ \/ /\ task = [id |-> 1, kind |-> "smart", generation |-> 1, context |-> 1,
                             revision |-> 1]
                  /\ inbox = <<[id |-> 1, kind |-> "smart", roots |-> {},
                                snapshot |-> Snapshot(loaded), inputs |-> [c \in Cells |-> 0]]>>
               \/ task = NoTask /\ inbox = <<>>
  BY DEF Init, Modes
<1>2. /\ workerContext = 0 /\ worker = NoEngine /\ outbox = <<>>
      /\ changes = 0 /\ commands = 0 /\ faults = 0
      /\ failed = FALSE /\ alone = FALSE
  BY DEF Init
<1>3. IsPage(page, 0)
  BY <1>1 DEF IsPage
<1>4. /\ page.text = [c \in Cells \cup {View} |-> 0]
      /\ page.mode = mode /\ page.dirty = Cells
      /\ page.sequence = 1 /\ page.generation = 1 /\ page.context = 1
      /\ page.updates = [c \in Cells |-> 1]
  BY <1>1
<1>5. Sent = 1
  BY <1>2 DEF Sent
<1>6. Unacknowledged(page) = Cells
  BY <1>4 DEF Unacknowledged
<1>7. IsSequence(outbox) /\ Len(outbox) = 0
  <2>1. outbox \in Seq({})
    BY <1>2
  <2> QED
    BY <1>2, <2>1 DEF IsSequence
<1>8. WorkerInStep
  BY <1>2, <1>4 DEF WorkerInStep
<1>9. /\ changes \in 0 .. MaxChanges
       /\ commands \in 0 .. MaxCommands
       /\ faults \in 0 .. MaxFaults
       /\ failed \in BOOLEAN
       /\ alone \in BOOLEAN
       /\ IsPage(page, changes)
       /\ workerContext \in 0 .. page.context
       /\ worker = NoEngine
       /\ IsSequence(outbox)
       /\ \A i \in 1 .. Len(outbox) : IsResult(outbox[i], Sent)
  <2>1. changes \in 0 .. MaxChanges /\ commands \in 0 .. MaxCommands /\ faults \in 0 .. MaxFaults
    BY <1>2, BoundsAssumption
  <2>2. failed \in BOOLEAN /\ alone \in BOOLEAN
    BY <1>2
  <2>3. IsPage(page, changes) /\ workerContext \in 0 .. page.context
    BY <1>2, <1>3, <1>4
  <2> QED
    BY <1>2, <1>7, <2>1, <2>2, <2>3
<1>10. CASE task = NoTask /\ inbox = <<>>
  <2>1. IsSequence(inbox) /\ Len(inbox) = 0
    <3>1. inbox \in Seq({})
      BY <1>10
    <3> QED
      BY <1>10, <3>1 DEF IsSequence
  <2>2. Typed
    BY <1>9, <2>1 DEF Typed
  <2>3. Started /\ Ordered /\ Current
    BY <1>2, <1>7, <1>10, <2>1 DEF Started, Ordered, Current
  <2> QED
    BY <1>8, <2>2, <2>3 DEF IInv
<1>11. ASSUME NEW m,
              m = [id |-> 1, kind |-> "smart", roots |-> {},
                   snapshot |-> Snapshot(page), inputs |-> [c \in Cells |-> 0]],
              task = [id |-> 1, kind |-> "smart", generation |-> 1, context |-> 1,
                      revision |-> 1],
              inbox = <<m>>
       PROVE  IInv
  <2>1. IsSequence(inbox) /\ Len(inbox) = 1 /\ inbox[1] = m
    <3>1. inbox \in Seq({m})
      BY <1>11
    <3> QED
      BY <1>11, <3>1 DEF IsSequence
  <2>2. /\ m.id = 1 /\ m.roots = {}
        /\ m.snapshot = Snapshot(page)
        /\ m.inputs = [c \in Cells |-> 0]
    BY <1>11
  <2>3. IsEngine(m.snapshot) /\ m.snapshot.text = page.text /\ m.snapshot.mode = page.mode
    <3>1. /\ DOMAIN Snapshot(page) = {"text", "value", "dirty", "mode"}
          /\ Snapshot(page).text = page.text
          /\ Snapshot(page).mode = page.mode
          /\ Snapshot(page).dirty = page.dirty
          /\ Snapshot(page).value = [f \in Formulas |-> Null]
      BY DEF Snapshot
    <3>2. page.text \in [Cells \cup {View} -> 0 .. MaxChanges]
      BY <1>4, BoundsAssumption
    <3> QED
      BY <1>3, <2>2, <3>1, <3>2 DEF IsEngine, IsPage
  <2>4. m.snapshot # NoEngine
    BY <2>3, NothingIsSent
  <2>5. DOMAIN m.inputs = Cells /\ \A c \in Cells : m.inputs[c] \in 0 .. MaxChanges
    BY <2>2, BoundsAssumption
  <2>6. IsMessage(m, page, Sent)
    BY <1>5, <1>6, <2>2, <2>3, <2>5 DEF IsMessage
  <2>7. Typed
    <3>1. \A i \in 1 .. Len(inbox) : IsMessage(inbox[i], page, Sent)
      BY <2>1, <2>6
    <3> QED
      BY <1>9, <2>1, <3>1 DEF Typed
  <2>8. Started
    BY <1>2, <2>1, <2>4 DEF Started
  <2>9. Ordered
    BY <1>7, <2>1 DEF Ordered
  <2>10. SaysAll(m, page, workerContext)
    BY <2>3, <2>4 DEF SaysAll
  <2>11. Current
    BY <1>4, <1>5, <1>7, <1>11, <2>1, <2>2, <2>10 DEF Current
  <2> QED
    BY <1>8, <2>7, <2>8, <2>9, <2>11 DEF IInv
<1> QED
  BY <1>1, <1>10, <1>11

LEMMA NextKeepsInv ==
  ASSUME IInv, [Next]_vars
  PROVE  IInv'
<1>1. CASE \E c \in Cells : Edit(c)
  BY <1>1, EditKeepsInv
<1>2. CASE ChangeVisibility
  BY <1>2, ChangeVisibilityKeepsInv
<1>3. CASE \E mode \in {"automatic", "manual"} : SetMode(mode)
  BY <1>3, SetModeKeepsInv DEF Modes
<1>4. CASE CalculateNow \/ CalculateFull \/ \E s \in {SheetOf[c] : c \in Cells} : CalculateSheet(s)
  BY <1>4, CommandsKeepInv
<1>5. CASE WorkerHandles
  BY <1>5, WorkerHandlesKeepsInv
<1>6. CASE Receive
  BY <1>6, ReceiveKeepsInv
<1>7. CASE WorkerError
  BY <1>7, WorkerErrorKeepsInv
<1>8. CASE UNCHANGED vars
  <2>1. UNCHANGED <<page, task, workerContext, worker, inbox, outbox, changes, commands,
                    faults, failed, alone>>
    BY <1>8 DEF vars, port, bounds
  <2>2. Sent' = Sent
    BY <2>1 DEF Sent
  <2>3. Typed'
    BY <2>1, <2>2 DEF IInv, Typed
  <2>4. Started' /\ Ordered'
    BY <2>1 DEF IInv, Started, Ordered
  <2>5. Current'
    BY <2>1, <2>2 DEF IInv, Current
  <2>6. WorkerInStep'
    BY <2>1 DEF IInv, WorkerInStep
  <2> QED
    BY <2>3, <2>4, <2>5, <2>6 DEF IInv
<1> QED
  BY <1>1, <1>2, <1>3, <1>4, <1>5, <1>6, <1>7, <1>8 DEF Next

\* The strengthened invariant holds in every state: results come in the order
\* of the tasks, and the last task, until it is handled, says all that the
\* worker may lack.
THEOREM InvariantHolds == Spec => []IInv
<1>1. Init => IInv
  BY InitHasInv
<1>2. IInv /\ [Next]_vars => IInv'
  BY NextKeepsInv
<1> QED
  BY <1>1, <1>2, PTL DEF Spec

\* The page, the worker, the tasks and the results keep their types: a task
\* names only cells, and a result only formulas.
THEOREM TypesHold == Spec => []TypeOK
<1>1. IInv => TypeOK
  BY TypedIsTypeOK
<1> QED
  BY <1>1, InvariantHolds, PTL

\* Whatever tasks were cancelled, failed or lost: when the page would send the
\* worker no snapshot, the worker has every text the page does not still hold
\* for it, and nothing on its way brings back an older one.
THEOREM InputsReachTheWorker == Spec => []WorkerInStep
<1>1. IInv => WorkerInStep
  BY DEF IInv
<1> QED
  BY <1>1, InvariantHolds, PTL

-----------------------------------------------------------------------------
(* What the recursive definitions of the calculation compute.  No formula  *)
(* depends on itself, so that there is a function that satisfies each of   *)
(* them;  what is said of one formula is shown for all by looking at a     *)
(* formula of which it is false and that reads no other such formula.      *)

LEMMA SourcesSatisfyTheirEquation ==
  Sources = [f \in Formulas |-> Reads[f] \cup UNION {Sources[g] : g \in Reads[f] \cap Formulas}]
<1> DEFINE Closed == {t \in [Formulas -> SUBSET (Cells \cup {View})] :
                        \A f \in Formulas :
                          /\ Reads[f] \subseteq t[f]
                          /\ \A g \in Reads[f] \cap Formulas : t[g] \subseteq t[f]}
           least == [f \in Formulas |-> {c \in Cells \cup {View} : \A t \in Closed : c \in t[f]}]
           next == [f \in Formulas |-> Reads[f] \cup UNION {least[g] : g \in Reads[f] \cap Formulas}]
<1>1. \A f \in Formulas : Reads[f] \subseteq Cells \cup {View}
  BY GraphAssumption
<1>2. ASSUME NEW t \in Closed, NEW f \in Formulas
      PROVE  least[f] \subseteq t[f]
  OBVIOUS
<1>3. \A f \in Formulas : next[f] \subseteq least[f]
  <2> SUFFICES ASSUME NEW f \in Formulas, NEW c \in next[f] PROVE c \in least[f]
    OBVIOUS
  <2>1. CASE c \in Reads[f]
    BY <1>1, <2>1
  <2>2. CASE \E g \in Reads[f] \cap Formulas : c \in least[g]
    <3>1. PICK g \in Reads[f] \cap Formulas : c \in least[g]
      BY <2>2
    <3>2. c \in Cells \cup {View}
      BY <3>1
    <3>3. \A t \in Closed : c \in t[f]
      BY <3>1
    <3> QED
      BY <3>2, <3>3
  <2> QED
    BY <2>1, <2>2
<1>4. next \in Closed
  <2>1. \A f \in Formulas : least[f] \subseteq Cells \cup {View}
    OBVIOUS
  <2>2. \A f \in Formulas : next[f] \in SUBSET (Cells \cup {View})
    BY <1>1, <2>1
  <2>3. \A f \in Formulas : Reads[f] \subseteq next[f]
    OBVIOUS
  <2>4. \A f \in Formulas : \A g \in Reads[f] \cap Formulas : least[g] \subseteq next[f]
    OBVIOUS
  <2>5. \A f \in Formulas : \A g \in Reads[f] \cap Formulas : next[g] \subseteq next[f]
    BY <1>3, <2>4
  <2> HIDE DEF least
  <2> QED
    BY <2>2, <2>3, <2>5
<1>5. \A f \in Formulas : least[f] \subseteq next[f]
  BY <1>2, <1>4
<1>6. least = next
  <2>1. \A f \in Formulas : least[f] = next[f]
    BY <1>3, <1>5
  <2> QED
    BY <2>1, Zenon
<1>7. PICK s : s = [f \in Formulas |-> Reads[f] \cup UNION {s[g] : g \in Reads[f] \cap Formulas}]
  BY <1>6
<1> DEFINE P(source) ==
             source = [f \in Formulas |-> Reads[f] \cup UNION {source[g] : g \in Reads[f] \cap Formulas}]
           t == CHOOSE source : P(source)
<1>8. P(s)
  BY <1>7
<1> HIDE DEF P
<1>9. P(t)
  BY <1>8
<1>10. Sources = [f \in Formulas |-> t[f]]
  BY DEF Sources, P
<1> HIDE DEF t
<1> QED
  BY <1>9, <1>10 DEF P

\* A formula depends on what it reads, and on what that depends on.
LEMMA SourcesAre ==
  ASSUME NEW f \in Formulas
  PROVE  /\ Reads[f] \subseteq Sources[f]
         /\ \A g \in Reads[f] \cap Formulas : Sources[g] \subseteq Sources[f]
         /\ \A c \in Sources[f] :
              c \in Reads[f] \/ \E g \in Reads[f] \cap Formulas : c \in Sources[g]
<1>1. Sources[f] = Reads[f] \cup UNION {Sources[g] : g \in Reads[f] \cap Formulas}
  BY SourcesSatisfyTheirEquation
<1> QED
  BY <1>1

LEMMA SourcesOfSources ==
  ASSUME NEW f \in Formulas, NEW g \in Sources[f] \cap Formulas
  PROVE  Sources[g] \subseteq Sources[f]
<1> DEFINE Holds(h) == \A k \in Sources[h] \cap Formulas : Sources[k] \subseteq Sources[h]
           S == {h \in Formulas : ~ Holds(h)}
<1>1. ASSUME S # {} PROVE FALSE
  <2>1. PICK h \in S : Reads[h] \cap S = {}
    BY <1>1, AcyclicAssumption
  <2>2. h \in Formulas /\ ~ Holds(h) /\ \A k \in Reads[h] \cap Formulas : Holds(k)
    BY <2>1
  <2>3. PICK k \in Sources[h] \cap Formulas : ~ (Sources[k] \subseteq Sources[h])
    BY <2>2
  <2>4. k \notin Reads[h]
    BY <2>2, <2>3, SourcesAre
  <2>5. PICK d \in Reads[h] \cap Formulas : k \in Sources[d]
    BY <2>2, <2>3, <2>4, SourcesAre
  <2>6. Sources[k] \subseteq Sources[d] /\ Sources[d] \subseteq Sources[h]
    BY <2>2, <2>3, <2>5, SourcesAre
  <2> QED
    BY <2>3, <2>6
<1> QED
  BY <1>1

\* Whatever changes what a formula reads changes the formula.
LEMMA AffectedThroughReads ==
  ASSUME NEW roots, NEW f \in Formulas, f \notin Affected(roots)
  PROVE  /\ f \notin roots
         /\ \A c \in Sources[f] : c \notin roots
         /\ \A g \in Reads[f] \cap Formulas : g \notin Affected(roots)
<1>1. ({f} \cup Sources[f]) \cap roots = {}
  BY DEF Affected
<1>2. \A g \in Reads[f] \cap Formulas : ({g} \cup Sources[g]) \subseteq Sources[f]
  BY SourcesAre
<1> QED
  BY <1>1, <1>2 DEF Affected

LEMMA AffectedGrows ==
  ASSUME NEW roots, NEW more, roots \subseteq more
  PROVE  Affected(roots) \subseteq Affected(more)
BY DEF Affected

\* What is calculated for some formulas: they themselves, and what is dirty or
\* was never evaluated among what these read.
LEMMA OwnersAre ==
  ASSUME NEW e, NEW affected
  PROVE  \A f \in Formulas :
           f \in Owners(e, affected) <=>
             \/ f \in affected
             \/ /\ e.value[f] = Null \/ f \in Affected(e.dirty)
                /\ \E g \in Formulas : f \in Reads[g] /\ g \in Owners(e, affected)
<1> DEFINE Added(O, f) == /\ e.value[f] = Null \/ f \in Affected(e.dirty)
                          /\ \E g \in Formulas : f \in Reads[g] /\ g \in O
           Closed == {O \in SUBSET Formulas :
                        \A f \in Formulas : f \in affected \/ Added(O, f) => f \in O}
           least == {f \in Formulas : \A O \in Closed : f \in O}
           next == {f \in Formulas : f \in affected \/ Added(least, f)}
<1>1. \A O \in Closed : least \subseteq O
  OBVIOUS
<1>2. \A O \in Closed : \A f \in Formulas : Added(least, f) => Added(O, f)
  BY <1>1
<1>3. next \subseteq least
  <2> HIDE DEF Added
  <2> SUFFICES ASSUME NEW f \in next, NEW O \in Closed PROVE f \in O
    OBVIOUS
  <2>1. f \in affected \/ Added(O, f)
    BY <1>2
  <2> QED
    BY <2>1
<1>4. next \in Closed
  <2>1. \A f \in Formulas : Added(next, f) => Added(least, f)
    BY <1>3
  <2> HIDE DEF Added
  <2> QED
    BY <2>1
<1>5. \A f \in Formulas : f \in least <=> f \in affected \/ Added(least, f)
  <2> HIDE DEF Added
  <2> QED
    BY <1>1, <1>3, <1>4
<1> HIDE DEF least
<1> DEFINE P(owner) ==
             owner = [f \in Formulas |->
                        \/ f \in affected
                        \/ /\ e.value[f] = Null \/ f \in Affected(e.dirty)
                           /\ \E g \in Formulas : f \in Reads[g] /\ owner[g]]
           t == CHOOSE owner : P(owner)
<1>6. P([f \in Formulas |-> f \in least])
  <2>1. PICK s : s = [f \in Formulas |-> f \in least]
    OBVIOUS
  <2>2. \A f \in Formulas : s[f] <=> f \in least
    BY <2>1
  <2> DEFINE C(f) == \/ f \in affected
                     \/ /\ e.value[f] = Null \/ f \in Affected(e.dirty)
                        /\ \E g \in Formulas : f \in Reads[g] /\ s[g]
  <2>3. \A f \in Formulas : C(f) \in BOOLEAN /\ (f \in least <=> C(f))
    BY <1>5, <2>2
  <2> HIDE DEF C
  <2>4. \A f \in Formulas : s[f] = C(f)
    <3>1. \A f \in Formulas : s[f] = (f \in least)
      BY <2>1
    <3> QED
      BY <2>3, <3>1
  <2>5. s = [f \in Formulas |-> C(f)]
    BY <2>1, <2>4
  <2>6. P(s)
    BY <2>5 DEF C
  <2> QED
    BY <2>1, <2>6
<1> HIDE DEF P
<1>7. P(t)
  BY <1>6
<1>8. Owners(e, affected) = {f \in Formulas : t[f]}
  BY DEF Owners, P
<1> HIDE DEF t
<1>9. \A f \in Formulas : t[f] <=>
        \/ f \in affected
        \/ /\ e.value[f] = Null \/ f \in Affected(e.dirty)
           /\ \E g \in Formulas : f \in Reads[g] /\ t[g]
  BY <1>7 DEF P
<1>10. \A f \in Formulas : f \in Owners(e, affected) <=> t[f]
  BY <1>8
<1> QED
  BY <1>9, <1>10

\* One value, from the values of other formulas.
ValueFrom(e, owners, v, f) ==
  IF f \in owners
  THEN <<e.text[f], [c \in Reads[f] |-> IF c \in Formulas THEN v[c] ELSE e.text[c]]>>
  ELSE e.value[f]

\* The values of some formulas, among them all that they read.
Attempt(e, owners, D, v) ==
  /\ D \subseteq Formulas
  /\ \A f \in D : Reads[f] \cap Formulas \subseteq D
  /\ v = [f \in D |-> ValueFrom(e, owners, v, f)]

\* The value depends on the values that are read.
LEMMA ValueFromReads ==
  ASSUME NEW e, NEW owners, NEW v, NEW w, NEW f \in Formulas,
         \A g \in Reads[f] \cap Formulas : v[g] = w[g]
  PROVE  ValueFrom(e, owners, v, f) = ValueFrom(e, owners, w, f)
<1>1. [c \in Reads[f] |-> IF c \in Formulas THEN v[c] ELSE e.text[c]]
        = [c \in Reads[f] |-> IF c \in Formulas THEN w[c] ELSE e.text[c]]
  OBVIOUS
<1> QED
  BY <1>1 DEF ValueFrom

LEMMA AttemptsAgree ==
  ASSUME NEW e, NEW owners, NEW D, NEW v, NEW B, NEW w,
         Attempt(e, owners, D, v), Attempt(e, owners, B, w)
  PROVE  \A f \in D \cap B : v[f] = w[f]
<1> DEFINE S == {f \in D \cap B : v[f] # w[f]}
<1>1. /\ D \subseteq Formulas
      /\ \A f \in D : Reads[f] \cap Formulas \subseteq D
      /\ \A f \in B : Reads[f] \cap Formulas \subseteq B
      /\ \A f \in D : v[f] = ValueFrom(e, owners, v, f)
      /\ \A f \in B : w[f] = ValueFrom(e, owners, w, f)
  BY DEF Attempt
<1>2. ASSUME S # {} PROVE FALSE
  <2>1. PICK f \in S : Reads[f] \cap S = {}
    BY <1>1, <1>2, AcyclicAssumption
  <2>2. f \in Formulas /\ \A g \in Reads[f] \cap Formulas : v[g] = w[g]
    BY <1>1, <2>1
  <2>3. ValueFrom(e, owners, v, f) = ValueFrom(e, owners, w, f)
    BY <2>2, ValueFromReads
  <2> QED
    BY <1>1, <2>1, <2>3
<1> QED
  BY <1>2

LEMMA AttemptExists ==
  ASSUME NEW e, NEW owners
  PROVE  \E v : Attempt(e, owners, Formulas, v)
<1> DEFINE G == {f \in Formulas : \E D, v : f \in D /\ Attempt(e, owners, D, v)}
           value(f) == CHOOSE x : \E D, v : f \in D /\ Attempt(e, owners, D, v) /\ x = v[f]
           all == [f \in G |-> value(f)]
<1>1. ASSUME NEW D, NEW v, Attempt(e, owners, D, v), NEW f \in D
      PROVE  f \in G /\ all[f] = v[f]
  <2>1. f \in G
    BY <1>1 DEF Attempt
  <2>2. \E x : \E B, w : f \in B /\ Attempt(e, owners, B, w) /\ x = w[f]
    BY <1>1
  <2>3. PICK B, w : f \in B /\ Attempt(e, owners, B, w) /\ value(f) = w[f]
    BY <2>2
  <2>4. w[f] = v[f]
    BY <1>1, <2>3, AttemptsAgree
  <2> QED
    BY <2>1, <2>3, <2>4
<1> HIDE DEF value
<1>2. ASSUME NEW f \in G
      PROVE  /\ Reads[f] \cap Formulas \subseteq G
             /\ all[f] = ValueFrom(e, owners, all, f)
  <2>1. PICK D, v : f \in D /\ Attempt(e, owners, D, v)
    OBVIOUS
  <2>2. \A g \in D : g \in G /\ all[g] = v[g]
    BY <1>1, <2>1
  <2>3. Reads[f] \cap Formulas \subseteq D /\ v[f] = ValueFrom(e, owners, v, f) /\ f \in Formulas
    BY <2>1 DEF Attempt
  <2>4. \A g \in Reads[f] \cap Formulas : all[g] = v[g]
    BY <2>2, <2>3
  <2>5. ValueFrom(e, owners, all, f) = ValueFrom(e, owners, v, f)
    BY <2>3, <2>4, ValueFromReads
  <2> QED
    BY <2>1, <2>2, <2>3, <2>5
<1>3. ASSUME G # Formulas PROVE FALSE
  <2>1. PICK f \in Formulas \ G : Reads[f] \cap (Formulas \ G) = {}
    BY <1>3, AcyclicAssumption
  <2> DEFINE D == G \cup {f}
             more == [g \in D |-> ValueFrom(e, owners, all, g)]
  <2>2. \A g \in D : Reads[g] \cap Formulas \subseteq G
    BY <1>2, <2>1
  <2>3. \A g \in G : more[g] = all[g]
    BY <1>2
  <2>4. \A g \in D : more[g] = ValueFrom(e, owners, more, g)
    <3> SUFFICES ASSUME NEW g \in D PROVE more[g] = ValueFrom(e, owners, more, g)
      OBVIOUS
    <3>1. \A h \in Reads[g] \cap Formulas : all[h] = more[h]
      BY <2>2, <2>3
    <3>2. g \in Formulas
      BY <2>1
    <3> HIDE DEF all, G
    <3>3. ValueFrom(e, owners, all, g) = ValueFrom(e, owners, more, g)
      BY <3>1, <3>2, ValueFromReads
    <3> QED
      BY <3>3
  <2>5. more = [g \in D |-> more[g]]
    OBVIOUS
  <2> HIDE DEF more
  <2>6. more = [g \in D |-> ValueFrom(e, owners, more, g)]
    BY <2>4, <2>5
  <2>7. Attempt(e, owners, D, more)
    BY <2>1, <2>2, <2>6 DEF Attempt
  <2>8. f \in G
    BY <1>1, <2>7
  <2> QED
    BY <2>1, <2>8
<1>4. all = [f \in Formulas |-> all[f]]
  BY <1>3
<1> HIDE DEF all
<1>5. all = [f \in Formulas |-> ValueFrom(e, owners, all, f)]
  BY <1>2, <1>3, <1>4
<1>6. Attempt(e, owners, Formulas, all)
  BY <1>5 DEF Attempt
<1> QED
  BY <1>6

LEMMA EvaluatedIsAnAttempt ==
  ASSUME NEW e, NEW owners
  PROVE  Attempt(e, owners, Formulas, Evaluated(e, owners))
<1>1. PICK s : Attempt(e, owners, Formulas, s)
  BY AttemptExists
<1> DEFINE P(value) ==
             value = [f \in Formulas |->
               IF f \in owners
               THEN <<e.text[f], [c \in Reads[f] |-> IF c \in Formulas THEN value[c] ELSE e.text[c]]>>
               ELSE e.value[f]]
           t == CHOOSE value : P(value)
<1>2. P(s)
  BY <1>1 DEF Attempt, ValueFrom
<1> HIDE DEF P
<1>3. P(t)
  BY <1>2
<1>4. Evaluated(e, owners) = [f \in Formulas |-> t[f]]
  BY DEF Evaluated, P
<1> HIDE DEF t
<1>5. t = [f \in Formulas |-> t[f]]
  BY <1>3 DEF P
<1>6. P(Evaluated(e, owners))
  BY <1>3, <1>4, <1>5
<1> QED
  BY <1>6 DEF P, Attempt, ValueFrom

-----------------------------------------------------------------------------
(* What is up to date.                                                     *)

\* The values that these texts give.
Fresh(text) == Evaluated([text |-> text], Formulas)

LEMMA FreshValue ==
  ASSUME NEW text, NEW f \in Formulas
  PROVE  Fresh(text)[f] =
           <<text[f], [c \in Reads[f] |-> IF c \in Formulas THEN Fresh(text)[c] ELSE text[c]]>>
<1> DEFINE e == [text |-> text]
<1>1. Attempt(e, Formulas, Formulas, Fresh(text)) /\ e.text = text
  BY EvaluatedIsAnAttempt DEF Fresh
<1> HIDE DEF e
<1>2. Fresh(text)[f] = ValueFrom(e, Formulas, Fresh(text), f)
  BY <1>1 DEF Attempt
<1> QED
  BY <1>1, <1>2 DEF ValueFrom

\* A formula that is calculated comes up to date, when each formula it reads is
\* calculated as well or is up to date.  The others keep their values.
LEMMA CalculationIsFresh ==
  ASSUME NEW e, NEW owners \in SUBSET Formulas,
         \A f \in owners : \A g \in Reads[f] \cap Formulas :
           g \in owners \/ e.value[g] = Fresh(e.text)[g]
  PROVE  /\ \A f \in owners : Evaluated(e, owners)[f] = Fresh(e.text)[f]
         /\ \A f \in Formulas \ owners : Evaluated(e, owners)[f] = e.value[f]
<1> DEFINE v == Evaluated(e, owners)
           w == Fresh(e.text)
           S == {f \in owners : v[f] # w[f]}
<1>1. \A f \in Formulas : v[f] = ValueFrom(e, owners, v, f)
  BY EvaluatedIsAnAttempt DEF Attempt
<1> HIDE DEF v, w
<1>2. \A f \in Formulas \ owners : v[f] = e.value[f]
  BY <1>1 DEF ValueFrom
<1>3. ASSUME S # {} PROVE FALSE
  <2>1. PICK f \in S : Reads[f] \cap S = {}
    BY <1>3, AcyclicAssumption
  <2>2. \A g \in Reads[f] \cap Formulas : v[g] = w[g]
    BY <1>2, <2>1 DEF w
  <2>3. v[f] = <<e.text[f], [c \in Reads[f] |-> IF c \in Formulas THEN v[c] ELSE e.text[c]]>>
    BY <1>1, <2>1 DEF ValueFrom
  <2>4. w[f] = <<e.text[f], [c \in Reads[f] |-> IF c \in Formulas THEN w[c] ELSE e.text[c]]>>
    BY <2>1, FreshValue DEF w
  <2>5. [c \in Reads[f] |-> IF c \in Formulas THEN v[c] ELSE e.text[c]]
          = [c \in Reads[f] |-> IF c \in Formulas THEN w[c] ELSE e.text[c]]
    BY <2>2
  <2> QED
    BY <2>1, <2>3, <2>4, <2>5
<1> QED
  BY <1>2, <1>3 DEF v, w

\* Texts that differ only in what is dirty give the other formulas the same
\* values.  The visibility of the rows is never dirty itself.
LEMMA FreshIsLocal ==
  ASSUME NEW text, NEW other, NEW roots,
         \A c \in Cells : c \notin roots => text[c] = other[c],
         \/ text[View] = other[View]
         \/ \A g \in Formulas : View \in Reads[g] => g \in roots,
         NEW f \in Formulas, f \notin Affected(roots)
  PROVE  Fresh(text)[f] = Fresh(other)[f]
<1> DEFINE S == {g \in Formulas : g \notin Affected(roots) /\ Fresh(text)[g] # Fresh(other)[g]}
<1>1. ASSUME S # {} PROVE FALSE
  <2>1. PICK g \in S : Reads[g] \cap S = {}
    BY <1>1, AcyclicAssumption
  <2>2. /\ g \notin roots
        /\ \A c \in Reads[g] : c \notin roots
        /\ \A h \in Reads[g] \cap Formulas : h \notin Affected(roots)
    BY <2>1, AffectedThroughReads, SourcesAre
  <2>3. \A c \in Reads[g] :
          IF c \in Formulas THEN Fresh(text)[c] = Fresh(other)[c] ELSE text[c] = other[c]
    <3> SUFFICES ASSUME NEW c \in Reads[g], c \notin Formulas PROVE text[c] = other[c]
      BY <2>1, <2>2
    <3>1. c \in Cells \cup {View}
      BY <2>1, GraphAssumption
    <3>2. CASE c = View
      BY <2>1, <2>2, <3>2
    <3> QED
      BY <2>2, <3>1, <3>2
  <2>4. [c \in Reads[g] |-> IF c \in Formulas THEN Fresh(text)[c] ELSE text[c]]
          = [c \in Reads[g] |-> IF c \in Formulas THEN Fresh(other)[c] ELSE other[c]]
    BY <2>3
  <2>5. text[g] = other[g]
    BY <2>1, <2>2 DEF Cells
  <2>6. /\ Fresh(text)[g] = <<text[g], [c \in Reads[g] |->
                                IF c \in Formulas THEN Fresh(text)[c] ELSE text[c]]>>
        /\ Fresh(other)[g] = <<other[g], [c \in Reads[g] |->
                                IF c \in Formulas THEN Fresh(other)[c] ELSE other[c]]>>
    BY <2>1, FreshValue
  <2>7. Fresh(text)[g] = Fresh(other)[g]
    BY <2>4, <2>5, <2>6
  <2> QED
    BY <2>1, <2>7
<1> QED
  BY <1>1

\* The formulas that are out of date are those whose value is another one.
LEMMA StaleAre ==
  \A f : f \in Stale <=> f \in Formulas /\ page.value[f] # Fresh(page.text)[f]
<1>1. \A f \in Formulas : Evaluated(page, Formulas)[f] = Fresh(page.text)[f]
  BY CalculationIsFresh
<1> QED
  BY <1>1 DEF Stale

-----------------------------------------------------------------------------
(* What the page and the worker know of what is up to date.  Each of them  *)
(* has up to date every value that depends on nothing it holds as dirty    *)
(* (Tracked): the worker may lack values, but never has a wrong one.  As   *)
(* long as no sheet was calculated alone, a task covers everything that is *)
(* dirty, so that its result brings all of it up to date (Answered): what  *)
(* the worker holds as dirty, and what is on its way to it, is dirty for   *)
(* the page (Covered), and a task that names roots names all of that.      *)

Known(e) ==
  \A f \in Formulas :
    f \in Affected(e.dirty) \/ e.value[f] = Null \/ e.value[f] = Fresh(e.text)[f]

KnownOnPage(p) ==
  \A f \in Formulas : f \in Affected(p.dirty) \/ p.value[f] = Fresh(p.text)[f]

\* What is dirty is what the worker has not acknowledged, where the page would
\* send no snapshot.
Held(p, known) == known = p.context => p.dirty \subseteq Unacknowledged(p)

\* A task that names roots names all that the worker holds as dirty by then.
Rooted(q, e) ==
  \A i \in 1 .. Len(q) : q[i].kind = "roots" =>
    /\ e.dirty \subseteq q[i].roots
    /\ \A j \in 1 .. i : DOMAIN q[j].inputs \cup q[j].snapshot.dirty \subseteq q[i].roots

Covered ==
  /\ Unacknowledged(page) \subseteq page.dirty
  /\ worker.dirty \subseteq page.dirty
  /\ \A i \in 1 .. Len(inbox) :
       /\ inbox[i].snapshot.dirty \subseteq page.dirty
       /\ inbox[i].snapshot # NoEngine => \A f \in Formulas : inbox[i].snapshot.value[f] = Null

Tracked ==
  ~ alone =>
    /\ KnownOnPage(page)
    /\ worker = NoEngine \/ Known(worker)
    /\ Held(page, workerContext)
    /\ Rooted(inbox, worker)

\* What a task that the page waits for asks: nothing that is dirty is left out.
Asks(m, p, kind, lone) ==
  /\ m.kind = kind
  /\ ~ lone /\ kind = "roots" => p.dirty \subseteq m.roots
  /\ m.snapshot # NoEngine => m.snapshot.dirty = p.dirty

Asked ==
  task # NoTask /\ Len(inbox) # 0 => Asks(inbox[Len(inbox)], page, task.kind, alone)

\* The result of that task: all that is dirty is brought up to date, and nothing
\* is dirty any more.
Complete(r, p, e, kind) ==
  /\ r.dirty = {}
  /\ Known(e)
  /\ \A f \in DOMAIN r.values : r.values[f] = Fresh(p.text)[f]
  /\ Affected(p.dirty) \subseteq DOMAIN r.values
  /\ kind = "full" => Formulas \subseteq DOMAIN r.values

Answered ==
  \A i \in 1 .. Len(outbox) :
    outbox[i].id = task.id /\ outbox[i].status = "completed" =>
      /\ outbox[i].dirty = worker.dirty
      /\ ~ alone \/ task.kind = "full" => Complete(outbox[i], page, worker, task.kind)

DirtyInv == Covered /\ Tracked /\ Asked /\ Answered

LEMMA TrackedIsStaleIsDirty ==
  ASSUME Tracked
  PROVE  StaleIsDirtyUnlessAlone
BY StaleAre DEF Tracked, KnownOnPage, StaleIsDirtyUnlessAlone, StaleIsDirty

\* The page changes, and nothing that was dirty is forgotten.
Outdates(p) ==
  /\ page.dirty \subseteq p.dirty
  /\ Unacknowledged(p) \subseteq p.dirty
  /\ ~ alone => KnownOnPage(p) /\ Held(p, workerContext)

LEMMA PageOutdatesItself ==
  ASSUME DirtyInv
  PROVE  Outdates(page)
BY DEF Outdates, DirtyInv, Covered, Tracked

LEMMA CancelKeepsDirty ==
  ASSUME IInv, DirtyInv, NEW p, Outdates(p), Cancel(p),
         UNCHANGED <<workerContext, worker, outbox, alone>>
  PROVE  DirtyInv'
<1>1. page' = p /\ task' = NoTask /\ inbox' = inbox
  BY DEF Cancel
<1>2. Covered'
  BY <1>1 DEF DirtyInv, Covered, Outdates, Unacknowledged
<1>3. Tracked'
  BY <1>1 DEF DirtyInv, Tracked, Outdates, Held, KnownOnPage, Known, Rooted, Unacknowledged
<1>4. Asked'
  BY <1>1 DEF Asked
<1>5. Answered'
  <2>1. \A i \in 1 .. Len(outbox) : outbox[i].id # 0
    BY DEF IInv, Typed, IsResult
  <2> QED
    BY <1>1, <2>1, NothingIsSent DEF Answered
<1> QED
  BY <1>2, <1>3, <1>4, <1>5 DEF DirtyInv


\* A task that is sent names all that is dirty, or nothing in particular.
LEMMA SubmitKeepsDirty ==
  ASSUME IInv, DirtyInv, NEW p, NEW kind, NEW roots,
         Outdates(p), Submit(p, kind, roots),
         alone => alone',
         ~ alone' /\ kind = "roots" => p.dirty \subseteq roots,
         UNCHANGED <<workerContext, worker, outbox>>
  PROVE  DirtyInv'
<1> DEFINE m == Message(p, kind, roots)
<1>1. /\ page' = p
      /\ inbox' = Append(inbox, m)
      /\ task'.id = m.id /\ task'.kind = m.kind
  BY DEF Submit, Send
<1>2. /\ m.id = changes + commands + 2
      /\ m.kind = kind
      /\ m.roots = roots
      /\ DOMAIN m.inputs = Unacknowledged(p)
      /\ \/ m.snapshot = NoEngine
         \/ m.snapshot.dirty = p.dirty /\ \A f \in Formulas : m.snapshot.value[f] = Null
  BY DEF Message, Snapshot
<1> HIDE DEF m
<1>3. /\ IsSequence(inbox') /\ Len(inbox) \in Nat
      /\ Len(inbox') = Len(inbox) + 1
      /\ \A i \in 1 .. Len(inbox) : inbox'[i] = inbox[i]
      /\ inbox'[Len(inbox) + 1] = m
  BY <1>1, AppendExtends DEF IInv, Typed
<1>4. /\ page.dirty \subseteq p.dirty
      /\ Unacknowledged(p) \subseteq p.dirty
      /\ worker.dirty \subseteq p.dirty
      /\ m.snapshot.dirty \subseteq p.dirty
      /\ DOMAIN m.inputs \subseteq p.dirty
      /\ \A i \in 1 .. Len(inbox) :
           /\ inbox[i].snapshot.dirty \subseteq p.dirty
           /\ DOMAIN inbox[i].inputs \subseteq p.dirty
  <2>1. page.dirty \subseteq p.dirty /\ Unacknowledged(p) \subseteq p.dirty
    BY DEF Outdates
  <2>2. NoEngine.dirty = {}
    BY DEF NoEngine
  <2>3. \A i \in 1 .. Len(inbox) : DOMAIN inbox[i].inputs \subseteq Unacknowledged(page)
    BY DEF IInv, Typed, IsMessage
  <2> QED
    BY <1>2, <2>1, <2>2, <2>3 DEF DirtyInv, Covered
<1>5. Covered'
  <2>1. \A i \in 1 .. Len(inbox') :
          /\ inbox'[i].snapshot.dirty \subseteq p.dirty
          /\ inbox'[i].snapshot # NoEngine =>
               \A f \in Formulas : inbox'[i].snapshot.value[f] = Null
    <3> SUFFICES ASSUME NEW i \in 1 .. Len(inbox')
                 PROVE  /\ inbox'[i].snapshot.dirty \subseteq p.dirty
                        /\ inbox'[i].snapshot # NoEngine =>
                             \A f \in Formulas : inbox'[i].snapshot.value[f] = Null
      OBVIOUS
    <3>1. CASE i \in 1 .. Len(inbox)
      BY <1>3, <1>4, <3>1 DEF DirtyInv, Covered
    <3>2. CASE i = Len(inbox) + 1
      BY <1>2, <1>3, <1>4, <3>2
    <3> QED
      BY <1>3, <3>1, <3>2
  <2> QED
    BY <1>1, <1>4, <2>1 DEF Covered, Unacknowledged
<1>6. Tracked'
  <2> SUFFICES ASSUME ~ alone'
               PROVE  /\ KnownOnPage(p) /\ Held(p, workerContext)
                      /\ worker = NoEngine \/ Known(worker)
                      /\ Rooted(inbox', worker)
    BY <1>1 DEF Tracked, Held, KnownOnPage, Known, Rooted, Unacknowledged
  <2>1. ~ alone
    OBVIOUS
  <2>2. KnownOnPage(p) /\ Held(p, workerContext)
    BY <2>1 DEF Outdates
  <2>3. (worker = NoEngine \/ Known(worker)) /\ Rooted(inbox, worker)
    BY <2>1 DEF DirtyInv, Tracked
  <2>4. ASSUME NEW i \in 1 .. Len(inbox'), inbox'[i].kind = "roots"
        PROVE  /\ worker.dirty \subseteq inbox'[i].roots
               /\ \A j \in 1 .. i :
                    DOMAIN inbox'[j].inputs \cup inbox'[j].snapshot.dirty \subseteq inbox'[i].roots
    <3>1. CASE i \in 1 .. Len(inbox)
      <4>1. \A j \in 1 .. i : inbox'[j] = inbox[j]
        BY <1>3, <3>1
      <4> QED
        BY <1>3, <2>3, <2>4, <3>1, <4>1 DEF Rooted
    <3>2. CASE i = Len(inbox) + 1
      <4>1. p.dirty \subseteq inbox'[i].roots
        BY <1>2, <1>3, <2>4, <3>2
      <4>2. \A j \in 1 .. i : inbox'[j] = m \/ (j \in 1 .. Len(inbox) /\ inbox'[j] = inbox[j])
        BY <1>3, <3>2
      <4> QED
        BY <1>4, <4>1, <4>2
    <3> QED
      BY <1>3, <3>1, <3>2
  <2> QED
    BY <2>2, <2>3, <2>4 DEF Rooted
<1>7. Asked'
  <2>1. inbox'[Len(inbox')] = m
    BY <1>3
  <2> QED
    BY <1>1, <1>2, <2>1 DEF Asked, Asks
<1>8. Answered'
  <2>1. changes \in Nat /\ commands \in Nat
    BY BoundsAssumption DEF IInv, Typed
  <2>2. \A i \in 1 .. Len(outbox) : outbox[i].id \in 1 .. Sent
    BY DEF IInv, Typed, IsResult
  <2>3. \A i \in 1 .. Len(outbox) : outbox[i].id # task'.id
    BY <1>1, <1>2, <2>1, <2>2 DEF Sent
  <2> QED
    BY <2>3 DEF Answered
<1> QED
  BY <1>5, <1>6, <1>7, <1>8 DEF DirtyInv

LEMMA ChangeKeepsDirty ==
  ASSUME IInv, DirtyInv, NEW p, NEW automatic, Outdates(p), Change(p, automatic)
  PROVE  DirtyInv'
<1>1. /\ Submit(p, "roots", p.dirty) \/ Cancel(p)
      /\ UNCHANGED <<workerContext, worker, outbox, alone>>
  BY DEF Change
<1>2. CASE Submit(p, "roots", p.dirty)
  BY <1>1, <1>2, SubmitKeepsDirty
<1>3. CASE Cancel(p)
  BY <1>1, <1>3, CancelKeepsDirty
<1> QED
  BY <1>1, <1>2, <1>3

LEMMA CommandsKeepDirty ==
  ASSUME IInv, DirtyInv,
         CalculateNow \/ CalculateFull \/ \E s : CalculateSheet(s)
  PROVE  DirtyInv'
<1>1. Outdates(page)
  BY PageOutdatesItself
<1>2. PICK p : p = page
  OBVIOUS
<1>3. CASE CalculateNow \/ CalculateFull
  <2>1. PICK kind \in {"smart", "full"} : Recalculate(kind, {}) /\ UNCHANGED alone
    BY <1>3 DEF CalculateNow, CalculateFull
  <2>2. Submit(p, kind, {}) /\ UNCHANGED <<workerContext, worker, outbox>>
    BY <1>2, <2>1 DEF Recalculate
  <2> QED
    BY <1>1, <1>2, <2>1, <2>2, SubmitKeepsDirty
<1>4. CASE \E s : CalculateSheet(s)
  <2>1. PICK s : CalculateSheet(s)
    BY <1>4
  <2>2. PICK roots : roots = SheetRoots(s)
    OBVIOUS
  <2>3. /\ Submit(p, "roots", roots)
        /\ UNCHANGED <<workerContext, worker, outbox>>
        /\ alone' = (alone \/ p.dirty \ roots # {})
    BY <1>2, <2>1, <2>2 DEF CalculateSheet, Recalculate
  <2>4. /\ alone => alone'
        /\ ~ alone' => p.dirty \subseteq roots
    BY <2>3
  <2> QED
    BY <1>1, <1>2, <2>3, <2>4, SubmitKeepsDirty
<1> QED
  BY <1>3, <1>4


\* What is written is dirty, and so is all that depends on it.  The page may
\* calculate what was written itself: with everything it depends on.
LEMMA EditKeepsDirty ==
  ASSUME IInv, DirtyInv, NEW c \in Cells, Edit(c)
  PROVE  DirtyInv'
<1> DEFINE text == [page EXCEPT !.text[c] = @ + 1,
                                !.value = [f \in Formulas |-> IF f = c THEN Null ELSE @[f]],
                                !.dirty = @ \cup {c},
                                !.updates[c] = page.sequence + 1,
                                !.sequence = @ + 1,
                                !.generation = @ + 1]
           owners == {c} \cup (Sources[c] \cap Formulas)
           edited == IF page.mode = "automatic" \/ c \notin Formulas THEN text
                     ELSE [text EXCEPT !.value = Evaluated(text, owners)]
<1>1. Change(edited, page.mode = "automatic")
  BY DEF Edit
<1>2. IsPage(page, changes) /\ changes \in Nat
  BY BoundsAssumption DEF IInv, Typed
<1>3. /\ DOMAIN text = DOMAIN page
      /\ text.text = [page.text EXCEPT ![c] = @ + 1]
      /\ text.value = [f \in Formulas |-> IF f = c THEN Null ELSE page.value[f]]
      /\ text.dirty = page.dirty \cup {c}
      /\ text.updates = [page.updates EXCEPT ![c] = page.sequence + 1]
      /\ text.context = page.context
  BY <1>2 DEF IsPage
<1> HIDE DEF text
<1>4. /\ edited.text = text.text
      /\ edited.dirty = text.dirty
      /\ edited.updates = text.updates
      /\ edited.context = text.context
      /\ edited.value = IF page.mode = "automatic" \/ c \notin Formulas THEN text.value
                        ELSE Evaluated(text, owners)
  BY <1>2, <1>3 DEF IsPage
<1> HIDE DEF edited
<1>5. PICK p : p = edited
  OBVIOUS
<1>6. /\ \A d \in Cells \cup {View} : d # c => p.text[d] = page.text[d]
      /\ c # View
  BY <1>2, <1>3, <1>4, <1>5, GraphAssumption DEF IsPage
<1>7. Unacknowledged(p) = Unacknowledged(page) \cup {c}
  <2>1. p.updates = [page.updates EXCEPT ![c] = page.sequence + 1]
    BY <1>3, <1>4, <1>5
  <2>2. page.sequence + 1 # 0 /\ page.updates \in [Cells -> 0 .. page.sequence]
    BY <1>2 DEF IsPage
  <2> QED
    BY <2>1, <2>2 DEF Unacknowledged
<1>8. p.dirty = page.dirty \cup {c}
  BY <1>3, <1>4, <1>5
<1>9. ASSUME ~ alone, NEW f \in Formulas, f \notin Affected(p.dirty)
      PROVE  p.value[f] = Fresh(p.text)[f]
  <2>1. f \notin Affected(page.dirty)
    BY <1>8, <1>9, AffectedGrows
  <2>2. page.value[f] = Fresh(page.text)[f]
    BY <1>9, <2>1 DEF DirtyInv, Tracked, KnownOnPage
  <2>3. Fresh(page.text)[f] = Fresh(p.text)[f]
    <3>1. /\ \A d \in Cells : d \notin p.dirty => page.text[d] = p.text[d]
          /\ page.text[View] = p.text[View]
      BY <1>6, <1>8
    <3> QED
      BY <1>9, <3>1, FreshIsLocal
  <2>4. f # c
    BY <1>8, <1>9, AffectedThroughReads
  <2>5. text.value[f] = page.value[f]
    BY <1>3, <2>4
  <2>6. CASE page.mode = "automatic" \/ c \notin Formulas
    BY <1>4, <1>5, <2>2, <2>3, <2>5, <2>6
  <2>7. CASE ~ (page.mode = "automatic" \/ c \notin Formulas)
    <3>1. c \in Formulas /\ p.value = Evaluated(text, owners) /\ p.text = text.text
      BY <1>4, <1>5, <2>7
    <3>2. \A g \in owners : Reads[g] \cap Formulas \subseteq owners
      BY <3>1, SourcesAre, SourcesOfSources
    <3>3. owners \in SUBSET Formulas
      BY <3>1
    <3> HIDE DEF owners
    <3>4. /\ \A g \in owners : p.value[g] = Fresh(p.text)[g]
          /\ \A g \in Formulas \ owners : p.value[g] = text.value[g]
      BY <3>1, <3>2, <3>3, CalculationIsFresh
    <3> QED
      BY <2>2, <2>3, <2>5, <3>4
  <2> QED
    BY <2>6, <2>7
<1>10. Outdates(p)
  <2>1. page.dirty \subseteq p.dirty /\ Unacknowledged(p) \subseteq p.dirty
    BY <1>7, <1>8 DEF DirtyInv, Covered
  <2>2. ASSUME ~ alone PROVE Held(p, workerContext)
    <3>1. Held(page, workerContext) /\ p.context = page.context
      BY <1>3, <1>4, <1>5, <2>2 DEF DirtyInv, Tracked
    <3> QED
      BY <1>7, <1>8, <3>1 DEF Held
  <2>3. ASSUME ~ alone PROVE KnownOnPage(p)
    BY <1>9, <2>3 DEF KnownOnPage
  <2> QED
    BY <2>1, <2>2, <2>3 DEF Outdates
<1> QED
  BY <1>1, <1>5, <1>10, ChangeKeepsDirty

\* The formulas that read the visibility of the rows are dirty, and the worker
\* is sent a snapshot.
LEMMA ChangeVisibilityKeepsDirty ==
  ASSUME IInv, DirtyInv, ChangeVisibility
  PROVE  DirtyInv'
<1> DEFINE shown == [page EXCEPT !.text[View] = @ + 1,
                      !.dirty = @ \cup {f \in Formulas : View \in Reads[f]},
                      !.context = @ + 1,
                      !.generation = @ + 1]
<1>1. Change(shown, TRUE)
  BY DEF ChangeVisibility
<1>2. IsPage(page, changes) /\ changes \in Nat
  BY BoundsAssumption DEF IInv, Typed
<1>3. /\ shown.text = [page.text EXCEPT ![View] = @ + 1]
      /\ shown.value = page.value
      /\ shown.dirty = page.dirty \cup {f \in Formulas : View \in Reads[f]}
      /\ shown.updates = page.updates
      /\ shown.context = page.context + 1
  BY <1>2 DEF IsPage
<1> HIDE DEF shown
<1>4. PICK p : p = shown
  OBVIOUS
<1>5. \A d \in Cells : p.text[d] = page.text[d]
  BY <1>2, <1>3, <1>4, GraphAssumption DEF IsPage
<1>6. Unacknowledged(p) = Unacknowledged(page)
  BY <1>3, <1>4 DEF Unacknowledged
<1>7. page.dirty \subseteq p.dirty /\ \A f \in Formulas : View \in Reads[f] => f \in p.dirty
  BY <1>3, <1>4
<1>8. ASSUME ~ alone, NEW f \in Formulas, f \notin Affected(p.dirty)
      PROVE  p.value[f] = Fresh(p.text)[f]
  <2>1. f \notin Affected(page.dirty)
    BY <1>7, <1>8, AffectedGrows
  <2>2. p.value[f] = Fresh(page.text)[f]
    BY <1>3, <1>4, <1>8, <2>1 DEF DirtyInv, Tracked, KnownOnPage
  <2>3. Fresh(page.text)[f] = Fresh(p.text)[f]
    BY <1>5, <1>7, <1>8, FreshIsLocal
  <2> QED
    BY <2>2, <2>3
<1>9. p.context # workerContext
  BY <1>2, <1>3, <1>4 DEF IInv, Typed, IsPage
<1>10. Outdates(p)
  BY <1>6, <1>7, <1>8, <1>9 DEF Outdates, KnownOnPage, Held, DirtyInv, Covered
<1> QED
  BY <1>1, <1>4, <1>10, ChangeKeepsDirty

LEMMA SetModeKeepsDirty ==
  ASSUME IInv, DirtyInv, NEW mode \in Modes, SetMode(mode)
  PROVE  DirtyInv'
<1> DEFINE moded == [page EXCEPT !.mode = mode, !.context = @ + 1, !.generation = @ + 1]
<1>1. Change(moded, mode = "automatic")
  BY DEF SetMode
<1>2. IsPage(page, changes) /\ changes \in Nat
  BY BoundsAssumption DEF IInv, Typed
<1>3. /\ moded.text = page.text
      /\ moded.value = page.value
      /\ moded.dirty = page.dirty
      /\ moded.updates = page.updates
      /\ moded.context = page.context + 1
  BY <1>2 DEF IsPage
<1> HIDE DEF moded
<1>4. PICK p : p = moded
  OBVIOUS
<1>5. Unacknowledged(p) = Unacknowledged(page)
  BY <1>3, <1>4 DEF Unacknowledged
<1>6. ~ alone => KnownOnPage(p)
  BY <1>3, <1>4 DEF DirtyInv, Tracked, KnownOnPage
<1>7. p.context # workerContext
  BY <1>2, <1>3, <1>4 DEF IInv, Typed, IsPage
<1>8. Outdates(p)
  BY <1>3, <1>4, <1>5, <1>6, <1>7 DEF Outdates, Held, DirtyInv, Covered
<1> QED
  BY <1>1, <1>4, <1>8, ChangeKeepsDirty


\* A calculation that covers all that is dirty: what it does not calculate was
\* up to date, or is missing.
LEMMA CalculationCovers ==
  ASSUME NEW e, NEW m, NEW owners, owners = Owners(e, Targets(e, m)),
         m.kind # "full" => Known(e),
         m.kind = "roots" => e.dirty \subseteq m.roots
  PROVE  /\ owners \subseteq Formulas
         /\ Affected(e.dirty) \subseteq owners
         /\ m.kind = "full" => owners = Formulas
         /\ Remaining(e, m) = {}
         /\ \A f \in owners : Evaluated(e, owners)[f] = Fresh(e.text)[f]
         /\ \A f \in Formulas :
              Evaluated(e, owners)[f] = Null \/ Evaluated(e, owners)[f] = Fresh(e.text)[f]
<1>1. /\ m.kind = "full" => Targets(e, m) = Formulas
      /\ Affected(e.dirty) \subseteq Targets(e, m)
  <2>1. CASE m.kind = "full"
    BY <2>1 DEF Targets, Affected
  <2>2. CASE m.kind = "roots" /\ m.roots # {}
    <3>1. Targets(e, m) = Affected(m.roots)
      BY <2>2 DEF Targets
    <3> QED
      BY <2>2, <3>1, AffectedGrows
  <2>3. CASE m.kind # "full" /\ ~ (m.kind = "roots" /\ m.roots # {})
    BY <2>3 DEF Targets
  <2> QED
    BY <2>1, <2>2, <2>3
<1>2. owners \subseteq Formulas
  BY DEF Owners
<1>3. \A f \in Formulas :
        f \in owners <=>
          \/ f \in Targets(e, m)
          \/ /\ e.value[f] = Null \/ f \in Affected(e.dirty)
             /\ \E g \in Formulas : f \in Reads[g] /\ g \in owners
  BY OwnersAre
<1>4. Affected(e.dirty) \subseteq owners /\ (m.kind = "full" => owners = Formulas)
  <2>1. Affected(e.dirty) \subseteq Formulas
    BY DEF Affected
  <2> QED
    BY <1>1, <1>2, <1>3, <2>1
<1>5. Remaining(e, m) = {}
  BY DEF Remaining
<1>6. ASSUME NEW f \in owners, NEW g \in Reads[f] \cap Formulas, g \notin owners
      PROVE  e.value[g] = Fresh(e.text)[g]
  <2>1. m.kind # "full" /\ g \notin Affected(e.dirty)
    BY <1>4, <1>6
  <2>2. e.value[g] # Null
    BY <1>2, <1>3, <1>6
  <2> QED
    BY <1>6, <2>1, <2>2 DEF Known
<1>7. /\ \A f \in owners : Evaluated(e, owners)[f] = Fresh(e.text)[f]
      /\ \A f \in Formulas \ owners : Evaluated(e, owners)[f] = e.value[f]
  BY <1>2, <1>6, CalculationIsFresh
<1>8. ASSUME NEW f \in Formulas \ owners
      PROVE  e.value[f] = Null \/ e.value[f] = Fresh(e.text)[f]
  BY <1>4, <1>8 DEF Known
<1> QED
  BY <1>2, <1>4, <1>5, <1>7, <1>8

\* The worker forgets the values of what it is told of, and is told of what is
\* dirty for the page.
LEMMA BootstrappedKnows ==
  ASSUME IInv, DirtyInv, Len(inbox) # 0, NEW m, m = inbox[1],
         NEW e, e = Bootstrapped(worker, m)
  PROVE  /\ e.dirty \subseteq page.dirty
         /\ e.dirty \subseteq worker.dirty \cup DOMAIN m.inputs \cup m.snapshot.dirty
         /\ m.snapshot = NoEngine => DOMAIN m.inputs \subseteq e.dirty
         /\ ~ alone => Known(e) /\ (m.kind = "roots" => e.dirty \subseteq m.roots)
<1>1. 1 \in 1 .. Len(inbox) /\ IsMessage(m, page, Sent)
  <2>1. Len(inbox) \in Nat
    BY SequenceLength DEF IInv, Typed
  <2> QED
    BY <2>1 DEF IInv, Typed
<1>2. /\ worker.dirty \subseteq page.dirty
      /\ m.snapshot.dirty \subseteq page.dirty
      /\ DOMAIN m.inputs \subseteq page.dirty
      /\ m.snapshot # NoEngine => \A f \in Formulas : m.snapshot.value[f] = Null
  BY <1>1 DEF DirtyInv, Covered, IsMessage
<1>3. ~ alone /\ m.kind = "roots" =>
        /\ worker.dirty \subseteq m.roots
        /\ DOMAIN m.inputs \cup m.snapshot.dirty \subseteq m.roots
  BY <1>1 DEF DirtyInv, Tracked, Rooted
<1>4. CASE m.snapshot # NoEngine
  <2>1. e = m.snapshot
    BY <1>4 DEF Bootstrapped
  <2> QED
    BY <1>2, <1>3, <1>4, <2>1 DEF Known
<1>5. CASE m.snapshot = NoEngine
  <2>1. worker # NoEngine /\ IsEngine(worker)
    BY <1>1, <1>5 DEF IInv, Typed, Started
  <2>2. e = [worker EXCEPT
               !.text  = [c \in DOMAIN @ |-> IF c \in DOMAIN m.inputs THEN m.inputs[c] ELSE @[c]],
               !.value = [f \in Formulas |-> IF f \in DOMAIN m.inputs THEN Null ELSE @[f]],
               !.dirty = @ \cup DOMAIN m.inputs]
    BY <1>5 DEF Bootstrapped
  <2>3. /\ e.text = [c \in Cells \cup {View} |->
                       IF c \in DOMAIN m.inputs THEN m.inputs[c] ELSE worker.text[c]]
        /\ e.value = [f \in Formulas |-> IF f \in DOMAIN m.inputs THEN Null ELSE worker.value[f]]
        /\ e.dirty = worker.dirty \cup DOMAIN m.inputs
    BY <2>1, <2>2 DEF IsEngine
  <2>4. ASSUME ~ alone PROVE Known(e)
    <3> SUFFICES ASSUME NEW f \in Formulas, f \notin Affected(e.dirty), e.value[f] # Null
                 PROVE  e.value[f] = Fresh(e.text)[f]
      BY DEF Known
    <3>1. f \notin Affected(worker.dirty)
      BY <2>3, AffectedGrows
    <3>2. worker.value[f] = Fresh(worker.text)[f] /\ e.value[f] = worker.value[f]
      BY <2>1, <2>3, <2>4, <3>1 DEF DirtyInv, Tracked, Known
    <3>3. View \notin DOMAIN m.inputs
      BY <1>1, GraphAssumption DEF IsMessage, Unacknowledged
    <3>4. /\ \A c \in Cells : c \notin e.dirty => worker.text[c] = e.text[c]
          /\ worker.text[View] = e.text[View]
      BY <2>3, <3>3
    <3>5. Fresh(worker.text)[f] = Fresh(e.text)[f]
      BY <3>4, FreshIsLocal
    <3> QED
      BY <3>2, <3>5
  <2> QED
    BY <1>2, <1>3, <2>3, <2>4
<1> QED
  BY <1>4, <1>5


LEMMA WorkerHandlesKeepsDirty ==
  ASSUME IInv, IInv', DirtyInv, WorkerHandles
  PROVE  DirtyInv'
<1>1. PICK m : m = Head(inbox)
  OBVIOUS
<1>2. /\ inbox # <<>>
      /\ Handles(m) \/ Throws(m)
      /\ inbox' = Tail(inbox)
      /\ UNCHANGED <<page, task, workerContext, alone>>
  BY <1>1 DEF WorkerHandles, port
<1>3. /\ IsSequence(inbox')
      /\ Len(inbox) \in Nat \ {0}
      /\ Len(inbox') = Len(inbox) - 1
      /\ \A i \in 1 .. Len(inbox') : inbox'[i] = inbox[i + 1]
      /\ m = inbox[1]
  BY <1>1, <1>2, TailDropsHead DEF IInv, Typed
<1>4. PICK e : e = Bootstrapped(worker, m)
  OBVIOUS
<1>5. PICK owners : owners = Owners(e, Targets(e, m))
  OBVIOUS
<1>6. /\ IsMessage(m, page, Sent)
      /\ m.snapshot = NoEngine => worker # NoEngine
  BY <1>3 DEF IInv, Typed, Started
<1>7. IsEngine(e)
  BY <1>4, <1>6, BootstrappedTexts
<1>8. /\ e.dirty \subseteq page.dirty
      /\ e.dirty \subseteq worker.dirty \cup DOMAIN m.inputs \cup m.snapshot.dirty
      /\ m.snapshot = NoEngine => DOMAIN m.inputs \subseteq e.dirty
      /\ ~ alone => Known(e) /\ (m.kind = "roots" => e.dirty \subseteq m.roots)
  BY <1>3, <1>4, BootstrappedKnows
<1>9. ~ alone \/ m.kind = "full" =>
        /\ owners \subseteq Formulas
        /\ Affected(e.dirty) \subseteq owners
        /\ m.kind = "full" => owners = Formulas
        /\ Remaining(e, m) = {}
        /\ \A f \in owners : Evaluated(e, owners)[f] = Fresh(e.text)[f]
        /\ \A f \in Formulas :
             Evaluated(e, owners)[f] = Null \/ Evaluated(e, owners)[f] = Fresh(e.text)[f]
  BY <1>5, <1>8, CalculationCovers
<1> DEFINE done == Result(m, "completed", [f \in owners |-> worker'.value[f]], worker'.dirty)
           thrown == Result(m, "failed", Null, {})
<1>10. /\ worker'.text = e.text
       /\ \/ /\ worker'.value = Evaluated(e, owners)
             /\ worker'.dirty = Remaining(e, m)
             /\ outbox' = Append(outbox, done)
          \/ /\ worker'.value = e.value \/ worker'.value = Evaluated(e, owners)
             /\ worker'.dirty = e.dirty
             /\ outbox' = Append(outbox, thrown)
  <2>1. CASE Handles(m)
    <3>1. worker' = Calculated(e, m, owners) /\ outbox' = Append(outbox, done)
      BY <1>4, <1>5, <2>1 DEF Handles
    <3> QED
      BY <1>7, <3>1 DEF Calculated, IsEngine
  <2>2. CASE Throws(m)
    <3>1. /\ worker' = e \/ worker' = [e EXCEPT !.value = Evaluated(e, owners)]
          /\ outbox' = Append(outbox, thrown)
      BY <1>4, <1>5, <2>2 DEF Throws
    <3> QED
      BY <1>7, <3>1 DEF IsEngine
  <2> QED
    BY <1>2, <2>1, <2>2
<1>11. PICK r :
         /\ outbox' = Append(outbox, r)
         /\ r.id = m.id
         /\ r.status = "completed" =>
              /\ worker'.value = Evaluated(e, owners)
              /\ worker'.dirty = Remaining(e, m)
              /\ DOMAIN r.values = owners
              /\ \A f \in owners : r.values[f] = worker'.value[f]
              /\ r.dirty = worker'.dirty
  <2>1. /\ done.id = m.id
        /\ DOMAIN done.values = owners
        /\ \A f \in owners : done.values[f] = worker'.value[f]
        /\ done.dirty = worker'.dirty
    BY DEF Result
  <2>2. thrown.id = m.id /\ thrown.status # "completed"
    BY DEF Result
  <2> HIDE DEF done, thrown
  <2> QED
    BY <1>10, <2>1, <2>2
<1> HIDE DEF done, thrown
<1>12. /\ IsSequence(outbox') /\ Len(outbox) \in Nat
       /\ Len(outbox') = Len(outbox) + 1
       /\ \A i \in 1 .. Len(outbox) : outbox'[i] = outbox[i]
       /\ outbox'[Len(outbox) + 1] = r
  BY <1>11, AppendExtends DEF IInv, Typed
<1>13. worker'.dirty \subseteq e.dirty
  BY <1>10 DEF Remaining
<1>14. \A i \in 1 .. Len(inbox') : i + 1 \in 1 .. Len(inbox) /\ inbox'[i] = inbox[i + 1]
  BY <1>3
<1>15. Covered'
  BY <1>2, <1>8, <1>13, <1>14 DEF DirtyInv, Covered, Unacknowledged
<1>16. ~ alone \/ (m.kind = "full" /\ r.status = "completed") => Known(worker')
  BY <1>8, <1>9, <1>10, <1>11 DEF Known
<1>17. Tracked'
  <2> SUFFICES ASSUME ~ alone PROVE Known(worker') /\ Rooted(inbox', worker')
    BY <1>2 DEF DirtyInv, Tracked, KnownOnPage, Known, Held, Rooted, Unacknowledged
  <2>1. ASSUME NEW i \in 1 .. Len(inbox'), inbox'[i].kind = "roots"
        PROVE  /\ worker'.dirty \subseteq inbox'[i].roots
               /\ \A j \in 1 .. i :
                    DOMAIN inbox'[j].inputs \cup inbox'[j].snapshot.dirty \subseteq inbox'[i].roots
    <3>1. i + 1 \in 1 .. Len(inbox) /\ inbox'[i] = inbox[i + 1]
      BY <1>14
    <3>2. /\ worker.dirty \subseteq inbox'[i].roots
          /\ \A j \in 1 .. i + 1 :
               DOMAIN inbox[j].inputs \cup inbox[j].snapshot.dirty \subseteq inbox'[i].roots
      BY <2>1, <3>1 DEF DirtyInv, Tracked, Rooted
    <3>3. 1 \in 1 .. i + 1 /\ \A j \in 1 .. i : j + 1 \in 1 .. i + 1 /\ inbox'[j] = inbox[j + 1]
      BY <1>3
    <3>4. worker'.dirty \subseteq inbox'[i].roots
      BY <1>3, <1>8, <1>13, <3>2, <3>3
    <3> QED
      BY <3>2, <3>3, <3>4
  <2> QED
    BY <1>16, <2>1 DEF Rooted
<1>18. Asked'
  <2>1. Len(inbox') # 0 => inbox'[Len(inbox')] = inbox[Len(inbox)]
    BY <1>3
  <2> QED
    BY <1>2, <1>3, <2>1 DEF DirtyInv, Asked, Asks
<1>19. Answered'
  <2> SUFFICES ASSUME NEW i \in 1 .. Len(outbox'),
                      outbox'[i].id = task.id, outbox'[i].status = "completed"
               PROVE  /\ outbox'[i].dirty = worker'.dirty
                      /\ ~ alone \/ task.kind = "full" =>
                           Complete(outbox'[i], page, worker', task.kind)
    BY <1>2 DEF Answered, Complete, Known
  <2>1. task # NoTask
    BY NothingIsSent DEF IInv, Typed, IsResult
  <2>2. /\ inbox[Len(inbox)].id = task.id
        /\ SaysAll(inbox[Len(inbox)], page, workerContext)
        /\ Asks(inbox[Len(inbox)], page, task.kind, alone)
        /\ Len(inbox) \in 1 .. Len(inbox)
    BY <1>3, <2>1 DEF IInv, Current, DirtyInv, Asked
  <2>3. i = Len(outbox) + 1 /\ outbox'[i] = r
    <3>1. ASSUME i \in 1 .. Len(outbox) PROVE FALSE
      <4>1. outbox[i].id = inbox[Len(inbox)].id
        BY <1>12, <2>2, <3>1
      <4>2. outbox[i].id < inbox[Len(inbox)].id
        BY ONLY IInv, <2>2, <3>1 DEF IInv, Ordered
      <4>3. outbox[i].id \in Int
        BY ONLY IInv, <3>1 DEF IInv, Typed, IsResult
      <4> QED
        BY ONLY <4>1, <4>2, <4>3
    <3> QED
      BY <1>12, <3>1
  <2>4. Len(inbox) = 1
    <3>1. ASSUME Len(inbox) # 1 PROVE FALSE
      <4>1. inbox[1].id < inbox[Len(inbox)].id
        BY <1>3, <3>1 DEF IInv, Ordered
      <4>2. inbox[1].id = inbox[Len(inbox)].id /\ inbox[1].id \in Int
        BY <1>3, <1>6, <1>11, <2>2, <2>3 DEF IsMessage
      <4> QED
        BY <4>1, <4>2
    <3> QED
      BY <3>1
  <2>5. SaysAll(m, page, workerContext) /\ Asks(m, page, task.kind, alone)
    BY <1>3, <2>2, <2>4
  <2>6. ASSUME ~ alone \/ task.kind = "full"
        PROVE  Complete(r, page, worker', task.kind)
    <3>1. /\ owners \subseteq Formulas
          /\ Affected(e.dirty) \subseteq owners
          /\ m.kind = "full" => owners = Formulas
          /\ Remaining(e, m) = {}
          /\ \A f \in owners : Evaluated(e, owners)[f] = Fresh(e.text)[f]
      BY <1>9, <2>5, <2>6 DEF Asks
    <3>2. e.text = page.text
      <4>1. Len(inbox') = 0
        BY <1>3, <2>4
      <4>2. worker'.text = page'.text
        BY <1>2, <2>1, <4>1 DEF IInv, Current
      <4> QED
        BY <1>2, <1>10, <4>2
    <3>3. Affected(page.dirty) \subseteq owners
      <4>1. CASE task.kind = "full"
        BY <2>5, <3>1, <4>1 DEF Asks, Affected
      <4>2. CASE task.kind # "full"
        <5>1. page.dirty \subseteq e.dirty
          <6>1. CASE m.snapshot # NoEngine
            BY <1>4, <2>5, <6>1 DEF Asks, Bootstrapped
          <6>2. CASE m.snapshot = NoEngine
            <7>1. workerContext = page.context /\ DOMAIN m.inputs = Unacknowledged(page)
              BY <2>5, <6>2 DEF SaysAll
            <7>2. page.dirty \subseteq Unacknowledged(page)
              BY <2>6, <4>2, <7>1 DEF DirtyInv, Tracked, Held
            <7> QED
              BY <1>8, <6>2, <7>1, <7>2
          <6> QED
            BY <6>1, <6>2
        <5> QED
          BY <3>1, <5>1, AffectedGrows
      <4> QED
        BY <4>1, <4>2
    <3>4. r.dirty = {} /\ DOMAIN r.values = owners
      BY <1>11, <2>3, <3>1
    <3>5. \A f \in owners : r.values[f] = Fresh(page.text)[f]
      BY <1>11, <2>3, <3>1, <3>2
    <3>6. Known(worker')
      BY <1>16, <2>3, <2>5, <2>6 DEF Asks
    <3>7. task.kind = "full" => Formulas \subseteq DOMAIN r.values
      BY <2>5, <3>1, <3>4 DEF Asks
    <3> QED
      BY <3>3, <3>4, <3>5, <3>6, <3>7 DEF Complete
  <2> QED
    BY <1>11, <2>3, <2>6
<1> QED
  BY <1>15, <1>17, <1>18, <1>19 DEF DirtyInv


LEMMA NoTaskAsksNothing ==
  ASSUME IInv', task' = NoTask
  PROVE  Asked' /\ Answered'
<1>1. \A i \in 1 .. Len(outbox') : outbox'[i].id # 0
  BY DEF IInv, Typed, IsResult
<1> QED
  BY <1>1, NothingIsSent DEF Asked, Answered

\* When the page accepts a result nothing is under way, and nothing that the
\* worker still holds as dirty is forgotten.
LEMMA AcceptKeepsDirty ==
  ASSUME IInv, IInv', DirtyInv, NEW r, Accepts(r)
  PROVE  DirtyInv'
<1> USE DEF Accepts
<1>1. 1 \in 1 .. Len(outbox) /\ r = outbox[1]
  <2>1. Len(outbox) \in Nat \ {0} /\ r = outbox[1]
    BY TailDropsHead DEF IInv, Typed
  <2> QED
    BY <2>1
<1>2. r.id \in 1 .. Sent /\ task # NoTask
  <2>1. r.id \in 1 .. Sent
    BY <1>1 DEF IInv, Typed, IsResult
  <2> QED
    BY <2>1, NothingIsSent
<1>3. task.revision = page.sequence /\ (Len(inbox) # 0 => inbox[Len(inbox)].id = task.id)
  BY <1>2 DEF IInv, Current
<1>4. Len(inbox) = 0
  <2>1. Len(inbox) \in Nat
    BY SequenceLength DEF IInv, Typed
  <2>2. ASSUME Len(inbox) # 0 PROVE FALSE
    <3>1. Len(inbox) \in 1 .. Len(inbox)
      BY <2>1, <2>2
    <3>2. r.id < inbox[Len(inbox)].id /\ r.id = inbox[Len(inbox)].id
      BY <1>1, <1>3, <2>2, <3>1 DEF IInv, Ordered
    <3> QED
      BY <1>2, <3>2
  <2> QED
    BY <2>2
<1>5. IsPage(page, changes)
  BY PageFollowsItself DEF Follows
<1>6. /\ page'.text = page.text
      /\ page'.value = [f \in Formulas |-> IF f \in DOMAIN r.values
                                           THEN r.values[f] ELSE page.value[f]]
      /\ page'.dirty = r.dirty
      /\ page'.updates = Acknowledged(page, task.revision)
  BY <1>5 DEF IsPage
<1>7. Unacknowledged(page') = {}
  <2>1. \A c \in Cells : page.updates[c] <= task.revision
    BY <1>3, <1>5 DEF IsPage
  <2> QED
    BY <1>6, <2>1 DEF Unacknowledged, Acknowledged
<1>8. /\ r.dirty = worker.dirty
      /\ ~ alone \/ task.kind = "full" => Complete(r, page, worker, task.kind)
  BY <1>1 DEF DirtyInv, Answered
<1>9. Covered'
  BY <1>4, <1>6, <1>7, <1>8 DEF Covered, Unacknowledged
<1>10. Tracked'
  <2> SUFFICES ASSUME ~ alone'
               PROVE  KnownOnPage(page') /\ Known(worker) /\ page'.dirty = {}
    BY <1>4 DEF Tracked, KnownOnPage, Known, Held, Rooted, Unacknowledged
  <2>1. ~ alone \/ task.kind = "full"
    OBVIOUS
  <2>2. Complete(r, page, worker, task.kind)
    BY <1>8, <2>1
  <2>3. ASSUME NEW f \in Formulas, f \notin DOMAIN r.values
        PROVE  page.value[f] = Fresh(page.text)[f]
    <3>1. ~ alone /\ f \notin Affected(page.dirty)
      BY <2>1, <2>2, <2>3 DEF Complete
    <3> QED
      BY <3>1 DEF DirtyInv, Tracked, KnownOnPage
  <2>4. \A f \in Formulas : page'.value[f] = Fresh(page'.text)[f]
    BY <1>6, <2>2, <2>3 DEF Complete
  <2> QED
    BY <1>6, <2>2, <2>4 DEF KnownOnPage, Complete
<1> QED
  BY <1>9, <1>10, NoTaskAsksNothing DEF DirtyInv

LEMMA DropKeepsDirty ==
  ASSUME IInv, IInv', DirtyInv, outbox # <<>>, outbox' = Tail(outbox),
         UNCHANGED <<worker, inbox, page, workerContext, alone>>,
         task' = NoTask \/ task' = task
  PROVE  DirtyInv'
<1>1. Covered'
  BY DEF DirtyInv, Covered, Unacknowledged
<1>2. Tracked'
  BY DEF DirtyInv, Tracked, KnownOnPage, Known, Held, Rooted, Unacknowledged
<1>3. Asked'
  BY DEF DirtyInv, Asked, Asks
<1>4. Answered'
  <2>1. CASE task' = NoTask
    BY <2>1, NoTaskAsksNothing
  <2>2. CASE task' = task
    <3>1. \A i \in 1 .. Len(outbox') :
            i + 1 \in 1 .. Len(outbox) /\ outbox'[i] = outbox[i + 1]
      <4>1. /\ Len(outbox) \in Nat \ {0}
            /\ Len(outbox') = Len(outbox) - 1
            /\ \A i \in 1 .. Len(outbox) - 1 : outbox'[i] = outbox[i + 1]
        BY TailDropsHead DEF IInv, Typed
      <4> QED
        BY <4>1
    <3> QED
      BY <2>2, <3>1 DEF DirtyInv, Answered, Complete, Known
  <2> QED
    BY <2>1, <2>2
<1> QED
  BY <1>1, <1>2, <1>3, <1>4 DEF DirtyInv

LEMMA ReceiveKeepsDirty ==
  ASSUME IInv, IInv', DirtyInv, Receive
  PROVE  DirtyInv'
<1>1. ASSUME NEW r, Accepts(r) PROVE DirtyInv'
  BY ONLY IInv, IInv', DirtyInv, <1>1, AcceptKeepsDirty
<1>2. CASE PassesOver
  BY <1>2, DropKeepsDirty DEF PassesOver
<1> QED
  BY <1>1, <1>2, ReceiveCases

LEMMA WorkerErrorKeepsDirty ==
  ASSUME IInv, IInv', DirtyInv, WorkerError
  PROVE  DirtyInv'
<1>1. /\ task' = NoTask
      /\ UNCHANGED <<page, workerContext, worker, alone>>
      /\ \/ inbox # <<>> /\ inbox' = Tail(inbox) /\ UNCHANGED outbox
         \/ outbox # <<>> /\ outbox' = Tail(outbox) /\ UNCHANGED inbox
  BY DEF WorkerError
<1>2. CASE outbox # <<>> /\ outbox' = Tail(outbox) /\ UNCHANGED inbox
  BY <1>1, <1>2, DropKeepsDirty
<1>3. CASE inbox # <<>> /\ inbox' = Tail(inbox) /\ UNCHANGED outbox
  <2>1. /\ Len(inbox) \in Nat \ {0}
        /\ Len(inbox') = Len(inbox) - 1
        /\ \A i \in 1 .. Len(inbox') : i + 1 \in 1 .. Len(inbox) /\ inbox'[i] = inbox[i + 1]
    <3>1. /\ Len(inbox) \in Nat \ {0}
          /\ Len(inbox') = Len(inbox) - 1
          /\ \A i \in 1 .. Len(inbox) - 1 : inbox'[i] = inbox[i + 1]
      BY <1>3, TailDropsHead DEF IInv, Typed
    <3> QED
      BY <3>1
  <2>2. Covered'
    BY <1>1, <2>1 DEF DirtyInv, Covered, Unacknowledged
  <2>3. ASSUME ~ alone, NEW i \in 1 .. Len(inbox'), inbox'[i].kind = "roots"
        PROVE  /\ worker.dirty \subseteq inbox'[i].roots
               /\ \A j \in 1 .. i :
                    DOMAIN inbox'[j].inputs \cup inbox'[j].snapshot.dirty \subseteq inbox'[i].roots
    <3>1. i + 1 \in 1 .. Len(inbox) /\ inbox'[i] = inbox[i + 1]
      BY <2>1
    <3>2. /\ worker.dirty \subseteq inbox'[i].roots
          /\ \A j \in 1 .. i + 1 :
               DOMAIN inbox[j].inputs \cup inbox[j].snapshot.dirty \subseteq inbox'[i].roots
      BY <2>3, <3>1 DEF DirtyInv, Tracked, Rooted
    <3>3. \A j \in 1 .. i : j + 1 \in 1 .. i + 1 /\ inbox'[j] = inbox[j + 1]
      BY <2>1
    <3> QED
      BY <3>2, <3>3
  <2>4. Tracked'
    BY <1>1, <2>3 DEF DirtyInv, Tracked, KnownOnPage, Known, Held, Rooted, Unacknowledged
  <2> QED
    BY <1>1, <2>2, <2>4, NoTaskAsksNothing DEF DirtyInv
<1> QED
  BY <1>1, <1>2, <1>3

\* A workbook is loaded: everything is dirty.
LEMMA InitHasDirty ==
  ASSUME Init
  PROVE  DirtyInv
<1>1. PICK mode \in Modes :
        LET loaded == [text       |-> [c \in Cells \cup {View} |-> 0],
                       value      |-> [f \in Formulas |-> Null],
                       dirty      |-> Cells,
                       mode       |-> mode,
                       updates    |-> [c \in Cells |-> 1],
                       sequence   |-> 1,
                       generation |-> 1,
                       context    |-> 1]
        IN  /\ page = loaded
            /\ \/ /\ task = [id |-> 1, kind |-> "smart", generation |-> 1, context |-> 1,
                             revision |-> 1]
                  /\ inbox = <<[id |-> 1, kind |-> "smart", roots |-> {},
                                snapshot |-> Snapshot(loaded), inputs |-> [c \in Cells |-> 0]]>>
               \/ task = NoTask /\ inbox = <<>>
  BY DEF Init, Modes
<1>2. worker = NoEngine /\ outbox = <<>> /\ workerContext = 0
  BY DEF Init
<1>3. page.dirty = Cells /\ page.context = 1 /\ Unacknowledged(page) \subseteq Cells
  BY <1>1 DEF Unacknowledged
<1>4. KnownOnPage(page)
  BY <1>3 DEF KnownOnPage, Affected, Cells
<1>5. Answered
  BY <1>2 DEF Answered
<1>6. NoEngine.dirty = {}
  BY DEF NoEngine
<1>7. CASE task = NoTask /\ inbox = <<>>
  BY <1>2, <1>3, <1>4, <1>5, <1>6, <1>7
     DEF DirtyInv, Covered, Tracked, Held, Rooted, Asked
<1>8. ASSUME NEW m,
             m = [id |-> 1, kind |-> "smart", roots |-> {},
                  snapshot |-> Snapshot(page), inputs |-> [c \in Cells |-> 0]],
             task.kind = "smart",
             inbox = <<m>>
      PROVE  DirtyInv
  <2>1. /\ Len(inbox) = 1 /\ inbox[1] = m
        /\ m.kind = "smart"
        /\ m.snapshot.dirty = page.dirty
        /\ \A f \in Formulas : m.snapshot.value[f] = Null
    BY <1>8 DEF Snapshot
  <2>2. Covered
    BY <1>2, <1>3, <1>6, <2>1 DEF Covered
  <2>3. Tracked
    BY <1>2, <1>3, <1>4, <2>1 DEF Tracked, Held, Rooted
  <2>4. Asked
    BY <1>8, <2>1 DEF Asked, Asks
  <2> QED
    BY <1>5, <2>2, <2>3, <2>4 DEF DirtyInv
<1> QED
  BY <1>1, <1>7, <1>8

LEMMA NextKeepsDirty ==
  ASSUME IInv, IInv', DirtyInv, [Next]_vars
  PROVE  DirtyInv'
<1>1. CASE \E c \in Cells : Edit(c)
  BY <1>1, EditKeepsDirty
<1>2. CASE ChangeVisibility
  BY <1>2, ChangeVisibilityKeepsDirty
<1>3. CASE \E mode \in {"automatic", "manual"} : SetMode(mode)
  BY <1>3, SetModeKeepsDirty DEF Modes
<1>4. CASE CalculateNow \/ CalculateFull \/ \E s \in {SheetOf[c] : c \in Cells} : CalculateSheet(s)
  BY <1>4, CommandsKeepDirty
<1>5. CASE WorkerHandles
  BY <1>5, WorkerHandlesKeepsDirty
<1>6. CASE Receive
  BY <1>6, ReceiveKeepsDirty
<1>7. CASE WorkerError
  BY <1>7, WorkerErrorKeepsDirty
<1>8. CASE UNCHANGED vars
  <2>1. UNCHANGED <<page, task, workerContext, worker, inbox, outbox, alone>>
    BY <1>8 DEF vars, port
  <2>2. Covered'
    BY <2>1 DEF DirtyInv, Covered, Unacknowledged
  <2>3. Tracked'
    BY <2>1 DEF DirtyInv, Tracked, KnownOnPage, Known, Held, Rooted, Unacknowledged
  <2>4. Asked'
    BY <2>1 DEF DirtyInv, Asked, Asks
  <2>5. Answered'
    BY <2>1 DEF DirtyInv, Answered, Complete, Known
  <2> QED
    BY <2>2, <2>3, <2>4, <2>5 DEF DirtyInv
<1> QED
  BY <1>1, <1>2, <1>3, <1>4, <1>5, <1>6, <1>7, <1>8 DEF Next

\* What the page and the worker hold as dirty covers all that is out of date, in
\* every state in which no sheet was calculated alone since everything was.
THEOREM DirtyIsTracked == Spec => []DirtyInv
<1>1. Init => DirtyInv
  BY InitHasDirty
<1>2. IInv /\ IInv' /\ DirtyInv /\ [Next]_vars => DirtyInv'
  BY NextKeepsDirty
<1> QED
  BY <1>1, <1>2, InvariantHolds, PTL DEF Spec

\* No edit is forgotten: whatever tasks were cancelled, failed or lost, and in
\* whatever order results and edits came, a formula whose value is not what the
\* texts of the page give depends on a root the page knows to be dirty, as long
\* as no sheet was calculated alone while roots outside it were dirty.
THEOREM NothingIsForgotten == Spec => []StaleIsDirtyUnlessAlone
<1>1. DirtyInv => StaleIsDirtyUnlessAlone
  BY TrackedIsStaleIsDirty DEF DirtyInv
<1> QED
  BY <1>1, DirtyIsTracked, PTL
=============================================================================
