---------------------------- MODULE CalculationTasks ----------------------------
(***************************************************************************)
(* How the formulas of a workbook are calculated in the browser.  The page *)
(* keeps the texts, the last values and the roots that changed since;  a   *)
(* web worker keeps a copy of the texts and does all the calculation.  The *)
(* page sends the worker a snapshot when the context of the calculation    *)
(* changed, and otherwise the inputs the worker has not acknowledged.  A   *)
(* change cancels the task that is being calculated.                       *)
(*                                                                         *)
(* A text is the number of times it was changed, and the value of a        *)
(* formula its text with the values it was calculated from.  No formula    *)
(* depends on itself; spills, volatile functions and external links are    *)
(* left out.  "partial" mode behaves as "manual" here.                     *)
(***************************************************************************)
EXTENDS Integers, Sequences

CONSTANTS
  Inputs, Formulas,  \* the cells
  View,              \* which rows are visible, read by formulas as SUBTOTAL
  Reads,             \* the cells each formula refers to
  SheetOf,           \* the sheet of each cell
  MaxChanges,        \* bound: edits, changes of visibility and of mode
  MaxCommands,       \* bound: calculations the user asks for
  MaxFaults          \* bound: failed tasks and worker errors

Cells == Inputs \cup Formulas

ASSUME GraphAssumption ==
  /\ Inputs \cap Formulas = {} /\ View \notin Cells
  /\ Reads \in [Formulas -> SUBSET (Cells \cup {View})]
  /\ DOMAIN SheetOf = Cells

\* No formula depends on itself, directly or through others: of any formulas,
\* some read none of them.
ASSUME AcyclicAssumption ==
  \A S \in SUBSET Formulas : S # {} => \E f \in S : Reads[f] \cap S = {}

ASSUME BoundsAssumption ==
  MaxChanges \in Nat /\ MaxCommands \in Nat /\ MaxFaults \in Nat

VARIABLES
  page,              \* the page's engine, and its journal of inputs
  task,              \* the task the page waits for
  workerContext,     \* the context the worker has confirmed, 0 if none
  worker,            \* the worker's engine
  inbox, outbox,     \* tasks to the worker and results from it, in order
  changes, commands, faults,
  failed,            \* history: the last task failed, and none was sent since
  alone              \* history: one sheet was calculated with roots outside it

port == <<task, workerContext>>
bounds == <<changes, commands, faults>>
vars == <<page, port, worker, inbox, outbox, bounds, failed, alone>>

-----------------------------------------------------------------------------
(* The calculation itself.                                                 *)

\* The value of a cell that was not evaluated, an engine that does not exist.
Null == <<>>
NoEngine == [text |-> Null, value |-> Null, dirty |-> {}, mode |-> "none"]
NoTask == [id |-> 0, kind |-> "none", generation |-> 0, context |-> 0, revision |-> 0]

\* What a formula depends on, directly or through other formulas.
Sources ==
  LET source[f \in Formulas] == Reads[f] \cup UNION {source[g] : g \in Reads[f] \cap Formulas}
  IN  [f \in Formulas |-> source[f]]

\* The formulas to calculate again when these cells change.
Affected(roots) == {f \in Formulas : ({f} \cup Sources[f]) \cap roots # {}}

\* An affected formula, or a prerequisite that is dirty or was never evaluated.
Owners(e, affected) ==
  LET owner[f \in Formulas] ==
        \/ f \in affected
        \/ /\ e.value[f] = Null \/ f \in Affected(e.dirty)
           /\ \E g \in Formulas : f \in Reads[g] /\ owner[g]
  IN  {f \in Formulas : owner[f]}

Evaluated(e, owners) ==
  LET value[f \in Formulas] ==
        IF f \in owners
        THEN <<e.text[f], [c \in Reads[f] |-> IF c \in Formulas THEN value[c] ELSE e.text[c]]>>
        ELSE e.value[f]
  IN  [f \in Formulas |-> value[f]]

\* recalculateAllFormulas, recalculateRoots or recalculateSmart.
Targets(e, m) ==
  CASE m.kind = "full" -> Formulas
    [] m.kind = "roots" /\ m.roots # {} -> Affected(m.roots)
    [] OTHER -> Affected(e.dirty)

\* The roots that are still dirty after a task.
Remaining(e, m) ==
  IF m.kind = "roots" /\ m.roots # {} /\ e.mode # "automatic" THEN e.dirty \ m.roots ELSE {}

Calculated(e, m, owners) ==
  [e EXCEPT !.value = Evaluated(e, owners), !.dirty = Remaining(e, m)]

\* The worker's engine once it has the snapshot, or the inputs, of a task.
Bootstrapped(e, m) ==
  IF m.snapshot # NoEngine THEN m.snapshot
  ELSE [e EXCEPT !.text  = [c \in DOMAIN @ |-> IF c \in DOMAIN m.inputs THEN m.inputs[c] ELSE @[c]],
                 !.value = [f \in Formulas |-> IF f \in DOMAIN m.inputs THEN Null ELSE @[f]],
                 !.dirty = @ \cup DOMAIN m.inputs]

-----------------------------------------------------------------------------
(* The page's side of the port.                                            *)

Unacknowledged(p) == {c \in Cells : p.updates[c] # 0}

Snapshot(p) ==
  [text |-> p.text, value |-> [f \in Formulas |-> Null], dirty |-> p.dirty, mode |-> p.mode]

Message(p, kind, roots) ==
  [id       |-> changes + commands + 2,
   kind     |-> kind,
   roots    |-> roots,
   snapshot |-> IF workerContext # p.context THEN Snapshot(p) ELSE NoEngine,
   inputs   |-> [c \in Unacknowledged(p) |-> p.text[c]]]

\* Cancel the task the page waits for and send one.  A cancelled task is no
\* longer waited for; the worker finds the cancellation behind the task.
Send(m, p) ==
  /\ task' = [id |-> m.id, kind |-> m.kind, generation |-> p.generation,
              context |-> p.context, revision |-> p.sequence]
  /\ inbox' = Append(inbox, m)
  /\ failed' = FALSE

\* Mutant: an input counts as acknowledged as soon as it is sent.
SubmitAcknowledging(p, kind, roots) ==
  Send(Message(p, kind, roots), p) /\ page' = [p EXCEPT !.updates = [c \in Cells |-> 0]]

Submit(p, kind, roots) == Send(Message(p, kind, roots), p) /\ page' = p

Cancel(p) ==
  page' = p /\ task' = NoTask /\ UNCHANGED <<inbox, failed>>

Acknowledged(p, revision) ==
  [c \in Cells |-> IF p.updates[c] <= revision THEN 0 ELSE p.updates[c]]

\* Mutant: only what this change made dirty is calculated.
ChangeOwnRoots(p, automatic) ==
  /\ changes < MaxChanges
  /\ changes' = changes + 1
  /\ IF automatic THEN Submit(p, "roots", p.dirty \ page.dirty) ELSE Cancel(p)
  /\ UNCHANGED <<workerContext, worker, outbox, commands, faults, alone>>

\* A change of the page's engine, calculated at once unless the mode defers it.
Change(p, automatic) ==
  /\ changes < MaxChanges
  /\ changes' = changes + 1
  /\ IF automatic THEN Submit(p, "roots", p.dirty) ELSE Cancel(p)
  /\ UNCHANGED <<workerContext, worker, outbox, commands, faults, alone>>

\* A workbook is loaded: every cell is an input the worker does not have, and,
\* in automatic mode, everything is calculated.
Init ==
  /\ \E mode \in {"automatic", "manual"} :
       LET loaded == [text       |-> [c \in Cells \cup {View} |-> 0],
                      value      |-> [f \in Formulas |-> Null],
                      dirty      |-> Cells,
                      mode       |-> mode,
                      updates    |-> [c \in Cells |-> 1],
                      sequence   |-> 1,
                      generation |-> 1,
                      context    |-> 1]
       IN  /\ page = loaded
           /\ IF mode = "automatic"
              THEN /\ task = [id |-> 1, kind |-> "smart", generation |-> 1, context |-> 1,
                              revision |-> 1]
                   /\ inbox = <<[id |-> 1, kind |-> "smart", roots |-> {},
                                 snapshot |-> Snapshot(loaded), inputs |-> [c \in Cells |-> 0]]>>
              ELSE task = NoTask /\ inbox = <<>>
  /\ workerContext = 0 /\ worker = NoEngine /\ outbox = <<>>
  /\ changes = 0 /\ commands = 0 /\ faults = 0
  /\ failed = FALSE /\ alone = FALSE

-----------------------------------------------------------------------------
(* The user.                                                               *)

\* A cell is written.  When calculation is deferred the page evaluates the
\* formula that was entered itself, with everything it depends on.
Edit(c) ==
  LET text == [page EXCEPT !.text[c] = @ + 1,
                           !.value = [f \in Formulas |-> IF f = c THEN Null ELSE @[f]],
                           !.dirty = @ \cup {c},
                           !.updates[c] = page.sequence + 1,
                           !.sequence = @ + 1,
                           !.generation = @ + 1]
      edited == IF page.mode = "automatic" \/ c \notin Formulas THEN text
                ELSE [text EXCEPT !.value = Evaluated(text, {c} \cup (Sources[c] \cap Formulas))]
  IN  Change(edited, page.mode = "automatic")

\* Mutant: the visibility is a root itself, instead of the formulas that read it.
ChangeVisibilityRoot ==
  Change([page EXCEPT !.text[View] = @ + 1, !.dirty = @ \cup {View},
                      !.context = @ + 1, !.generation = @ + 1], TRUE)

\* Rows are hidden, shown or filtered: calculated in every mode.
ChangeVisibility ==
  Change([page EXCEPT !.text[View] = @ + 1,
                      !.dirty = @ \cup {f \in Formulas : View \in Reads[f]},
                      !.context = @ + 1,
                      !.generation = @ + 1], TRUE)

\* Mutant: switching to automatic calculates nothing.
SetModeOnly(mode) ==
  /\ mode # page.mode
  /\ Change([page EXCEPT !.mode = mode, !.context = @ + 1, !.generation = @ + 1], FALSE)

\* The user, or another one, defers calculation or stops deferring it.
SetMode(mode) ==
  /\ mode # page.mode
  /\ Change([page EXCEPT !.mode = mode, !.context = @ + 1, !.generation = @ + 1],
            mode = "automatic")

\* recalculateFormulas: a calculation the user asks for, in any mode.
Recalculate(kind, roots) ==
  /\ commands < MaxCommands
  /\ commands' = commands + 1
  /\ Submit(page, kind, roots)
  /\ UNCHANGED <<workerContext, worker, outbox, changes, faults>>

CalculateNow == Recalculate("smart", {}) /\ UNCHANGED alone

CalculateFull == Recalculate("full", {}) /\ UNCHANGED alone

SheetRoots(s) == {c \in page.dirty \cup Formulas : SheetOf[c] = s}

CalculateSheet(s) ==
  /\ Recalculate("roots", SheetRoots(s))
  /\ alone' = (alone \/ page.dirty \ SheetRoots(s) # {})

-----------------------------------------------------------------------------
(* The worker.                                                             *)

Result(m, status, values, dirty) ==
  [id |-> m.id, status |-> status, values |-> values, dirty |-> dirty]

Handles(m) ==
  LET e == Bootstrapped(worker, m)
      owners == Owners(e, Targets(e, m))
  IN  /\ worker' = Calculated(e, m, owners)
      /\ outbox' = Append(outbox,
           Result(m, "completed", [f \in owners |-> worker'.value[f]], worker'.dirty))
      /\ UNCHANGED faults

\* The calculation throws.  The inputs stay applied, and dirty; it may have
\* stored the values before.
Throws(m) ==
  LET e == Bootstrapped(worker, m)
  IN  /\ faults < MaxFaults
      /\ faults' = faults + 1
      /\ \/ worker' = e
         \/ worker' = [e EXCEPT !.value = Evaluated(e, Owners(e, Targets(e, m)))]
      /\ outbox' = Append(outbox, Result(m, "failed", Null, {}))

WorkerHandles ==
  /\ inbox # <<>>
  /\ Handles(Head(inbox)) \/ Throws(Head(inbox))
  /\ inbox' = Tail(inbox)
  /\ UNCHANGED <<page, port, changes, commands, failed, alone>>

\* The task a result is for is no longer waited for, or it failed, or the
\* result is of the state the page is still in.
Receive ==
  /\ outbox # <<>>
  /\ outbox' = Tail(outbox)
  /\ LET r == Head(outbox)
     IN  IF r.id # task.id THEN UNCHANGED <<page, port, failed, alone>>
         ELSE /\ task' = NoTask
              /\ IF r.status = "completed" /\ task.generation = page.generation
                 THEN /\ page' = [page EXCEPT
                           !.value = [f \in Formulas |-> IF f \in DOMAIN r.values
                                                         THEN r.values[f] ELSE @[f]],
                           !.dirty = r.dirty,
                           !.updates = Acknowledged(page, task.revision)]
                      /\ workerContext' = task.context
                      /\ alone' = (alone /\ task.kind # "full")
                      /\ UNCHANGED failed
                 ELSE failed' = (r.status = "failed") /\ UNCHANGED <<page, workerContext, alone>>
  /\ UNCHANGED <<worker, inbox, bounds>>

\* An error event of the worker: a task it did not handle, or a result the page
\* cannot read.
WorkerError ==
  /\ faults < MaxFaults
  /\ faults' = faults + 1
  /\ \/ inbox # <<>> /\ inbox' = Tail(inbox) /\ UNCHANGED outbox
     \/ outbox # <<>> /\ outbox' = Tail(outbox) /\ UNCHANGED inbox
  /\ task' = NoTask
  /\ failed' = (failed \/ task # NoTask)
  /\ UNCHANGED <<page, workerContext, worker, changes, commands, alone>>

Next ==
  \/ \E c \in Cells : Edit(c)
  \/ ChangeVisibility
  \/ \E mode \in {"automatic", "manual"} : SetMode(mode)
  \/ CalculateNow
  \/ CalculateFull
  \/ \E s \in {SheetOf[c] : c \in Cells} : CalculateSheet(s)
  \/ WorkerHandles
  \/ Receive
  \/ WorkerError

\* The worker takes the tasks it was sent, and the page's event loop its results.
Spec == Init /\ [][Next]_vars /\ WF_vars(WorkerHandles) /\ WF_vars(Receive)

-----------------------------------------------------------------------------
(* Properties.                                                             *)

Engines ==
  [text  : [Cells \cup {View} -> 0 .. MaxChanges],
   dirty : SUBSET Cells,
   mode  : {"automatic", "manual"}]

Core(e) == [text |-> e.text, dirty |-> e.dirty, mode |-> e.mode]

\* Type invariant.  In particular a task never carries roots or inputs that are
\* not cells, and the page waits for no task it did not send.
TypeOK ==
  /\ Core(page) \in Engines /\ DOMAIN page.value = Formulas
  /\ page.updates \in [Cells -> 0 .. page.sequence]
  /\ page.sequence \in 1 .. MaxChanges + 1
  /\ {page.generation, page.context} \subseteq 1 .. MaxChanges + 1
  /\ worker = NoEngine \/ (Core(worker) \in Engines /\ DOMAIN worker.value = Formulas)
  /\ task.id \in 0 .. MaxChanges + MaxCommands + 1
  /\ workerContext \in 0 .. page.context
  /\ \A i \in 1 .. Len(inbox) :
       inbox[i].roots \subseteq Cells /\ DOMAIN inbox[i].inputs \subseteq Cells
  /\ \A i \in 1 .. Len(outbox) : DOMAIN outbox[i].values \subseteq Formulas
  /\ faults \in 0 .. MaxFaults /\ failed \in BOOLEAN /\ alone \in BOOLEAN

\* A formula whose value is not what the texts of the page give.
Stale ==
  LET fresh == Evaluated(page, Formulas)
  IN  {f \in Formulas : page.value[f] # fresh[f]}

\* Nothing is forgotten: what is out of date depends on a root the page knows
\* to be dirty, so that the next calculation covers it.
\* (docs/structural-runtime-redesign.md:1987, the comment of recalculateSmart)
StaleIsDirty == Stale \subseteq Affected(page.dirty)

\* The same, as long as no sheet was calculated alone while roots outside it
\* were dirty, since the last calculation of everything: whatever tasks were
\* cancelled, failed or lost, and in whatever order results and edits came.
StaleIsDirtyUnlessAlone == alone \/ StaleIsDirty

\* When the page would send no snapshot, the worker has the page's context and
\* every text the page does not still hold for it, and no task on its way to the
\* worker changes either: no lost task or cancelled calculation loses an input,
\* and no late one brings an old text back.
WorkerInStep ==
  workerContext = page.context =>
    /\ worker.mode = page.mode
    /\ \A c \in Cells \cup {View} :
         c \notin Unacknowledged(page) => worker.text[c] = page.text[c]
    /\ \A i \in DOMAIN inbox :
         /\ inbox[i].snapshot = NoEngine
         /\ DOMAIN inbox[i].inputs \subseteq Unacknowledged(page)

\* In automatic mode the formulas come up to date, and nothing stays marked as
\* dirty, unless the last task failed or a sheet was calculated alone.
EditsReachFormulas ==
  (Stale # {} \/ page.dirty # {})
    ~> \/ Stale = {} /\ page.dirty = {}
       \/ page.mode = "manual" \/ failed \/ alone

=============================================================================
