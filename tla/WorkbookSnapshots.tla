--------------------------- MODULE WorkbookSnapshots ---------------------------
(***************************************************************************)
(* The documents behind OperationLog: what commit, replay, undo and restore *)
(* do to the cells of one column of one sheet.  A formula cell refers to    *)
(* one row of that column; inserting and deleting rows rewrites it, and the *)
(* structural patch kept with the operation is what an undo repairs it with.*)
(***************************************************************************)
EXTENDS OperationLog, SequencesExt

CONSTANTS
  InitialDocuments, \* the documents a workbook may be created or imported with
  MaxRows           \* bound: no insertion makes a sheet longer than this

\* cached: the cell carries a formulaValue, as imported formulas do.
Cell == [kind : {"blank", "text", "reference", "lost"}, n : Nat, cached : BOOLEAN]
Blank == [kind |-> "blank", n |-> 0, cached |-> FALSE]

ASSUME CellsAssumption ==
  /\ Values \subseteq Cell
  /\ InitialDocuments \subseteq Seq(Cell) \ {<< >>}
  /\ MaxRows \in Nat

VARIABLES
  documents,   \* the document of each checkpoint row
  snapshot,    \* workbooks.snapshot_json
  patches,     \* the structural patches stored with each revision
  history      \* history variable: the document each revision was accepted as

documentVars == <<documents, snapshot, patches, history>>
allVars == <<vars, documentVars>>

-----------------------------------------------------------------------------
(* Reducing one mutation. *)

IsAxis(m) == m.id \in {"rows.inserted", "rows.deleted"}

InBounds(doc, m) ==
  CASE m.id = "rows.inserted" -> m.at \in 1 .. Len(doc) + 1 /\ Len(doc) < MaxRows
    [] m.id = "rows.deleted"  -> m.at \in 1 .. Len(doc)
    [] OTHER                  -> m.at >= 1

CellAt(doc, row) == IF row \in DOMAIN doc THEN doc[row] ELSE Blank

\* putCell extends the sheet to a cell written below it; removeCell does not.
Written(doc, m) ==
  IF m.at > Len(doc) /\ m.value = Blank
  THEN doc
  ELSE [row \in DOMAIN doc \cup 1 .. m.at |->
          IF row = m.at THEN m.value ELSE CellAt(doc, row)]

\* remapCells and setDimension: the last row of a sheet is cleared, not deleted.
Shifted(doc, m) ==
  IF m.id = "rows.inserted" THEN InsertAt(doc, m.at, Blank)
  ELSE IF Len(doc) = 1 THEN <<Blank>> ELSE RemoveAt(doc, m.at)

IsFormula(cell) == cell.kind \in {"reference", "lost"}
Formula(cell) == <<cell.kind, cell.n>>
WithFormula(cell, formula) ==
  [cell EXCEPT !.kind = formula[1], !.n = formula[2], !.cached = FALSE]

\* remapAxis on the formula of a cell.
Remapped(cell, m) ==
  IF cell.kind = "lost" \/ cell.n < m.at THEN Formula(cell)
  ELSE IF m.id = "rows.inserted" THEN <<"reference", cell.n + 1>>
  ELSE IF cell.n = m.at THEN <<"lost", 0>>
  ELSE <<"reference", cell.n - 1>>

\* The caches of all formula cells are dropped, also of those that keep theirs.
Reduced(doc, m) ==
  IF ~IsAxis(m)
  THEN Written(doc, m)
  ELSE LET shifted == Shifted(doc, m)
       IN  [row \in DOMAIN shifted |->
              IF IsFormula(shifted[row])
              THEN WithFormula(shifted[row], Remapped(shifted[row], m))
              ELSE shifted[row]]

\* Where the owner of a formula was before the axis moved.
RowBefore(row, m) ==
  IF row < m.at THEN row
  ELSE IF m.id = "rows.inserted" THEN row - 1
  ELSE row + 1

\* The formula owner deltas of a structural mutation.
GeneratedPatch(doc, m) ==
  IF ~IsAxis(m)
  THEN {}
  ELSE LET shifted == Shifted(doc, m)
       IN  {[from |-> RowBefore(row, m), to |-> row,
             before |-> Formula(shifted[row]), after |-> Remapped(shifted[row], m)] :
               row \in {r \in DOMAIN shifted :
                          /\ IsFormula(shifted[r])
                          /\ Formula(shifted[r]) # Remapped(shifted[r], m)}}

-----------------------------------------------------------------------------
(* Undoing a structural mutation with the patch of its target. *)

IsInverseAxis(original, m) ==
  /\ {original.id, m.id} = {"rows.inserted", "rows.deleted"}
  /\ original.at = m.at

\* The operation rows an undo intent names (none, or one).
TargetsOf(request) == {row \in operations : row.operationId = request.target}

Originals(m, target) ==
  {i \in DOMAIN target.mutations : IsInverseAxis(target.mutations[i], m)}

Inverted(patch) ==
  {[from |-> delta.to, to |-> delta.from,
    before |-> delta.after, after |-> delta.before] : delta \in patch}

NoInversePatch(m, targets) == {}

InversePatch(m, targets) ==
  UNION {UNION {Inverted(patches[target.revision][i]) : i \in Originals(m, target)} :
           target \in targets}

\* mergeStructuralPatches and applyStructuralOwnerPatch raise no error.
Repairable(doc, generated, inverse) ==
  /\ \A left \in generated, right \in inverse :
       left.to = right.to => left = right
  /\ \A delta \in inverse :
       /\ CellAt(doc, delta.to) # Blank
       /\ Formula(CellAt(doc, delta.to)) \in {delta.before, delta.after}

Repaired(doc, inverse) ==
  [row \in DOMAIN doc |->
     IF \E delta \in inverse : delta.to = row
     THEN WithFormula(doc[row], (CHOOSE delta \in inverse : delta.to = row).after)
     ELSE doc[row]]

\* One mutation of an operation: what commit and replay both do.  inverse is what
\* the patches of the targets repair.
ApplyMutation(state, m, targets, inverse) ==
  LET generated == GeneratedPatch(state.doc, m)
      ambiguous == \E target \in targets : Cardinality(Originals(m, target)) > 1
  IN  IF /\ state.ok
         /\ InBounds(state.doc, m)
         /\ ~ambiguous
         /\ Repairable(Reduced(state.doc, m), generated, inverse)
      THEN [doc     |-> Repaired(Reduced(state.doc, m), inverse),
            patches |-> Append(state.patches, generated \cup inverse),
            ok      |-> TRUE]
      ELSE [state EXCEPT !.ok = FALSE]

ApplyMutations(doc, mutations, targets, inverses) ==
  LET states[i \in 0 .. Len(mutations)] ==
        IF i = 0
        THEN [doc |-> doc, patches |-> << >>, ok |-> TRUE]
        ELSE ApplyMutation(states[i - 1], mutations[i], targets, inverses[i])
  IN  states[Len(mutations)]

ApplyOperation(doc, mutations, targets) ==
  ApplyMutations(doc, mutations, targets,
                 [i \in DOMAIN mutations |-> InversePatch(mutations[i], targets)])

-----------------------------------------------------------------------------
(* Replay. *)

RowAt(r) == CHOOSE row \in operations : row.revision = r

\* applyCommittedEnvelope, which also compares the patches it derives with the
\* stored ones, for each revision after the checkpoint.
ReplayFrom(doc, after, through) ==
  LET replayed[r \in after .. through] ==
        IF r = after
        THEN [doc |-> doc, ok |-> TRUE]
        ELSE LET row == RowAt(r)
                 applied == ApplyOperation(replayed[r - 1].doc, row.mutations,
                                           TargetsOf(row))
             IN  [doc |-> applied.doc,
                  ok  |-> /\ replayed[r - 1].ok
                          /\ applied.ok
                          /\ applied.patches = patches[r]]
  IN  replayed[through]

\* currentSnapshot and snapshotAtRevision.
DocumentAt(target) ==
  IF target = revision
  THEN ReplayFrom(snapshot, snapshotRevision, revision)
  ELSE LET c == CHOOSE c \in checkpoints : IsLatestCheckpoint(c, target)
       IN  ReplayFrom(documents[c], c, target)

-----------------------------------------------------------------------------
(* The handlers of OperationLog, with what they do to documents. *)

DocumentsInit ==
  \E doc \in InitialDocuments :
    /\ documents = [c \in {0} |-> doc]
    /\ snapshot = doc
    /\ patches = [r \in {} |-> << >>]
    /\ history = [r \in {0} |-> doc]

RecordRevision(r, doc, newPatches) ==
  /\ history' = [q \in DOMAIN history \cup {r} |-> IF q = r THEN doc ELSE history[q]]
  /\ patches' = [q \in DOMAIN patches \cup {r} |-> IF q = r THEN newPatches ELSE patches[q]]

SaveDocumentInCheckpoint(r, doc) ==
  /\ documents' = [c \in DOMAIN documents \cup {r} |-> IF c = r THEN doc ELSE documents[c]]
  /\ UNCHANGED snapshot

SaveDocument(r, doc) ==
  /\ snapshot' = doc
  /\ documents' = [c \in DOMAIN documents \cup {r} |-> IF c = r THEN doc ELSE documents[c]]

\* The documents between the mutations of an operation.
Intermediate(doc, mutations) ==
  LET docs[i \in 0 .. Len(mutations)] ==
        IF i = 0 THEN doc ELSE Reduced(docs[i - 1], mutations[i])
  IN  docs

\* structuralRemovedCellFacts, as the mutations that put the cells back.
RemovedCells(preimage, target) ==
  LET docs == Intermediate(preimage, target.mutations)
      Deleting == {i \in DOMAIN target.mutations :
                     /\ target.mutations[i].id = "rows.deleted"
                     /\ CellAt(docs[i - 1], target.mutations[i].at) # Blank}
  IN  {[id |-> "cell.restore", at |-> target.mutations[i].at,
        value |-> docs[i - 1][target.mutations[i].at]] : i \in Deleting}

\* validateStructuralUndoMutations: the axis mutations of the undo are the
\* inverses of those of its target, one for one; next to them it may only put
\* deleted cells back, unless the target did more than move rows.
MatchesTarget(mutations, target, preimage) ==
  /\ \A i \in DOMAIN target.mutations :
       IsAxis(target.mutations[i]) =>
         Cardinality({j \in DOMAIN mutations :
                        IsInverseAxis(target.mutations[i], mutations[j])}) = 1
  /\ \A j \in DOMAIN mutations :
       IsAxis(mutations[j]) => Originals(mutations[j], target) # {}
  /\ (\A i \in DOMAIN target.mutations : IsAxis(target.mutations[i])) =>
       \A j \in DOMAIN mutations :
         IsAxis(mutations[j]) \/ mutations[j] \in RemovedCells(preimage, target)

UndoRestores(request, candidate) ==
  \A target \in TargetsOf(request) :
    LET preimage == DocumentAt(target.revision - 1)
    IN  /\ preimage.ok
        /\ MatchesTarget(request.mutations, target, preimage.doc)
        /\ candidate = preimage.doc

CommitDocument(request, bytesReached) ==
  LET current == DocumentAt(revision)
      applied == ApplyOperation(current.doc, request.mutations, TargetsOf(request))
  IN  /\ snapshot = documents[snapshotRevision]
      /\ current.ok
      /\ applied.ok
      /\ UndoRestores(request, applied.doc)
      /\ RecordRevision(revision + 1, applied.doc, applied.patches)
      /\ IF ShouldCheckpoint(bytesReached)
         THEN SaveDocument(revision + 1, applied.doc)
         ELSE UNCHANGED <<documents, snapshot>>

CheckpointDocument ==
  LET current == DocumentAt(revision)
  IN  /\ snapshot = documents[snapshotRevision]
      /\ current.ok
      /\ SaveDocument(revision, current.doc)
      /\ UNCHANGED <<patches, history>>

RestoreDocument(target) ==
  LET restored == DocumentAt(target)
  IN  /\ restored.ok
      /\ RecordRevision(revision + 1, restored.doc, <<{}>>)
      /\ SaveDocument(revision + 1, restored.doc)

SnapshotsInit == Init /\ DocumentsInit

SnapshotsNext ==
  \/ \E request \in Requests, bytesReached \in BOOLEAN :
       Commit(request, bytesReached) /\ CommitDocument(request, bytesReached)
  \/ \E actor \in Actors : Checkpoint(actor) /\ CheckpointDocument
  \/ \E actor \in Actors, target \in 0 .. MaxRevision :
       Restore(actor, target) /\ RestoreDocument(target)
  \/ /\ \/ \E request \in Requests : Resubmit(request)
        \/ \E actor \in Actors, operationId \in OperationIds :
             OperationResult(actor, operationId)
        \/ \E actor \in Actors : MoveToTrash(actor) \/ RestoreFromTrash(actor)
     /\ UNCHANGED documentVars

SnapshotsSpec == SnapshotsInit /\ [][SnapshotsNext]_allVars

-----------------------------------------------------------------------------
(* What makes stored documents correct. *)

\* Reading any revision, now or later, by replaying the log from the checkpoint
\* before it, gives the document that revision was accepted as: the checkpoints
\* taken and the patches of undone operations never change what it was.
ReplayFaithful ==
  \A r \in 0 .. revision :
    DocumentAt(r).ok /\ DocumentAt(r).doc = history[r]

\* A client that wrote a cell on a stale base overwrote what it had seen there.
NoBlindOverwrite ==
  \A row \in operations : \A i \in DOMAIN row.mutations :
    row.mutations[i].id = "cell.set" /\ ~RequiresExactBase(row.mutations) =>
      CellAt(history[row.base], row.mutations[i].at)
        = CellAt(history[row.revision - 1], row.mutations[i].at)

\* The mutations the client keeps to take an operation back: the inverse of
\* each mutation, last first; a deleted row comes back with its cell.
InverseMutations(doc, m) ==
  CASE m.id = "rows.inserted" -> <<[m EXCEPT !.id = "rows.deleted", !.value = Blank]>>
    [] m.id = "rows.deleted"  ->
         <<[m EXCEPT !.id = "rows.inserted", !.value = Blank]>> \o
         (IF CellAt(doc, m.at) = Blank THEN << >>
          ELSE <<[m EXCEPT !.id = "cell.restore", !.value = CellAt(doc, m.at)]>>)
    [] OTHER -> <<[m EXCEPT !.id = "cell.restore", !.value = CellAt(doc, m.at)]>>

InverseOf(row) ==
  LET docs == Intermediate(history[row.revision - 1], row.mutations)
      plan[i \in 0 .. Len(row.mutations)] ==
        IF i = 0 THEN << >>
        ELSE InverseMutations(docs[i - 1], row.mutations[i]) \o plan[i - 1]
  IN  plan[Len(row.mutations)]

\* Two edits the sheet cannot take back: a write that made it longer, and the
\* deletion of its only row.
ChangesExtentForGood(row) ==
  LET docs == Intermediate(history[row.revision - 1], row.mutations)
  IN  \E i \in DOMAIN row.mutations :
        \/ ~IsAxis(row.mutations[i]) /\ row.mutations[i].at > Len(docs[i - 1])
        \/ row.mutations[i].id = "rows.deleted" /\ Len(docs[i - 1]) = 1

UndoAccepted(row) ==
  LET applied == ApplyOperation(history[revision], InverseOf(row), {row})
  IN  /\ MatchesTarget(InverseOf(row), row, history[row.revision - 1])
      /\ applied.ok
      /\ applied.doc = history[row.revision - 1]

\* While an operation is the latest one, the server accepts its inverse: the
\* stored patch repairs exactly the references the operation rewrote, also of
\* an operation that is itself an undo, and the document is what it was.
LatestUndoable ==
  \A row \in operations :
    /\ row.revision = revision
    /\ ~IsRestore(row)
    /\ ~ChangesExtentForGood(row)
    => UndoAccepted(row)

\* What the architecture document says of the structural patch: it records
\* reversible formula facts, so an insertion or deletion of rows can be undone.
\* It does not record the values that imported formulas carry.
StructuralEditsReversible ==
  \A row \in operations :
    /\ row.revision = revision
    /\ \A i \in DOMAIN row.mutations : IsAxis(row.mutations[i])
    /\ ~ChangesExtentForGood(row)
    => UndoAccepted(row)
=============================================================================
