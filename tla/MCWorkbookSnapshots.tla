-------------------------- MODULE MCWorkbookSnapshots --------------------------
(***************************************************************************)
(* The instance of WorkbookSnapshots that TLC checks: the owner deletes or  *)
(* inserts a row that formulas refer to, undoes that, and undoes the undo,  *)
(* while the editor writes cells on bases that may be stale.               *)
(***************************************************************************)
EXTENDS WorkbookSnapshots

CONSTANTS alice, bob, a1, a2, a3, b1, b2, tab

MCRoleOf == [actor \in {alice, bob} |-> IF actor = alice THEN "owner" ELSE "editor"]

Text(n)      == [kind |-> "text", n |-> n, cached |-> FALSE]
Reference(n) == [kind |-> "reference", n |-> n, cached |-> FALSE]
Imported(n)  == [kind |-> "reference", n |-> n, cached |-> TRUE]
MCValues == {Blank, Text(1), Text(2), Reference(1), Reference(2), Reference(3)}

MCInitialDocuments ==
  {<<Reference(2), Text(1), Reference(1)>>, <<Reference(3), Reference(2), Text(1)>>}

\* A document imported from a workbook file, with the values its formulas had.
ImportedDocuments == {<<Text(1), Text(2), Imported(1)>>}

Write(row, value)   == [id |-> "cell.set", at |-> row, value |-> value]
PutBack(row, value) == [id |-> "cell.restore", at |-> row, value |-> value]
InsertRow(row)      == [id |-> "rows.inserted", at |-> row, value |-> Blank]
DeleteRow(row)      == [id |-> "rows.deleted", at |-> row, value |-> Blank]

Request(id, actor, sequence, base, mutations) ==
  [operationId |-> id, actor |-> actor, session |-> tab,
   sequence |-> sequence, base |-> base, mutations |-> mutations,
   target |-> NoOperation, targetBase |-> 0]

Undo(request, target) ==
  [request EXCEPT !.target = target, !.targetBase = request.base - 1]

Edits == {<<DeleteRow(2)>>, <<InsertRow(2)>>, <<Write(2, Reference(1)), InsertRow(1)>>}
Undos == {<<InsertRow(2), PutBack(2, Text(1))>>,
          <<InsertRow(2), PutBack(2, Reference(2))>>,
          <<DeleteRow(2)>>,
          <<DeleteRow(1), PutBack(2, Text(1))>>}
Redos == {<<PutBack(2, Blank), DeleteRow(2)>>, <<InsertRow(2)>>,
          <<PutBack(2, Reference(1)), InsertRow(1)>>}

MCRequests ==
  {Request(a1, alice, 1, base, edit) : base \in 0 .. 1, edit \in Edits}
  \cup {Undo(Request(a2, alice, 2, base, undo), a1) : base \in 1 .. 2, undo \in Undos}
  \cup {Undo(Request(a3, alice, 3, base, redo), a2) : base \in 2 .. 3, redo \in Redos}
  \cup {Request(b1, bob, 1, base, <<Write(1, Reference(3))>>) : base \in 0 .. 2}
  \cup {Request(b2, bob, 2, base, <<Write(4, Text(2))>>) : base \in 0 .. 2}
=============================================================================
