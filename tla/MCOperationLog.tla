---------------------------- MODULE MCOperationLog ----------------------------
(***************************************************************************)
(* The instance of OperationLog that TLC checks: an owner and an editor who *)
(* submit operations that collide in every way the commit handler tells     *)
(* apart.                                                                  *)
(***************************************************************************)
EXTENDS OperationLog

CONSTANTS alice, bob, a1, a2, a3, b1, b2, tab

MCRoleOf == [actor \in {alice, bob} |-> IF actor = alice THEN "owner" ELSE "editor"]

Set(row)    == [id |-> "cell.set", at |-> row, value |-> 1]
Insert(row) == [id |-> "rows.inserted", at |-> row, value |-> 0]
Delete(row) == [id |-> "rows.deleted", at |-> row, value |-> 0]

Request(id, actor, sequence, base, mutations) ==
  [operationId |-> id, actor |-> actor, session |-> tab,
   sequence |-> sequence, base |-> base, mutations |-> mutations,
   target |-> NoOperation, targetBase |-> 0]

Undo(request, target, targetBase) ==
  [request EXCEPT !.target = target, !.targetBase = targetBase]

MCRequests ==
  {\* the owner writes row 1 and then undoes it, or writes row 2 instead
   Request(a1, alice, 1, 0, <<Set(1)>>),
   Undo(Request(a2, alice, 2, 1, <<Set(1)>>), a1, 0),
   Request(a2, alice, 2, 0, <<Set(2)>>),
   \* the owner undoes the undo
   Undo(Request(a3, alice, 3, 2, <<Set(1)>>), a2, 1),
   \* the owner numbers a different operation with a used sequence
   Request(a3, alice, 1, 0, <<Set(2)>>),
   \* the editor writes the same row or another one, on a base that may be stale
   Request(b1, bob, 1, 0, <<Set(1)>>),
   Request(b1, bob, 1, 0, <<Set(2)>>),
   Request(b1, bob, 1, 1, <<Set(3)>>),
   \* the editor moves rows, or repeats the identity of the owner
   Request(b2, bob, 2, 1, <<Set(2), Insert(1)>>),
   Request(a1, bob, 2, 1, <<Set(3)>>),
   \* undo of the operation of another subject, and of a restore
   Undo(Request(b2, bob, 2, 1, <<Set(1)>>), a1, 0),
   Undo(Request(b2, bob, 2, 1, <<Set(1)>>), 1, 0)}
=============================================================================
