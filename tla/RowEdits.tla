------------------------------ MODULE RowEdits ------------------------------
(***************************************************************************)
(* A sheet seen as one column of cells, and the three kinds of mutations   *)
(* that the page and the server apply to it: a cell is set, a row is       *)
(* inserted, with the cell it is to hold, a row is deleted.  A mutation    *)
(* concerns one row; rows are numbered from 1.                             *)
(*                                                                         *)
(* Every function here is the same in the browser and on the server.       *)
(***************************************************************************)
EXTENDS Integers, Sequences

Blank == 0

Document == Seq(Int)

Mutation == [kind : {"set", "insert", "delete"}, at : Nat \ {0}, cell : Int]

\* Rows move: the kinds that the server and the transforms call structural.
Moves(m) == m.kind # "set"

\* The only row of a sheet is never deleted: the server clears it instead.
InBounds(doc, m) ==
  CASE m.kind = "set"    -> m.at \in 1 .. Len(doc)
    [] m.kind = "insert" -> m.at \in 1 .. Len(doc) + 1
    [] m.kind = "delete" -> m.at \in 1 .. Len(doc) /\ Len(doc) > 1

Applied(doc, m) ==
  CASE m.kind = "set"    -> [doc EXCEPT ![m.at] = m.cell]
    [] m.kind = "insert" -> [i \in 1 .. Len(doc) + 1 |->
                               IF i < m.at THEN doc[i]
                               ELSE IF i = m.at THEN m.cell ELSE doc[i - 1]]
    [] m.kind = "delete" -> [i \in 1 .. Len(doc) - 1 |->
                               IF i < m.at THEN doc[i] ELSE doc[i + 1]]

\* What a mutation writes over.
Under(doc, m) == IF m.kind = "insert" THEN Blank ELSE doc[m.at]

\* The mutation that takes m back, when m is applied to doc.
Inverted(doc, m) ==
  [kind |-> CASE m.kind = "set"    -> "set"
              [] m.kind = "insert" -> "delete"
              [] m.kind = "delete" -> "insert",
   at   |-> m.at,
   cell |-> Under(doc, m)]

\* The ranges of two mutations overlap.
SameRow(m, n) == m.at = n.at

\* Mutant: an insertion leaves its own row in place.
RowAfterBelow(row, m) ==
  CASE m.kind = "set"    -> row
    [] m.kind = "insert" -> IF row > m.at THEN row + 1 ELSE row
    [] m.kind = "delete" -> IF row >= m.at THEN row - 1 ELSE row

\* mapPoint: where a row is after m.  A row m deletes has no place; the callers
\* refuse it before they ask.
RowAfter(row, m) ==
  CASE m.kind = "set"    -> row
    [] m.kind = "insert" -> IF row >= m.at THEN row + 1 ELSE row
    [] m.kind = "delete" -> IF row >= m.at THEN row - 1 ELSE row

\* n, made for a document, as it is to be applied once m was applied first.
Rebased(n, m) == [n EXCEPT !.at = RowAfter(n.at, m)]
=============================================================================
