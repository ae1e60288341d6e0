---------------------------- MODULE MCCollaboration ----------------------------
(***************************************************************************)
(* The instance of Collaboration: a page that writes the cells a and b,    *)
(* one each, while another page writes a.                                  *)
(***************************************************************************)
EXTENDS Collaboration

CONSTANTS write, beside, same, a, b

MCTouches ==
  [id \in Operations |-> IF id = beside THEN {b} ELSE {a}]
=============================================================================
