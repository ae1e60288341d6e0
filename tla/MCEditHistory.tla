---------------------------- MODULE MCEditHistory ----------------------------
(* EditHistory for TLC: a sheet of two rows. *)
EXTENDS EditHistory

StartRows == <<101, 102>>
=============================================================================
