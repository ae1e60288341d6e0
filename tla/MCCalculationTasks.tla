---------------------------- MODULE MCCalculationTasks ----------------------------
(* An input and a formula on the first sheet; on the second, a formula of   *)
(* that formula and of the visibility of the rows, and one of the input.    *)
EXTENDS CalculationTasks, TLC

CONSTANTS a1, f1, f2, g2, s1, s2, rows

MCReads == f1 :> {a1} @@ f2 :> {f1, rows} @@ g2 :> {a1}
MCSheetOf == a1 :> s1 @@ f1 :> s1 @@ f2 :> s2 @@ g2 :> s2
=============================================================================
