-------------------------------- MODULE Queues --------------------------------
(***************************************************************************)
(* What remains of a queue, a stack or a document when some of its entries *)
(* leave it: the code calls filter on an array.                            *)
(***************************************************************************)
EXTENDS Integers, Sequences, FiniteSets

\* How many of the positions are not after k, and the i-th of them.
Rank(positions, k) == Cardinality({j \in positions : j <= k})

Nth(positions, i) == CHOOSE k \in positions : Rank(positions, k) = i

\* The entries at these positions, in their order.
Kept(s, positions) == [i \in 1 .. Cardinality(positions) |-> s[Nth(positions, i)]]
=============================================================================
