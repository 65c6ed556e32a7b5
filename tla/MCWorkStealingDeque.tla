------------------------- MODULE MCWorkStealingDeque -------------------------
(* A ring of four slots that wraps around, the reserve of two pushes *)
(* being smaller than what an interaction may push.                        *)
EXTENDS WorkStealingDeque, TLC

Symmetry == Permutations(Tasks)
=============================================================================
