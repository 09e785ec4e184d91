------------------------------ MODULE MCPrune ------------------------------
(* Prune on small sets of processes.                                       *)
EXTENDS Prune, TLC

Symmetry == Permutations(Recorders)
=============================================================================
