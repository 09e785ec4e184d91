------------------------------- MODULE MCShip -------------------------------
(* Ship on small sets of processes.                                        *)
EXTENDS Ship, TLC

(* Ship runs are interchangeable, and so are hooks.                        *)
Symmetry == Permutations(Recorders) \cup Permutations(Shippers)
=============================================================================
