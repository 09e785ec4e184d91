---------------------------- MODULE MCSessionLog ----------------------------
(* SessionLog on small sets of processes.                                  *)
EXTENDS SessionLog, TLC

(* Hook processes are interchangeable.                                     *)
Symmetry == Permutations(Recorders)
=============================================================================
