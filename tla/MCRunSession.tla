---------------------------- MODULE MCRunSession ----------------------------
(* RunSession on small sets of processes, pids and paths.                  *)
EXTENDS RunSession, TLC

Symmetry == Permutations(Runs) \cup Permutations(Granters)
                \cup Permutations(Pids) \cup Permutations(Paths)
=============================================================================
