--------------------------- MODULE MCAgentConfig ---------------------------
(* AgentConfig on small sets of processes and paths.                       *)
EXTENDS AgentConfig, TLC

Symmetry == {q @@ r : q \in Permutations(Inits), r \in Permutations(Binaries)}
=============================================================================
