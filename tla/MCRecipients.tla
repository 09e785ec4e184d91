---------------------------- MODULE MCRecipients ----------------------------
(* Recipients on small sets of admins, processes and chains.               *)
EXTENDS Recipients, TLC

Symmetry == Permutations(Admins \ {Founder}) \cup Permutations(Enrollers)
                \cup Permutations(Shippers) \cup Permutations(Chains)
=============================================================================
