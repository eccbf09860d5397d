---------------------------- MODULE MCEdgeUsage ----------------------------
(* EdgeUsage with interchangeable routes and file names. *)
EXTENDS EdgeUsage, TLC

Symmetry == Permutations(Routes) \union Permutations(Files)
=============================================================================
