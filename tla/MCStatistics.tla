---------------------------- MODULE MCStatistics ----------------------------
(* Client IDs are alike: nothing orders them.                              *)
EXTENDS Statistics

Symmetry == Permutations(Clients)
=============================================================================
