------------------------------ MODULE MCJobApi ------------------------------
(* The instances of JobApi that TLC checks. *)
EXTENDS JobApi, TLC

Symmetry == Permutations(Requests)
=============================================================================
