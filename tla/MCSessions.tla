----------------------------- MODULE MCSessions -----------------------------
(* The instance of Sessions that TLC checks. *)
EXTENDS Sessions, TLC

Symmetry == Permutations(Requests)
=============================================================================
