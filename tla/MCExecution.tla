---------------------------- MODULE MCExecution ----------------------------
(* The instances of Execution that TLC checks. *)
EXTENDS Execution, TLC

Symmetry == Permutations(Workers)
=============================================================================
