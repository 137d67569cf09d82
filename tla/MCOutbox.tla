------------------------------ MODULE MCOutbox ------------------------------
(* The instances of Outbox that TLC checks. *)
EXTENDS Outbox, TLC

Symmetry == Permutations(Relays)
=============================================================================
