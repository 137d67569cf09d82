------------------------------ MODULE MCTeams ------------------------------
(* The instance of Teams that TLC checks. *)
EXTENDS Teams, TLC

Symmetry == Permutations(Users) \cup Permutations(Invites) \cup Permutations(Requests)
=============================================================================
