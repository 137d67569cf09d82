------------------------------ MODULE MCMerger ------------------------------
(* The instance of Merger that TLC checks: two executions tried once each,  *)
(* or one tried twice.                                                      *)
EXTENDS Merger, TLC

CONSTANTS e1, e2

TwoOnceOneTwice == {(e1 :> 1) @@ (e2 :> 1), (e1 :> 2) @@ (e2 :> 0)}
=============================================================================
