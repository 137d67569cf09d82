----------------------------- MODULE Lifecycle -----------------------------
(***************************************************************************)
(* What an execution's row promises its readers: it is tried at most       *)
(* MaxAttempts times, waits between two tries, and once it has a final     *)
(* status keeps it.                                                        *)
(***************************************************************************)
EXTENDS Naturals

CONSTANT MaxAttempts

VARIABLES status, attempt

vars == <<status, attempt>>

Final == {"success", "failed_permanent", "failed_max_retries"}
Open  == {"queued", "running"}

Init == status = "queued" /\ attempt = 1

Run == status = "queued" /\ status' = "running" /\ UNCHANGED attempt

Retry ==
  /\ status \in Open
  /\ attempt < MaxAttempts
  /\ status' = "retry_wait"
  /\ attempt' = attempt + 1

Requeue == status = "retry_wait" /\ status' = "queued" /\ UNCHANGED attempt

Finish == status \in Open /\ status' \in Final /\ UNCHANGED attempt

Next == Run \/ Retry \/ Requeue \/ Finish

Spec == Init /\ [][Next]_vars
=============================================================================
