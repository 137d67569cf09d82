------------------------------ MODULE Handoff ------------------------------
(***************************************************************************)
(* The promise of the outbox: a message becomes due when a transaction     *)
(* commits it, and a due message is sent, once.                            *)
(***************************************************************************)
EXTENDS Naturals

CONSTANT Messages

VARIABLES
  due,   \* the messages committed so far
  sent   \* how often each message has been sent

vars == <<due, sent>>

Init == due = {} /\ sent = [m \in Messages |-> 0]

\* One transaction commits a batch.
Commit(S) == due' = due \cup S /\ UNCHANGED sent

Send(m) ==
  /\ m \in due
  /\ sent[m] = 0
  /\ sent' = [sent EXCEPT ![m] = 1]
  /\ UNCHANGED due

Next == (\E S \in SUBSET Messages : Commit(S)) \/ (\E m \in Messages : Send(m))

Spec == Init /\ [][Next]_vars

FairSpec == Spec /\ \A m \in Messages : WF_vars(Send(m))
=============================================================================
