----------------------------- MODULE Execution -----------------------------
(***************************************************************************)
(* One execution, from the stream to its final status: the workers that    *)
(* take its entries, the recovery process that reclaims abandoned ones,    *)
(* the retry sweep, and the merger that applies results to its row.        *)
(*                                                                         *)
(* A worker here is one of a worker process's concurrent jobs.  An         *)
(* execution has one entry in the stream per push; Outbox models how a     *)
(* committed attempt becomes an entry, and here that takes one step.       *)
(* Executions share no state but the job's enabled flag, so one is enough. *)
(*                                                                         *)
(* Abstracted: the HTTP call is its outcome, time is any moment (a claim   *)
(* of an entry nobody works on is past its idle threshold), the results    *)
(* stream is applied in order and one event at a time (see Merger).        *)
(***************************************************************************)
EXTENDS Naturals, Sequences

CONSTANTS
  Workers,       \* concurrent jobs of the worker processes
  MaxAttempts,   \* http_jobs.max_attempts
  Once,          \* schedule_type is ONCE
  Strategies,    \* whether a job's retry delay is computed from the attempt
  FirstCarries,  \* the attempt fields a first push's payload may carry
  MaxDelivery,   \* MAX_DELIVERY_COUNT
  Stalls,        \* a live worker may outlast recovery's safety margin
  MaxFaults      \* bound: how many crashes and errors happen

\* The fast path's payload has no attempt field; the outbox row's has 1.
Missing == 0

ASSUME ExecutionAssumption ==
  /\ "recovery" \notin Workers
  /\ MaxAttempts \in Nat \ {0}
  /\ Once \in BOOLEAN
  /\ Strategies \subseteq BOOLEAN
  /\ FirstCarries \subseteq {Missing, 1}
  /\ MaxDelivery \in Nat
  /\ Stalls \in BOOLEAN
  /\ MaxFaults \in Nat

Actors == Workers \cup {"recovery"}
Final  == {"success", "failed_permanent", "failed_max_retries"}

VARIABLES
  computes,        \* the job's retry delay is computed from the attempt
  status, attempt, \* the job_executions row
  enabled,         \* http_jobs.enabled
  hash,            \* the execution's field of the status hash; "none": absent
  due,             \* attempts committed to the outbox and not pushed yet
  entries,         \* the execution's stream entries, in order of their push
  results,         \* its events in the results stream, not applied yet
  clearing,        \* the merger has applied a result and not cleared the hash
  pc,              \* per actor: the step it does next
  holds,           \* per actor: the entry it works on; 0: none
  out,             \* per actor: the outcome, then the final status, in hand
  lock,            \* who holds recovery:lock:<id>; "none"
  calls,           \* history: HTTP calls made
  reports,         \* history: completed events pushed
  concluded,       \* history: a final status has been recorded or reported
  faults           \* how many faults have happened

rowVars    == <<computes, status, attempt>>
actorVars  == <<pc, holds, out>>
history    == <<calls, reports, concluded>>
vars == <<rowVars, enabled, hash, due, entries, results, clearing, actorVars,
          lock, history, faults>>

Init ==
  /\ computes \in Strategies
  /\ status = "queued" /\ attempt = 1
  /\ enabled = TRUE
  /\ hash = "none"
  /\ due = {1}
  /\ entries = << >>
  /\ results = << >>
  /\ clearing = FALSE
  /\ pc = [a \in Actors |-> "idle"]
  /\ holds = [a \in Actors |-> 0]
  /\ out = [a \in Actors |-> "none"]
  /\ lock = "none"
  /\ calls = 0 /\ reports = 0 /\ concluded = FALSE
  /\ faults = 0

-----------------------------------------------------------------------------
(* What the actions are built from.                                        *)

Fault == faults < MaxFaults /\ faults' = faults + 1

At(a, step) == pc[a] = step
Goto(a, step) == pc' = [pc EXCEPT ![a] = step] /\ UNCHANGED holds
Leave(a) == /\ pc' = [pc EXCEPT ![a] = "idle"]
            /\ holds' = [holds EXCEPT ![a] = 0]
            /\ out' = [out EXCEPT ![a] = "none"]
            /\ lock' = IF lock = a THEN "none" ELSE lock

Carried(a) == entries[holds[a]].carries

\* attempt >= job.max_attempts, where undefined >= n is false
Exhausted(a) == Carried(a) # Missing /\ Carried(a) >= MaxAttempts

\* computeDelaySeconds(job, undefined + 1) is NaN for these strategies, and
\* Postgres rejects the invalid retry_at.
NoDelay(a) == computes /\ Carried(a) = Missing

\* markExecutionRetryWait: unconditional on the row's status and attempt.
RetryWait(a) ==
  /\ status' = "retry_wait"
  /\ attempt' = attempt + 1
  /\ UNCHANGED computes
  /\ entries' = [entries EXCEPT ![holds[a]].retries = @ + 1]

\* Mutant: the job is never disabled.
DisableNever == UNCHANGED enabled

DisableOnce == enabled' = (enabled /\ ~Once)

-----------------------------------------------------------------------------
(* The outbox and the retry sweep.                                         *)

\* runRetrySweep's transaction: claimDueRetries and the outbox upsert.
RetrySweep ==
  /\ status = "retry_wait"
  /\ status' = "queued"
  /\ due' = due \cup {attempt}
  /\ UNCHANGED <<computes, attempt, enabled, hash, entries, results, clearing, actorVars,
                 lock, history, faults>>

\* A committed attempt reaches the stream.
Push(n) ==
  /\ n \in due
  /\ due' = due \ {n}
  /\ \E c \in (IF n = 1 THEN FirstCarries ELSE {n}) :
       entries' = Append(entries, [carries |-> c, state |-> "new",
                                   deliveries |-> 0, retries |-> 0])
  /\ UNCHANGED <<rowVars, enabled, hash, results, clearing, actorVars, lock,
                 history, faults>>

-----------------------------------------------------------------------------
(* The worker: startWorker, processJob, handleExecution.                   *)

\* XREADGROUP ">"
Take(w, i) ==
  /\ At(w, "idle")
  /\ entries[i].state = "new"
  /\ \A j \in 1 .. (i - 1) : entries[j].state # "new"
  /\ entries' = [entries EXCEPT ![i].state = "pending", ![i].deliveries = 1]
  /\ pc' = [pc EXCEPT ![w] = "begin"]
  /\ holds' = [holds EXCEPT ![w] = i]
  /\ UNCHANGED <<rowVars, enabled, hash, due, results, clearing, out, lock,
                 history, faults>>

\* The running status and the running event; a failed HSET is swallowed.
Begin(w) ==
  /\ At(w, "begin")
  /\ \/ hash' = "running" /\ UNCHANGED faults
     \/ Fault /\ UNCHANGED hash
  /\ results' = Append(results, "running")
  /\ Goto(w, "call")
  /\ UNCHANGED <<rowVars, enabled, due, entries, clearing, out, lock, history>>

\* The XADD is outside processJob's try: its rejection takes the worker down.
BeginFails(w) ==
  /\ At(w, "begin")
  /\ Fault
  /\ hash' \in {hash, "running"}
  /\ Leave(w)
  /\ UNCHANGED <<rowVars, enabled, due, entries, results, clearing, history>>

\* executeHttpJob, and classifyFailure of a failed result
Call(w) ==
  /\ At(w, "call")
  /\ calls' = calls + 1
  /\ \E o \in {"success", "failed_permanent", "retryable"} :
       out' = [out EXCEPT ![w] = o]
  /\ Goto(w, "settle")
  /\ UNCHANGED <<rowVars, enabled, hash, due, entries, results, clearing, lock,
                 reports, concluded, faults>>

WillRetry(w) == out[w] = "retryable" /\ ~Exhausted(w)

\* Mutant: the classification is taken for the status.
SettleUnnamed(w) ==
  /\ At(w, "settle")
  /\ ~WillRetry(w)
  /\ DisableOnce
  /\ Goto(w, "record")
  /\ UNCHANGED <<rowVars, hash, due, entries, results, clearing, out, lock, history,
                 faults>>

SettleFinal(w) ==
  /\ At(w, "settle")
  /\ ~WillRetry(w)
  /\ DisableOnce
  /\ out' = [out EXCEPT ![w] = IF @ = "retryable" THEN "failed_max_retries" ELSE @]
  /\ Goto(w, "record")
  /\ UNCHANGED <<rowVars, hash, due, entries, results, clearing, lock, history,
                 faults>>

\* Mutant: every failure disables the job.
SettleRetryDisables(w) ==
  /\ At(w, "settle")
  /\ WillRetry(w)
  /\ ~NoDelay(w)
  /\ RetryWait(w)
  /\ DisableOnce
  /\ Goto(w, "ack")
  /\ UNCHANGED <<hash, due, results, clearing, out, lock, history, faults>>

SettleRetry(w) ==
  /\ At(w, "settle")
  /\ WillRetry(w)
  /\ ~NoDelay(w)
  /\ RetryWait(w)
  /\ Goto(w, "ack")
  /\ UNCHANGED <<enabled, hash, due, results, clearing, out, lock, history, faults>>

\* Mutant: the error is swallowed and the entry acknowledged.
SettleSwallows(w) ==
  /\ At(w, "settle")
  /\ IF WillRetry(w) /\ NoDelay(w) THEN UNCHANGED faults ELSE Fault
  /\ Goto(w, "ack")
  /\ UNCHANGED <<rowVars, enabled, hash, due, entries, results, clearing, out,
                 lock, history>>

\* The statement throws, always when there is no delay: over to recovery.
SettleFails(w) ==
  /\ At(w, "settle")
  /\ IF WillRetry(w) /\ NoDelay(w) THEN UNCHANGED faults ELSE Fault
  /\ Goto(w, "handoff")
  /\ UNCHANGED <<rowVars, enabled, hash, due, entries, results, clearing, out,
                 lock, history>>

-----------------------------------------------------------------------------
(* Recovery: recoverExecution, run by the recovery process on an entry it  *)
(* claims, or by a worker on the entry it could not finish.                *)

\* The worker's own call takes the execution's lock, or gives up on it.
Handoff(w) ==
  /\ At(w, "handoff")
  /\ IF lock = "none"
       THEN lock' = w /\ Goto(w, "check") /\ UNCHANGED out
       ELSE Leave(w)
  /\ UNCHANGED <<rowVars, enabled, hash, due, entries, results, clearing, history,
                 faults>>

\* Mutant: an entry at MAX_DELIVERY_COUNT is not claimed any more.
ClaimBelowMax(i) ==
  /\ At("recovery", "idle")
  /\ entries[i].state = "pending"
  /\ entries[i].deliveries < MaxDelivery
  /\ IF \A w \in Workers : holds[w] # i THEN UNCHANGED faults ELSE Stalls /\ Fault
  /\ entries' = [entries EXCEPT ![i].deliveries = @ + 1]
  /\ pc' = [pc EXCEPT !["recovery"] = "check"]
  /\ holds' = [holds EXCEPT !["recovery"] = i]
  /\ UNCHANGED <<rowVars, enabled, hash, due, results, clearing, out, lock, history>>

\* runRecoveryCycle and XCLAIM: an entry whose worker is gone, or is slower
\* than its timeout and the safety margin together.
Claim(i) ==
  /\ At("recovery", "idle")
  /\ entries[i].state = "pending"
  /\ IF \A w \in Workers : holds[w] # i THEN UNCHANGED faults ELSE Stalls /\ Fault
  /\ entries' = [entries EXCEPT ![i].deliveries = @ + 1]
  /\ pc' = [pc EXCEPT !["recovery"] = "check"]
  /\ holds' = [holds EXCEPT !["recovery"] = i]
  /\ UNCHANGED <<rowVars, enabled, hash, due, results, clearing, out, lock, history>>

\* Past MAX_DELIVERY_COUNT; the worker's own call does not count deliveries.
Poisoned(a) == a = "recovery" /\ entries[holds[a]].deliveries > MaxDelivery

\* The status hash, or the row when the hash has nothing or cannot be read.
Check(a) ==
  /\ At(a, "check")
  /\ \E seen \in {hash, "none"} :
       LET known == IF seen = "none" THEN status ELSE seen
       IN  /\ IF seen = hash THEN UNCHANGED faults ELSE Fault
           /\ \/ known \in Final /\ Goto(a, "drop") /\ UNCHANGED out
              \/ /\ known \notin Final /\ Poisoned(a)
                 /\ Goto(a, "rerecord")
                 /\ out' = [out EXCEPT ![a] = "failed_max_retries"]
              \/ known \notin Final /\ ~Poisoned(a) /\ Goto(a, "resettle") /\ UNCHANGED out
  /\ UNCHANGED <<rowVars, enabled, hash, due, entries, results, clearing, lock,
                 history>>

ResettleRetry(a) ==
  /\ At(a, "resettle")
  /\ ~Exhausted(a) /\ ~NoDelay(a)
  /\ RetryWait(a)
  /\ Goto(a, "drop")
  /\ UNCHANGED <<enabled, hash, due, results, clearing, out, lock, history, faults>>

ResettleFinal(a) ==
  /\ At(a, "resettle")
  /\ Exhausted(a)
  /\ DisableOnce
  /\ out' = [out EXCEPT ![a] = "failed_max_retries"]
  /\ Goto(a, "rerecord")
  /\ UNCHANGED <<rowVars, hash, due, entries, results, clearing, lock, history,
                 faults>>

\* The transaction fails and is rolled back: the entry is left in place.
ResettleFails(a) ==
  /\ At(a, "resettle")
  /\ IF ~Exhausted(a) /\ NoDelay(a) THEN UNCHANGED faults ELSE Fault
  /\ Leave(a)
  /\ UNCHANGED <<rowVars, enabled, hash, due, entries, results, clearing, history>>

-----------------------------------------------------------------------------
(* The last steps, common to both.                                         *)

After(step) == CASE step = "record"   -> "report"
                 [] step = "rerecord" -> "rereport"
                 [] step = "report"   -> "ack"
                 [] step = "rereport" -> "drop"

\* recordExecutionStatus, final; a failed HSET is swallowed.
Record(a) ==
  /\ pc[a] \in {"record", "rerecord"}
  /\ \/ hash' = out[a] /\ concluded' = TRUE /\ UNCHANGED faults
     \/ Fault /\ UNCHANGED <<hash, concluded>>
  /\ Goto(a, After(pc[a]))
  /\ UNCHANGED <<rowVars, enabled, due, entries, results, clearing, out, lock,
                 calls, reports>>

\* pushExecutionEvent, completed
Report(a) ==
  /\ pc[a] \in {"report", "rereport"}
  /\ results' = Append(results, out[a])
  /\ reports' = reports + 1
  /\ concluded' = TRUE
  /\ Goto(a, After(pc[a]))
  /\ UNCHANGED <<rowVars, enabled, hash, due, entries, clearing, out, lock, calls,
                 faults>>

\* XACK; recovery's also when it found the execution finished.
Ack(a) ==
  /\ pc[a] \in {"ack", "drop"}
  /\ entries' = [entries EXCEPT ![holds[a]].state = "acked"]
  /\ Leave(a)
  /\ UNCHANGED <<rowVars, enabled, hash, due, results, clearing, history, faults>>

\* The Redis call of the step throws: a worker hands over to recovery, and
\* recovery leaves the entry for its next cycle.
CallFails(a) ==
  /\ pc[a] \in {"report", "ack", "rereport", "drop"}
  /\ Fault
  /\ IF pc[a] \in {"report", "ack"} THEN Goto(a, "handoff") /\ UNCHANGED <<out, lock>>
                                   ELSE Leave(a)
  /\ UNCHANGED <<rowVars, enabled, hash, due, entries, results, clearing, history>>

\* The process dies; its lock, if any, runs out before anyone needs it.
Crash(a) ==
  /\ pc[a] # "idle"
  /\ Fault
  /\ Leave(a)
  /\ UNCHANGED <<rowVars, enabled, hash, due, entries, results, clearing, history>>

-----------------------------------------------------------------------------
(* The merger, and the hash's TTL.                                         *)

\* Mutant: a running event is applied whatever the row's status is.
MergeClobbers ==
  /\ ~clearing
  /\ results # << >>
  /\ status' = Head(results)
  /\ results' = Tail(results)
  /\ clearing' = (Head(results) # "running")
  /\ UNCHANGED <<computes, attempt, enabled, hash, due, entries, actorVars, lock, history,
                 faults>>

Merge ==
  /\ ~clearing
  /\ results # << >>
  /\ status' = IF Head(results) # "running" THEN Head(results)
               ELSE IF status = "queued" THEN "running" ELSE status
  /\ results' = Tail(results)
  /\ clearing' = (Head(results) # "running")
  /\ UNCHANGED <<computes, attempt, enabled, hash, due, entries, actorVars, lock, history,
                 faults>>

MergeClear ==
  /\ clearing
  /\ \/ hash' = "none" /\ UNCHANGED faults
     \/ Fault /\ UNCHANGED hash
  /\ clearing' = FALSE
  /\ UNCHANGED <<rowVars, enabled, due, entries, results, actorVars, lock, history>>

\* The hour of the hash field runs out, counted as a fault.
HashExpires ==
  /\ hash # "none"
  /\ Fault
  /\ hash' = "none"
  /\ UNCHANGED <<rowVars, enabled, due, entries, results, clearing, actorVars, lock,
                 history>>

-----------------------------------------------------------------------------
WorkerStep(w) ==
  \/ \E i \in DOMAIN entries : Take(w, i)
  \/ Begin(w) \/ Call(w) \/ SettleFinal(w) \/ SettleRetry(w) \/ Handoff(w)
  \/ SettleFails(w) \/ BeginFails(w)

RecoveryStep(a) ==
  Check(a) \/ ResettleRetry(a) \/ ResettleFinal(a) \/ ResettleFails(a)

Next ==
  \/ RetrySweep
  \/ \E n \in due : Push(n)
  \/ \E w \in Workers : WorkerStep(w)
  \/ \E i \in DOMAIN entries : Claim(i)
  \/ \E a \in Actors :
       RecoveryStep(a) \/ Record(a) \/ Report(a) \/ Ack(a) \/ CallFails(a) \/ Crash(a)
  \/ Merge \/ MergeClear \/ HashExpires

Spec == Init /\ [][Next]_vars

\* Every process keeps running its loop or timer and takes its next step; a
\* live recovery process sweeps every entry that stays pending.
Fairness ==
  /\ WF_vars(RetrySweep)
  /\ WF_vars(\E n \in due : Push(n))
  /\ \A w \in Workers : WF_vars(WorkerStep(w))
  /\ \A a \in Actors : WF_vars(RecoveryStep(a) \/ Record(a) \/ Report(a) \/ Ack(a))
  /\ WF_vars(\E i \in DOMAIN entries : Claim(i))
  /\ WF_vars(Merge) /\ WF_vars(MergeClear)

FairSpec == Spec /\ Fairness

-----------------------------------------------------------------------------
(* Properties.                                                             *)

\* No process has died, stalled or met an error, and the delay can be computed.
Calm == faults = 0 /\ ~computes

\* The shape of the state.
TypeOK ==
  /\ computes \in BOOLEAN
  /\ status \in {"queued", "running", "retry_wait"} \cup Final
  /\ attempt \in Nat \ {0}
  /\ enabled \in BOOLEAN
  /\ hash \in {"none", "running"} \cup Final
  /\ due \subseteq Nat \ {0}
  /\ entries \in Seq([carries : Nat, state : {"new", "pending", "acked"},
                      deliveries : Nat, retries : Nat])
  /\ results \in Seq({"running"} \cup Final)
  /\ clearing \in BOOLEAN
  /\ pc \in [Actors -> {"idle", "begin", "call", "settle", "record", "report", "ack",
                        "handoff", "check", "resettle", "rerecord", "rereport", "drop"}]
  /\ holds \in [Actors -> 0 .. Len(entries)]
  /\ out \in [Actors -> {"none", "retryable"} \cup Final]
  /\ lock \in Workers \cup {"none"}
  /\ calls \in Nat /\ reports \in Nat /\ concluded \in BOOLEAN
  /\ faults \in 0 .. MaxFaults

\* Something is still going to move the execution: its row waits for a retry,
\* an attempt is on its way to the stream, or an entry is not acknowledged.
InMotion ==
  \/ status = "retry_wait"
  \/ due # {}
  \/ \E i \in DOMAIN entries : entries[i].state # "acked"

\* An execution without a final status anywhere is never dropped: whatever
\* step of a worker or of recovery dies or fails, something still moves it.
NeverDropped == concluded \/ InMotion

\* However the failures fall, and whichever process has an entry when they
\* do: in the end no retry waits and every entry is acknowledged for good.
ComesToRest == <>[]~InMotion

\* Unless something fails: the row ends with a final status, reported once, and
\* a ONCE job is disabled while a CRON one is not.
Concludes ==
  <>[](Calm => status \in Final /\ reports = 1 /\ enabled = ~Once /\ ~InMotion)

\* Unless something fails: a ONCE job is never disabled while a retry may
\* still run.
DisabledAtTheEnd ==
  Calm /\ ~enabled =>
    status # "retry_wait" /\ due = {} /\ \A i \in DOMAIN entries : entries[i].state # "new"

\* Unless something fails: the row goes through the lifecycle and no other way.
Life == INSTANCE Lifecycle
LifecycleSafe == Life!Init /\ [][Calm' => Life!Next]_<<status, attempt>>
=============================================================================
