------------------------------- MODULE Merger -------------------------------
(***************************************************************************)
(* The results stream and the merger processes that batch it into          *)
(* Postgres: read or reclaim a batch, apply it in one transaction, clear   *)
(* the status hash of what is complete, acknowledge.                       *)
(*                                                                         *)
(* An execution emits "running" when a try begins and one final event at   *)
(* its end; between two tries its row goes through retry_wait.  Its        *)
(* worker is here only as the source of these writes (see Execution).      *)
(*                                                                         *)
(* Abstracted: an event's payload is its final status; idle times, so any  *)
(* pending entries may be stale, also those of a merger that is only slow. *)
(***************************************************************************)
EXTENDS Naturals, Sequences, FiniteSets

CONSTANTS
  Execs,       \* executions
  Mergers,     \* merger processes
  BatchSize,   \* BATCH_SIZE
  MaxAttempts, \* bound: tries of an execution
  Plans,       \* bound: how often each execution may be tried, 0 for never
  Rejected,    \* executions whose final event Postgres refuses
  MaxFaults    \* bound: how many crashes and errors happen

ASSUME MergerAssumption ==
  /\ BatchSize \in Nat \ {0}
  /\ MaxAttempts \in Nat \ {0}
  /\ Plans \subseteq [Execs -> 0 .. MaxAttempts]
  /\ Rejected \subseteq Execs
  /\ MaxFaults \in Nat

Final == {"success", "failed_permanent"}

VARIABLES
  tries,        \* the plan of this behaviour
  row, attempt, \* job_executions.status and attempt, per execution
  hash,         \* its field of the status hash; "none": absent
  emits,        \* the write its worker does next
  stream,       \* the results stream
  delivered,    \* how much of it the group has delivered
  pending,      \* the group's pending entries, as positions of the stream
  batch,        \* per merger: the entries in hand
  uncleared,    \* per merger: applied results with their hash to clear
  applied,      \* per merger: the batch in hand is committed
  recorded,     \* history: executions whose final status got into the hash
  faults        \* how many faults have happened

workerVars == <<tries, attempt, emits, recorded>>
groupVars  == <<delivered, pending>>
mergerVars == <<batch, uncleared, applied>>
vars == <<row, hash, stream, workerVars, groupVars, mergerVars, faults>>

Init ==
  /\ tries \in Plans
  /\ row = [e \in Execs |-> "queued"]
  /\ attempt = [e \in Execs |-> 1]
  /\ hash = [e \in Execs |-> "none"]
  /\ emits = [e \in Execs |-> "running"]
  /\ stream = << >>
  /\ delivered = 0
  /\ pending = {}
  /\ batch = [m \in Mergers |-> {}]
  /\ uncleared = [m \in Mergers |-> {}]
  /\ applied = [m \in Mergers |-> FALSE]
  /\ recorded = {}
  /\ faults = 0

Fault == faults < MaxFaults /\ faults' = faults + 1

-----------------------------------------------------------------------------
(* What the workers write.                                                 *)

Running(e) ==
  /\ emits[e] = "running"
  /\ tries[e] > 0
  /\ row[e] # "retry_wait"
  /\ hash' = [hash EXCEPT ![e] = "running"]
  /\ stream' = Append(stream, [exec |-> e, type |-> "running"])
  /\ emits' = [emits EXCEPT ![e] = "outcome"]
  /\ UNCHANGED <<row, tries, attempt, recorded, groupVars, mergerVars, faults>>

\* markExecutionRetryWait; the next try's running event follows its requeue.
Retry(e) ==
  /\ emits[e] = "outcome"
  /\ attempt[e] < tries[e]
  /\ row' = [row EXCEPT ![e] = "retry_wait"]
  /\ attempt' = [attempt EXCEPT ![e] = @ + 1]
  /\ emits' = [emits EXCEPT ![e] = "running"]
  /\ UNCHANGED <<hash, stream, tries, recorded, groupVars, mergerVars, faults>>

\* claimDueRetries
Requeue(e) ==
  /\ row[e] = "retry_wait"
  /\ row' = [row EXCEPT ![e] = "queued"]
  /\ UNCHANGED <<hash, stream, workerVars, groupVars, mergerVars, faults>>

\* recordExecutionStatus with the final status; a failed HSET is swallowed.
Record(e, s) ==
  /\ emits[e] = "outcome"
  /\ emits' = [emits EXCEPT ![e] = s]
  /\ \/ /\ hash' = [hash EXCEPT ![e] = s]
        /\ recorded' = recorded \cup {e}
        /\ UNCHANGED faults
     \/ Fault /\ UNCHANGED <<hash, recorded>>
  /\ UNCHANGED <<row, tries, attempt, stream, groupVars, mergerVars>>

Report(e) ==
  /\ emits[e] \in Final
  /\ stream' = Append(stream, [exec |-> e, type |-> emits[e]])
  /\ emits' = [emits EXCEPT ![e] = "nothing"]
  /\ UNCHANGED <<row, hash, tries, attempt, recorded, groupVars, mergerVars, faults>>

-----------------------------------------------------------------------------
(* What a batch amounts to.                                                *)

\* The executions with a final event in the batch, and the others of it.
Completed(ids) == {stream[i].exec : i \in {j \in ids : stream[j].type \in Final}}
Started(ids)   == {stream[i].exec : i \in ids} \ Completed(ids)

\* The last final event of e in the batch.
Outcome(ids, e) ==
  LET ofE == {i \in ids : stream[i].exec = e /\ stream[i].type \in Final}
  IN  stream[CHOOSE i \in ofE : \A j \in ofE : j <= i].type

-----------------------------------------------------------------------------
(* The merger.                                                             *)

Idle(m) == batch[m] = {}

Hold(m, ids) ==
  /\ batch' = [batch EXCEPT ![m] = ids]
  /\ UNCHANGED <<uncleared, applied>>

Drop(m) ==
  /\ batch' = [batch EXCEPT ![m] = {}]
  /\ uncleared' = [uncleared EXCEPT ![m] = {}]
  /\ applied' = [applied EXCEPT ![m] = FALSE]

\* Mutant: the batch is taken to be full.
ReadFull(m) ==
  /\ Idle(m)
  /\ delivered < Len(stream)
  /\ delivered' = delivered + BatchSize
  /\ pending' = pending \cup ((delivered + 1) .. (delivered + BatchSize))
  /\ Hold(m, (delivered + 1) .. (delivered + BatchSize))
  /\ UNCHANGED <<row, hash, stream, workerVars, faults>>

\* XREADGROUP ">"
Read(m) ==
  /\ Idle(m)
  /\ delivered < Len(stream)
  /\ LET count == IF Len(stream) - delivered < BatchSize THEN Len(stream) - delivered
                                                        ELSE BatchSize
         fresh == (delivered + 1) .. (delivered + count)
     IN  /\ delivered' = delivered + count
         /\ pending' = pending \cup fresh
         /\ Hold(m, fresh)
  /\ UNCHANGED <<row, hash, stream, workerVars, faults>>

\* claimStaleEntries: XAUTOCLAIM takes no notice of whose entries they are.
Reclaim(m) ==
  /\ Idle(m)
  /\ \E stale \in SUBSET pending :
       /\ stale # {} /\ Cardinality(stale) <= BatchSize
       /\ Hold(m, stale)
  /\ UNCHANGED <<row, hash, stream, workerVars, groupVars, faults>>

\* Mutant: a running event is applied to any row without a result.
FlushOverWait(m) ==
  /\ ~Idle(m) /\ ~applied[m]
  /\ Completed(batch[m]) \cap Rejected = {}
  /\ row' = [e \in Execs |->
               IF e \in Completed(batch[m]) THEN Outcome(batch[m], e)
               ELSE IF e \in Started(batch[m]) /\ row[e] \notin Final THEN "running"
               ELSE row[e]]
  /\ applied' = [applied EXCEPT ![m] = TRUE]
  /\ uncleared' = [uncleared EXCEPT ![m] = Completed(batch[m])]
  /\ UNCHANGED <<hash, stream, workerVars, groupVars, batch, faults>>

\* Mutant: the hash is cleared for every execution of the batch.
FlushClearsAll(m) ==
  /\ ~Idle(m) /\ ~applied[m]
  /\ Completed(batch[m]) \cap Rejected = {}
  /\ row' = [e \in Execs |->
               IF e \in Completed(batch[m]) THEN Outcome(batch[m], e)
               ELSE IF e \in Started(batch[m]) /\ row[e] = "queued" THEN "running"
               ELSE row[e]]
  /\ applied' = [applied EXCEPT ![m] = TRUE]
  /\ uncleared' = [uncleared EXCEPT ![m] = Completed(batch[m]) \cup Started(batch[m])]
  /\ UNCHANGED <<hash, stream, workerVars, groupVars, batch, faults>>

\* flush's transaction: the running batch, then the completed batch.
Flush(m) ==
  /\ ~Idle(m) /\ ~applied[m]
  /\ Completed(batch[m]) \cap Rejected = {}
  /\ row' = [e \in Execs |->
               IF e \in Completed(batch[m]) THEN Outcome(batch[m], e)
               ELSE IF e \in Started(batch[m]) /\ row[e] = "queued" THEN "running"
               ELSE row[e]]
  /\ applied' = [applied EXCEPT ![m] = TRUE]
  /\ uncleared' = [uncleared EXCEPT ![m] = Completed(batch[m])]
  /\ UNCHANGED <<hash, stream, workerVars, groupVars, batch, faults>>

\* Mutant: a failed batch is acknowledged like any other.
FlushFailsAcks(m) ==
  /\ ~Idle(m) /\ ~applied[m]
  /\ IF Completed(batch[m]) \cap Rejected = {} THEN Fault ELSE UNCHANGED faults
  /\ applied' = [applied EXCEPT ![m] = TRUE]
  /\ UNCHANGED <<row, hash, stream, workerVars, groupVars, batch, uncleared>>

\* The transaction fails and is rolled back: nothing is acknowledged.
FlushFails(m) ==
  /\ ~Idle(m) /\ ~applied[m]
  /\ IF Completed(batch[m]) \cap Rejected = {} THEN Fault ELSE UNCHANGED faults
  /\ Drop(m)
  /\ UNCHANGED <<row, hash, stream, workerVars, groupVars>>

\* clearExecutionStatus; a failed HDEL is swallowed.
Clear(m, e) ==
  /\ e \in uncleared[m]
  /\ uncleared' = [uncleared EXCEPT ![m] = @ \ {e}]
  /\ \/ hash' = [hash EXCEPT ![e] = "none"] /\ UNCHANGED faults
     \/ Fault /\ UNCHANGED hash
  /\ UNCHANGED <<row, stream, workerVars, groupVars, batch, applied>>

Ack(m) ==
  /\ applied[m] /\ uncleared[m] = {}
  /\ pending' = pending \ batch[m]
  /\ Drop(m)
  /\ UNCHANGED <<row, hash, stream, workerVars, delivered, faults>>

\* The process dies, or XACK throws: what is committed stays pending.
Abandon(m) ==
  /\ ~Idle(m)
  /\ Fault
  /\ Drop(m)
  /\ UNCHANGED <<row, hash, stream, workerVars, groupVars>>

\* The hour of a hash field runs out.  The merger is never an hour behind,
\* so a recorded outcome does not expire before it is applied.  (A "running"
\* that expires before the outcome is recorded is seen by no one here.)
Expire(e) ==
  /\ hash[e] # "none"
  /\ e \in recorded /\ row[e] \in Final
  /\ hash' = [hash EXCEPT ![e] = "none"]
  /\ UNCHANGED <<row, stream, workerVars, groupVars, mergerVars, faults>>

-----------------------------------------------------------------------------
WorkerStep(e) ==
  Running(e) \/ Retry(e) \/ Requeue(e) \/ Report(e) \/ \E s \in Final : Record(e, s)

MergerStep(m) ==
  Read(m) \/ Reclaim(m) \/ Flush(m) \/ FlushFails(m) \/ Ack(m) \/ Abandon(m)

Next ==
  \/ \E e \in Execs : WorkerStep(e) \/ Expire(e)
  \/ \E m \in Mergers : MergerStep(m) \/ \E e \in Execs : Clear(m, e)

Spec == Init /\ [][Next]_vars

\* The merger's loop goes on, reading and every 15 seconds reclaiming, and a
\* batch in hand is taken to its end.  Nothing is assumed of the workers.
Fairness ==
  \A m \in Mergers :
    /\ WF_vars(Read(m)) /\ WF_vars(Reclaim(m))
    /\ WF_vars(Flush(m) \/ FlushFails(m) \/ Ack(m) \/ \E e \in Execs : Clear(m, e))

FairSpec == Spec /\ Fairness

-----------------------------------------------------------------------------
(* Properties.                                                             *)

\* The shape of the state.
TypeOK ==
  /\ row \in [Execs -> {"queued", "running", "retry_wait"} \cup Final]
  /\ tries \in Plans
  /\ attempt \in [Execs -> 1 .. MaxAttempts]
  /\ hash \in [Execs -> {"none", "running"} \cup Final]
  /\ emits \in [Execs -> {"running", "outcome", "nothing"} \cup Final]
  /\ stream \in Seq([exec : Execs, type : {"running"} \cup Final])
  /\ delivered \in 0 .. Len(stream)
  /\ pending \subseteq 1 .. delivered
  /\ batch \in [Mergers -> SUBSET (1 .. delivered)]
  /\ uncleared \in [Mergers -> SUBSET Execs]
  /\ applied \in [Mergers -> BOOLEAN]
  /\ recorded \subseteq Execs
  /\ faults \in 0 .. MaxFaults

\* "recovery never races the merger": once an outcome is in the hash, what
\* recovery reads - the hash, or the row when the hash has nothing - is final,
\* at every step between the flush, the clearing and the acknowledgement.
StaysKnown ==
  \A e \in recorded : (IF hash[e] = "none" THEN row[e] ELSE hash[e]) \in Final

\* Batches redelivered late, out of order or twice move a row as its
\* lifecycle allows: a result stays, and a late running event never undoes a
\* result or a wait for a retry.
Life(e) == INSTANCE Lifecycle WITH status <- row[e], attempt <- attempt[e]
RowLifecycle ==
  [][\A e \in Execs : Life(e)!Next \/ UNCHANGED <<row[e], attempt[e]>>]_<<row, attempt>>

\* A result that is reported is applied in the end, though batches fail or
\* their merger dies before any of its steps.
HealthyApplied ==
  <>[](\A e \in Execs \ Rejected : emits[e] = "nothing" => row[e] \in Final)
=============================================================================
