----------------------------- MODULE Scheduler -----------------------------
(***************************************************************************)
(* The scheduler: polls that claim due jobs and, in the same transaction,  *)
(* create their executions and advance their cursor next_run.              *)
(*                                                                         *)
(* A cron expression is a period: its ticks are the multiples of it.  A    *)
(* poll takes two steps here, the claim and the rest of its transaction,   *)
(* with the claimed rows locked in between; what happens to the executions *)
(* it commits is in Outbox, here they only weigh on the queue's depth.     *)
(* Pausing and resuming stands for every writer of enabled: the API and    *)
(* the worker that disables a ONCE job.                                    *)
(***************************************************************************)
EXTENDS Integers, Sequences, FiniteSets, FiniteSetsExt

CONSTANTS
  Schedulers,  \* scheduler processes
  Jobs,
  Once,        \* jobs with schedule_type ONCE
  Backfill,    \* CRON jobs with backfill_on_missed_run
  Invalid,     \* jobs whose cron_expression does not parse
  Period,      \* per job: the distance of its ticks
  FirstRun,    \* per job: its next_run when it is created
  Cap,         \* per job: max_catchup_per_poll, at most the system's
  ClaimLimit,  \* SCHEDULER_BATCH_SIZE
  MaxDepth,    \* SCHEDULER_MAX_QUEUE_DEPTH
  Skew,        \* how far the scheduler's clock may be from Postgres'
  MaxTime,     \* bound: when the clock stops
  MaxFaults,   \* bound: how many crashes and errors happen
  Pausable     \* bound: the jobs that are paused and resumed

ASSUME SchedulerAssumption ==
  /\ IsFiniteSet(Jobs)
  /\ Once \cup Backfill \cup Invalid \subseteq Jobs
  /\ Once \cap Backfill = {} /\ Once \cap Invalid = {}
  /\ Period \in [Jobs -> Nat \ {0}]
  /\ FirstRun \in [Jobs -> Nat \ {0}]
  /\ Cap \in [Jobs -> Nat \ {0}]
  /\ ClaimLimit \in Nat \ {0}
  /\ MaxDepth \in Nat
  /\ Skew \in Nat /\ MaxTime \in Nat /\ MaxFaults \in Nat
  /\ Pausable \subseteq Jobs

\* next_run IS NULL; FirstRun keeps real times above it.
Never == 0

VARIABLES
  now,       \* Postgres' clock
  nextRun,   \* http_jobs.next_run
  enabled,   \* http_jobs.enabled
  fired,     \* per job: the scheduled times of its executions, as created
  backlog,   \* stream entries no worker has read yet
  unacked,   \* stream entries read and not acknowledged
  running,   \* the schedulers whose poll loop runs
  leader,    \* who holds the advisory lock; {} or one scheduler
  claimed,   \* per scheduler: the jobs its open transaction has claimed
  clock,     \* per scheduler: nowEpoch of its poll
  budget,    \* per scheduler: remainingBudget at the start of its poll
  faults     \* how many faults have happened

jobVars  == <<nextRun, enabled, fired>>
pollVars == <<claimed, clock, budget>>
vars == <<now, jobVars, backlog, unacked, running, leader, pollVars, faults>>

Init ==
  /\ now = 0
  /\ nextRun = FirstRun
  /\ enabled = [j \in Jobs |-> TRUE]
  /\ fired = [j \in Jobs |-> << >>]
  /\ backlog = 0 /\ unacked = 0
  /\ running = {} /\ leader = {}
  /\ claimed = [s \in Schedulers |-> {}]
  /\ clock = [s \in Schedulers |-> 0]
  /\ budget = [s \in Schedulers |-> 0]
  /\ faults = 0

Fault == faults < MaxFaults /\ faults' = faults + 1

-----------------------------------------------------------------------------
(* computeJobSchedule.                                                     *)

\* expr.next() of a parser that stands at t
NextTick(j, t) == (t \div Period[j] + 1) * Period[j]

\* Mutant: one step of the cursor a poll, the drift migration 023 fixes.
SkipOne(j, from, nowEpoch) == NextTick(j, from)

\* backfill_on_missed_run = false: go on to the first tick after now.
SkipAhead(j, from, nowEpoch) ==
  LET walk[t \in Nat] == IF t > nowEpoch THEN t ELSE walk[NextTick(j, t)]
  IN  walk[NextTick(j, from)]

\* backfill_on_missed_run = true: the due tick and the missed ones after it,
\* up to the cap.
Missed(j, from, nowEpoch) ==
  LET tick[n \in Nat] == IF n <= 1 THEN from ELSE NextTick(j, tick[n - 1])
      count == Max({1} \cup {n \in 1 .. Cap[j] : tick[n] <= nowEpoch})
  IN  [n \in 1 .. count |-> tick[n]]

Ticks(j, nowEpoch) ==
  IF j \in Backfill THEN Missed(j, nextRun[j], nowEpoch) ELSE <<nextRun[j]>>

\* Mutant: a backfilled job's cursor stays on the last tick it fired.
NextRunStays(j, nowEpoch) ==
  IF j \in Once THEN Never
  ELSE IF j \in Backfill THEN LET ticks == Ticks(j, nowEpoch) IN ticks[Len(ticks)]
  ELSE SkipAhead(j, nextRun[j], nowEpoch)

\* Mutant: a backfilled job's cursor is synced to the clock.
NextRunSynced(j, nowEpoch) ==
  IF j \in Once THEN Never ELSE SkipAhead(j, nextRun[j], nowEpoch)

NextRun(j, nowEpoch) ==
  IF j \in Once THEN Never
  ELSE IF j \in Backfill
    THEN LET ticks == Ticks(j, nowEpoch) IN NextTick(j, ticks[Len(ticks)])
  ELSE SkipAhead(j, nextRun[j], nowEpoch)

-----------------------------------------------------------------------------
(* The poll.                                                               *)

Due(j) == enabled[j] /\ nextRun[j] # Never /\ nextRun[j] <= now

Locked(j) == \E s \in Schedulers : j \in claimed[s]

\* Mutant: a negative budget is not raised to zero.
ClaimUnclamped(s) ==
  /\ s \in running
  /\ claimed[s] = {}
  /\ LET free == {j \in Jobs : Due(j) /\ ~Locked(j)}
     IN  \E batch \in SUBSET free :
           /\ batch # {}
           /\ Cardinality(batch) = ClaimLimit \/ (batch = free /\ Cardinality(free) < ClaimLimit)
           /\ \A j \in batch, k \in free \ batch : nextRun[j] <= nextRun[k]
           /\ claimed' = [claimed EXCEPT ![s] = batch]
  /\ \E t \in 0 .. (now + Skew) : t + Skew >= now /\ clock' = [clock EXCEPT ![s] = t]
  /\ budget' = [budget EXCEPT ![s] = MaxDepth - unacked]
  /\ UNCHANGED <<now, jobVars, backlog, unacked, running, leader, faults>>

\* claimDueJobs: ORDER BY next_run LIMIT, SKIP LOCKED; then nowEpoch and the
\* depth of the queue are read.
Claim(s) ==
  /\ s \in running
  /\ claimed[s] = {}
  /\ LET free == {j \in Jobs : Due(j) /\ ~Locked(j)}
     IN  \E batch \in SUBSET free :
           /\ batch # {}
           /\ Cardinality(batch) = ClaimLimit \/ (batch = free /\ Cardinality(free) < ClaimLimit)
           /\ \A j \in batch, k \in free \ batch : nextRun[j] <= nextRun[k]
           /\ claimed' = [claimed EXCEPT ![s] = batch]
  /\ \E t \in 0 .. (now + Skew) : t + Skew >= now /\ clock' = [clock EXCEPT ![s] = t]
  /\ budget' = [budget EXCEPT ![s] = IF unacked > MaxDepth THEN 0 ELSE MaxDepth - unacked]
  /\ UNCHANGED <<now, jobVars, backlog, unacked, running, leader, faults>>

\* The transaction of s is over, and with it what its poll had read.
Over(s) ==
  /\ claimed' = [claimed EXCEPT ![s] = {}]
  /\ clock' = [clock EXCEPT ![s] = 0]
  /\ budget' = [budget EXCEPT ![s] = 0]

\* The orders RETURNING may give the claimed rows: any, for the ORDER BY is
\* only the subquery's, which picks the rows and does not order the update.
Orders(batch) ==
  {q \in [1 .. Cardinality(batch) -> batch] : \A m, n \in DOMAIN q : m < n => q[m] # q[n]}

\* Mutant: every job has the whole budget.
AdmittedEach(s, q) ==
  {q[n] : n \in {m \in DOMAIN q : /\ q[m] \notin Invalid
                                  /\ Len(Ticks(q[m], clock[s])) <= budget[s]}}

\* The jobs of the batch that fit the budget, one after the other; the first
\* that does not fit defers itself and all after it.
Admitted(s, q) ==
  LET valid == {n \in DOMAIN q : q[n] \notin Invalid}
      cost(n) == Len(Ticks(q[n], clock[s]))
      upTo(n) == MapThenSumSet(cost, {m \in valid : m <= n})
  IN  {q[n] : n \in {m \in valid : upTo(m) <= budget[s]}}

\* Mutant: the claims of the jobs left out are not released.
ScheduleKeeps(s) ==
  /\ claimed[s] # {}
  /\ \E q \in Orders(claimed[s]) :
       LET batch == Admitted(s, q)
           count(j) == Len(Ticks(j, clock[s]))
       IN  /\ fired' = [j \in Jobs |-> IF j \in batch THEN fired[j] \o Ticks(j, clock[s])
                                                     ELSE fired[j]]
           /\ nextRun' = [j \in Jobs |-> IF j \in batch THEN NextRun(j, clock[s])
                                                       ELSE nextRun[j]]
           /\ backlog' = backlog + MapThenSumSet(count, batch)
           /\ claimed' = [claimed EXCEPT ![s] = @ \ batch]
  /\ UNCHANGED <<now, enabled, unacked, running, leader, clock, budget, faults>>

\* The rest of the transaction, and its commit: executions and cursors of
\* the admitted jobs; the claims of all others are released.
Schedule(s) ==
  /\ claimed[s] # {}
  /\ \E q \in Orders(claimed[s]) :
       LET batch == Admitted(s, q)
           count(j) == Len(Ticks(j, clock[s]))
       IN  /\ fired' = [j \in Jobs |-> IF j \in batch THEN fired[j] \o Ticks(j, clock[s])
                                                     ELSE fired[j]]
           /\ nextRun' = [j \in Jobs |-> IF j \in batch THEN NextRun(j, clock[s])
                                                       ELSE nextRun[j]]
           /\ backlog' = backlog + MapThenSumSet(count, batch)
  /\ Over(s)
  /\ UNCHANGED <<now, enabled, unacked, running, leader, faults>>

\* The transaction is rolled back, claims and all; the loop goes on.
Rollback(s) ==
  /\ claimed[s] # {}
  /\ Fault
  /\ Over(s)
  /\ UNCHANGED <<now, jobVars, backlog, unacked, running, leader>>

-----------------------------------------------------------------------------
(* The processes.                                                          *)

\* startScheduler; without the lock the process does not poll, ever.
Start(s) ==
  /\ s \notin running
  /\ leader = {}
  /\ leader' = {s}
  /\ running' = running \cup {s}
  /\ UNCHANGED <<now, jobVars, backlog, unacked, pollVars, faults>>

\* The lock's session ends; the loop knows nothing of it and polls on.
LoseLock(s) ==
  /\ leader = {s}
  /\ Fault
  /\ leader' = {}
  /\ UNCHANGED <<now, jobVars, backlog, unacked, running, pollVars>>

Crash(s) ==
  /\ s \in running
  /\ Fault
  /\ running' = running \ {s}
  /\ leader' = leader \ {s}
  /\ Over(s)
  /\ UNCHANGED <<now, jobVars, backlog, unacked>>

-----------------------------------------------------------------------------
(* The environment.                                                        *)

Tick ==
  /\ now < MaxTime
  /\ now' = now + 1
  /\ UNCHANGED <<jobVars, backlog, unacked, running, leader, pollVars, faults>>

\* updateJobForTeam and disableJob wait for the row's lock.
SetEnabled(j) ==
  /\ ~Locked(j)
  /\ j \in Pausable
  /\ enabled' = [enabled EXCEPT ![j] = ~@]
  /\ UNCHANGED <<now, nextRun, fired, backlog, unacked, running, leader, pollVars,
                 faults>>

Deliver ==
  /\ backlog > 0
  /\ backlog' = backlog - 1 /\ unacked' = unacked + 1
  /\ UNCHANGED <<now, jobVars, running, leader, pollVars, faults>>

Finish ==
  /\ unacked > 0
  /\ unacked' = unacked - 1
  /\ UNCHANGED <<now, jobVars, backlog, running, leader, pollVars, faults>>

-----------------------------------------------------------------------------
Next ==
  \/ \E s \in Schedulers :
       Claim(s) \/ Schedule(s) \/ Rollback(s) \/ Start(s) \/ LoseLock(s) \/ Crash(s)
  \/ \E j \in Jobs : SetEnabled(j)
  \/ Tick \/ Deliver \/ Finish

Spec == Init /\ [][Next]_vars

\* A crashed process is restarted, a running one polls, workers work.
Fairness ==
  /\ \A s \in Schedulers : WF_vars(Start(s) \/ Claim(s) \/ Schedule(s))
  /\ WF_vars(Deliver \/ Finish)

FairSpec == Spec /\ Fairness

-----------------------------------------------------------------------------
(* Properties.                                                             *)

\* The shape of the state.
TypeOK ==
  /\ now \in 0 .. MaxTime
  /\ nextRun \in [Jobs -> Nat]
  /\ enabled \in [Jobs -> BOOLEAN]
  /\ fired \in [Jobs -> Seq(Nat \ {0})]
  /\ backlog \in Nat /\ unacked \in Nat
  /\ running \subseteq Schedulers
  /\ leader \in {{}} \cup {{s} : s \in Schedulers}
  /\ claimed \in [Schedulers -> SUBSET Jobs]
  /\ clock \in [Schedulers -> Nat]
  /\ budget \in [Schedulers -> 0 .. MaxDepth]
  /\ faults \in 0 .. MaxFaults

\* However polls of two schedulers overlap, crash or roll back: each of a
\* job's executions is for a later tick than the one before.
TicksInOrder ==
  \A j \in Jobs : \A m, n \in DOMAIN fired[j] : m < n => fired[j][m] < fired[j][n]

\* The ticks of j from its first run on, up to but not including t.
TicksBefore(j, t) ==
  {u \in FirstRun[j] .. t : u < t /\ (u = FirstRun[j] \/ u % Period[j] = 0)}

\* A backfilled job's cursor leaves no tick behind: all ticks before it have
\* an execution, whatever the cap, the budget, pauses and crashes did.
NoTickSkipped ==
  \A j \in Backfill :
    {fired[j][n] : n \in DOMAIN fired[j]} = TicksBefore(j, nextRun[j])

\* The drift migration 023 fixes: a poll takes a skip-ahead job's cursor to
\* the first tick after the poll's time, however many ticks were missed.
NoDrift ==
  [][\A j \in Jobs \ (Once \cup Backfill) :
       nextRun'[j] # nextRun[j] =>
         \E s \in Schedulers :
           /\ j \in claimed[s]
           /\ nextRun'[j] % Period[j] = 0
           /\ nextRun'[j] > clock[s] /\ nextRun'[j] > nextRun[j]
           /\ \A u \in (nextRun[j] + 1) .. (nextRun'[j] - 1) :
                u % Period[j] = 0 => u <= clock[s]]_vars

\* One poll adds no more executions than the room left under MaxDepth.
WithinBudget ==
  [][backlog' > backlog =>
       \E s \in Schedulers : claimed[s] # {} /\ backlog' - backlog <= budget[s]]_vars

\* No job stays due: again and again it is paused or its cursor, which only
\* an execution moves, is ahead of now.  Neither the batch limit, the budget,
\* an invalid job ahead of it nor a crash starves it.
DueIsScheduled == \A j \in Jobs \ Invalid : []<>~Due(j)
=============================================================================
