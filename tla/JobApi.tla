-------------------------------- MODULE JobApi --------------------------------
(***************************************************************************)
(* One row of http_jobs under the API: a job is created, changed by PATCH  *)
(* and deleted while polls fire it and its executions end.                 *)
(*                                                                         *)
(* A PATCH reads the row, checks its fields merged with the row, computes  *)
(* a new next_run, and then updates by the job's id; the row may have      *)
(* changed in between.  run_at, in milliseconds, and next_run, in seconds, *)
(* are given to timestamptz columns as digits.  Postgres reads six digits  *)
(* or more as year, month and day: an error, or a date that has nothing to *)
(* do with the time meant.                                                 *)
(*                                                                         *)
(* Abstracted: every second is a tick of a cron expression; how far a poll *)
(* moves the cursor of a CRON job (Scheduler has it); the fields that only *)
(* the HTTP call reads; the team, which every statement filters on.        *)
(***************************************************************************)
EXTENDS Naturals, FiniteSets

CONSTANTS
  Requests,     \* PATCH requests that may be in progress at once
  MaxTime,      \* bound: when the clock stops
  MaxRequests   \* bound: how many PATCH requests there are

ASSUME JobApiAssumption == MaxTime \in Nat /\ MaxRequests \in Nat

Null  == 0             \* next_run IS NULL
Times == 1 .. MaxTime + 1
Far   == MaxTime + 2   \* a date of a year with five or six digits
Types == {"ONCE", "CRON"}

\* A field of a request: absent, or one of S.
Maybe(S) == {{}} \cup {{x} : x \in S}
Merged(old, new) == IF new = {} THEN old ELSE CHOOSE x \in new : TRUE

Jobs == [type : Types, enabled : BOOLEAN, nextRun : Times \cup {Far, Null},
         backfill : BOOLEAN, catchup : BOOLEAN]

VARIABLES
  job,      \* the row, while it exists
  exists,
  now,
  open,     \* its executions that have not ended, numbered as polls fire them
  fired,    \* history: how many times polls have fired it
  req,      \* per request: idle, or the update it is about to write
  asked,    \* how many PATCH requests there have been
  overlap,  \* history: a PATCH wrote what it had checked on an older row
  retyped,  \* history: a PATCH was accepted that names another schedule_type
  moved,    \* history: how many PATCHes of the schedule were accepted
  resumed   \* history: a PATCH enabled the job after it had fired

rowVars == <<job, exists>>
vars == <<rowVars, now, open, fired, req, asked, overlap, retyped, moved, resumed>>

Idle == [step |-> "idle"]

\* createJobSchema: catch-up only with backfill, and backfill only for CRON.
\* run_at may have passed already; a cron expression's next tick has not.
LegalOptions(t, backfill, catchup) ==
  (backfill => t = "CRON") /\ (catchup => backfill)

\* createJobService and createJob
Init ==
  /\ exists = TRUE
  /\ now = 1
  /\ \E type \in Types, on, backfill, catchup \in BOOLEAN, runAt \in 1 .. MaxTime :
       /\ LegalOptions(type, backfill, catchup)
       /\ job = [type |-> type, enabled |-> on,
                 nextRun |-> IF type = "ONCE" THEN runAt ELSE now + 1,
                 backfill |-> backfill, catchup |-> catchup]
  /\ open = {} /\ fired = 0
  /\ req = [q \in Requests |-> Idle]
  /\ asked = 0
  /\ overlap = FALSE /\ retyped = FALSE /\ moved = 0 /\ resumed = FALSE

-----------------------------------------------------------------------------
(* The scheduler and the end of an execution.                              *)

Tick ==
  /\ now < MaxTime
  /\ now' = now + 1
  /\ UNCHANGED <<rowVars, open, fired, req, asked, overlap, retyped, moved, resumed>>

\* A poll that claims the job: claimDueJobs and markJobScheduledBatch are one
\* transaction, and its row lock keeps every other writer waiting.
Claim(next) ==
  /\ exists /\ job.enabled
  /\ job.nextRun # Null /\ job.nextRun <= now
  /\ job' = [job EXCEPT !.nextRun = next]
  /\ fired' = fired + 1
  /\ open' = open \cup {fired'}
  /\ UNCHANGED <<exists, now, req, asked, overlap, retyped, moved, resumed>>

\* Mutant: next_run is computed in milliseconds.
PollInMs == Claim((now + 1) * 1000)

Poll ==
  \/ job.type = "ONCE" /\ Claim(Null)
  \/ job.type = "CRON" /\ \E next \in Times : next > job.nextRun /\ next <= now + 1 /\ Claim(next)

\* The last attempt of an execution has ended: disableJob for a ONCE job,
\* whatever its row says by now.
Resolve(e) ==
  /\ open' = open \ {e}
  /\ job' = IF job.type = "ONCE" THEN [job EXCEPT !.enabled = FALSE] ELSE job
  /\ UNCHANGED <<exists, now, fired, req, asked, overlap, retyped, moved, resumed>>

-----------------------------------------------------------------------------
(* updateJobService.                                                       *)

\* updateJobSchema: the fields that matter here, each perhaps absent;
\* "time" is run_at or cron_expression.  An update of no field is refused.
Updates ==
  {u \in [enabled : Maybe(BOOLEAN), backfill : Maybe(BOOLEAN), catchup : Maybe({TRUE}),
          type : Maybe(Types), time : Maybe({"run_at", "cron_expression"})] :
     /\ \E field \in DOMAIN u : u[field] # {}
     /\ ~(u.backfill = {TRUE} /\ u.type = {"ONCE"})
     /\ ~(u.catchup = {TRUE} /\ u.backfill = {FALSE})
     /\ ~(u.type = {"ONCE"} /\ u.time = {"cron_expression"})
     /\ ~(u.type = {"CRON"} /\ u.time = {"run_at"})}

\* scheduleChanged
Reschedules(u) == u.type # {} \/ u.time # {}

Accepted(q, u) ==
  /\ req[q] = Idle
  /\ exists
  /\ asked < MaxRequests
  /\ asked' = asked + 1
  /\ req' = [req EXCEPT ![q] = [step |-> "write", update |-> u, read |-> job]]
  /\ UNCHANGED <<rowVars, now, open, fired, overlap, retyped, moved, resumed>>

\* Mutant: the request's own fields are checked, and not the merged ones.
PatchUnmerged(q, u) == Accepted(q, u)

\* Up to updateJobForTeam; a request that fails its checks ends at once.
Patch(q, u) ==
  /\ LegalOptions(Merged(job.type, u.type), Merged(job.backfill, u.backfill),
                  Merged(job.catchup, u.catchup))
  /\ Accepted(q, u)

\* valid_schedule: a CRON row has no run_at, a ONCE row no cron_expression; and
\* what no run_at makes of next_run, 0, is no timestamp.
Consistent(u) ==
  \/ u.time = {} /\ ~(u.type = {"ONCE"} /\ job.type = "CRON")
  \/ u.time = {"run_at"} /\ job.type = "ONCE"
  \/ u.time = {"cron_expression"} /\ job.type = "CRON"

\* What next_run becomes, if Postgres takes the digits for a date.  Ten, the
\* seconds of a cron expression's next tick, begin with a year of six.  A run_at
\* of nine or ten, the only ones that parse, leaves next_run six or seven: two
\* digits of a year, or three.  The run_at of a row may lie anywhere.
Stored(row, u) ==
  IF ~Reschedules(u) THEN {row.nextRun}
  ELSE IF Merged(row.type, u.type) = "CRON" THEN {Far}
  ELSE IF u.time = {"run_at"} THEN Times
  ELSE Times \cup {Far}

\* The update of the row, by what fields the PATCH does not have keep from "row".
Update(q, row) ==
  /\ req[q].step = "write"
  /\ exists
  /\ LET u == req[q].update
         o == req[q].read
     IN  /\ Consistent(u)
         /\ \E next \in Stored(row, u) :
              job' = [row EXCEPT !.enabled = Merged(@, u.enabled),
                                 !.backfill = Merged(@, u.backfill),
                                 !.catchup = Merged(@, u.catchup),
                                 !.nextRun = next]
         /\ retyped' = (retyped \/ Merged(job.type, u.type) # job.type)
         /\ moved' = IF Reschedules(u) THEN moved + 1 ELSE moved
         /\ resumed' = (resumed \/ (fired > 0 /\ u.enabled = {TRUE}))
         /\ overlap' = (overlap \/ <<job.backfill, job.catchup>> # <<o.backfill, o.catchup>>)
  /\ req' = [req EXCEPT ![q] = Idle]
  /\ UNCHANGED <<exists, now, open, fired, asked>>

\* Mutant: the merged row is written back.
WriteMerged(q) == Update(q, req[q].read)

\* updateJobForTeam: schedule_type is not among the columns it sets.
Write(q) == Update(q, job)

\* No row, a value that is no timestamp, the CHECK, or the connection.
WriteFails(q) ==
  /\ req[q].step = "write"
  /\ req' = [req EXCEPT ![q] = Idle]
  /\ UNCHANGED <<rowVars, now, open, fired, asked, overlap, retyped, moved, resumed>>

\* deleteJobForTeam: its executions go with it (ON DELETE CASCADE).
Delete ==
  /\ exists
  /\ exists' = FALSE
  /\ open' = {}
  /\ UNCHANGED <<job, now, fired, req, asked, overlap, retyped, moved, resumed>>

-----------------------------------------------------------------------------
Next ==
  \/ Tick \/ Poll \/ Delete
  \/ \E e \in open : Resolve(e)
  \/ \E q \in Requests :
       \/ \E u \in Updates : Patch(q, u)
       \/ Write(q) \/ WriteFails(q)

Spec == Init /\ [][Next]_vars

-----------------------------------------------------------------------------
(* Properties.                                                             *)

\* The shape of the state.
TypeOK ==
  /\ job \in Jobs /\ exists \in BOOLEAN
  /\ now \in Times
  /\ fired \in Nat /\ open \subseteq 1 .. fired
  /\ req \in [Requests -> [step : {"idle"}]
                          \cup [step : {"write"}, update : Updates, read : Jobs]]
  /\ asked \in 0 .. MaxRequests
  /\ overlap \in BOOLEAN /\ retyped \in BOOLEAN /\ resumed \in BOOLEAN /\ moved \in Nat

\* "it never runs again, so disable it": however polls, the end of executions and
\* PATCHes of single fields interleave, a ONCE job fires once, and once more for
\* each PATCH that gives it a new time; and when its executions have ended it is
\* disabled, unless a PATCH has enabled it again.
OnceFiresOnce ==
  job.type = "ONCE" =>
    /\ fired <= 1 + moved
    /\ exists /\ fired > 0 /\ open = {} /\ ~resumed => ~job.enabled

\* "max_catchup_per_poll requires backfill_on_missed_run to be true" and
\* "backfill_on_missed_run only applies to CRON jobs" hold of the row however
\* single fields are patched, but for two PATCHes that overlap, and for one
\* that names another schedule_type, which is checked and not stored.
OptionsAgree ==
  /\ ~overlap => (job.catchup => job.backfill)
  /\ ~retyped => (job.backfill => job.type = "CRON")

\* "so the scheduler doesn't keep polling against a stale timestamp": after a
\* PATCH of a CRON job's schedule that was accepted, the job is due at a time of it.
Rescheduled == job.type = "CRON" /\ moved > 0 /\ exists => job.nextRun # Far
=============================================================================
