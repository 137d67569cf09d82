# A TLA+ model of fabricq

fabricq runs HTTP calls on a schedule. Users define jobs (once or by cron
expression); a scheduler turns due jobs into *executions*; workers make the
calls; failures are retried; results end up in Postgres. Everything between is
a pipeline of seven kinds of process that share Postgres and Redis and may each
crash, stall or fail at any step. In front of it is an API server, of which
several may run, with accounts, teams, API keys and their caches. This directory
models both, checks the models with TLC and proves parts of them with TLAPS.

Paths below are relative to `src/src/`.

## Inventory

| Component | State it keeps | Operations | What makes it correct |
|---|---|---|---|
| Scheduler (`scheduler/`) | `http_jobs.next_run`, `locked_at`, `enabled`; an advisory lock; the group's pending count | `pollAndScheduleDueJobs`, `computeJobSchedule`, `startScheduler` | each tick fires once, in order; backfill skips none; skip-ahead never drifts; one poll respects the budget; a due job is scheduled |
| Outbox (`outbox/`) | `execution_outbox`; dedupe keys; the stream `fabricq:executions` | fast path (`publishClaimedBatch`), relay (`publishPendingExecutions`) | what a transaction commits is pushed, once, and never marked before |
| Retry (`retry/`) | `job_executions.status`, `attempt`, `retry_at` | `runRetrySweep`, `scheduleExecutionRetry`, `computeDelaySeconds`, `classifyFailure` | one retry per failure; no delay beyond the ceiling |
| Worker (`worker/`) | the group's pending entries (PEL); in-flight jobs; one timer per call | `startWorker`, `processJob`, `handleExecution`, `executeHttpJob` | one result per execution; the job disabled at its end only; a redirect chain that obeys the job's policy and ends |
| Recovery (`recovery/`) | PEL, delivery counts, `recovery:lock:*` | `runRecoveryCycle`, `recoverExecution` | no execution is dropped or stuck |
| Results (`streams/executionResults.js`) | status hash with a TTL per field; the stream `fabricq:execution-results` | `recordExecutionStatus`, `pushExecutionEvent` | the hash never hides an outcome from recovery |
| Merger (`merger/`) | the results group's PEL; execution rows | `runLoop`, `flush`, `claimStaleEntries` | a reported result is applied, stays, and is acknowledged only after |
| Job API (`services/httpJob.js`) | `http_jobs` | create, list, update, delete | an update keeps schedule and options consistent while polls run |
| Auth and sessions (`services/auth.service.js`) | refresh tokens, one-time codes | signup, login, refresh, logout, reset, verify, 2FA | a login has one session; a reset ends all of them; the latest code works, once |
| Teams, invitations (`services/team.service.js`) | memberships, roles, invitations | invite, accept, revoke, change role, remove, delete | a team keeps an owner; an invitation is used once |
| Team context cache (`cache/teamContextCache.js`) | a Redis copy of a member's role, with a TTL | fill on miss, invalidate after a change | stale for no longer than it must be |
| API keys (`services/apiKey.service.js`, `cache/`) | `api_keys`, cached rows per prefix, the sorted set of last uses | create, revoke, look up, mark used, flush | a revoked key stops working; no use is lost between drain and write |
| Mail queue (`queues/`, `mail/`) | BullMQ jobs | enqueue, send with retries | a mail is sent at least once |
| Retention (`retention/`) | partitions, expired rows | maintain, drop, clean | nothing in use is dropped |

How they interact:

    API server --http_jobs--> scheduler --execution_outbox--> relay
      | |                        |  fast path                  |
      | |                        +-------> fabricq:executions <+--- retry sweep
      | |                                        |                      ^
      | |                           worker <-----+-----> recovery       | retry_wait
      | |                              |  status hash, PEL  |           |
      | |                              +--------+-----------+-----------+
      | |                                       v
      | |                         fabricq:execution-results --> merger --> job_executions
      | +--> Redis: team contexts, rows of API keys, last uses
      +----> Postgres: users, tokens, codes, teams, roles, invitations, api_keys

All communication is through Postgres rows (with row locks and `SKIP LOCKED`)
and Redis (streams with consumer groups, hashes, caches); there are no direct
calls between processes, except that a worker calls `recoverExecution` on an
entry it could not finish. The API touches the pipeline in `http_jobs` only.

The hard behaviours:

* *Commit then publish.* A transaction ends before its message is pushed, so
  fast path and relay may both, or neither, have pushed it.
* *At-least-once delivery.* Entries are redelivered after crashes and stalls, so
  every step after a read may run twice, by two processes, late.
* *Two stores.* The status hash, the results stream and the row are written one
  after the other; a reader may see any prefix of these writes. So are the rows
  of the API and their cached copies.
* *Read, decide, write by id.* Services, workers and recovery read, await, decide
  and then write by a row's id without checking that what they read still holds.
* *Arithmetic at bounds.* Due ticks, caps and budget; retry delays and their
  ceiling; a clock in seconds, milliseconds and timestamps.

`PROJECT.json` lists each hazard at its line with the properties that cover it.

## Modules

| Module | Models | Composed with |
|---|---|---|
| `Handoff` | abstract: a message becomes due by a commit and is sent once | implemented by `Outbox`, as `First` and `Live` |
| `Outbox` | producers, `PUBLISH_SCRIPT`, relay, `execution_outbox` | |
| `Lifecycle` | abstract: what an execution's row promises its readers | implemented by `Execution` (without faults) and, row by row, by `Merger` |
| `Execution` | one execution: stream entries, workers, recovery, retry, row | |
| `HttpCall` | what a worker does inside `Execution`'s `Call` and `Settle` steps: the redirect loop, the timeout, classification, retry delay | |
| `Merger` | results stream, consumer group, mergers, status hash | |
| `Scheduler` | polls, cursors, backfill, budget, lock | |
| `JobApi` | one job: create, PATCH, delete against polls and ends of executions | |
| `Teams` | one team: members, roles, invitations, cached contexts | |
| `ApiKeys` | the keys of one prefix, their cache and their last uses | |
| `Sessions` | one account: sessions and one-time codes | |
| `OutboxProofs`, `SchedulerProofs`, `MergerProofs`, `JobApiProofs`, `TeamsProofs`, `ApiKeysProofs`, `SessionsProofs` | theorems | each extends its module |
| `ExecutionProofs` | theorems | extends `Execution` and `HttpCall`, the two views of one execution |
| `MC...` | instances for TLC | each extends its module |

### Outbox

A message `<<e, a>>` is "run attempt `a` of execution `e`". `rowAttempt[e]` is the
payload of the outbox row and `published` its `published_at`; `keys` are the
dedupe keys, `<<e, 0>>` for the bare execution id and `<<e, a>>` for `id:a`.
`todo` and `marking` are the two places of a producer's loop where it may die,
`claimed`, `untried` and `ok` the relay's transaction. `due` and `pushed` are what
the properties speak of. `publish_attempts` is left out, as nothing reads it.
Real time is left out: `staleAfter` only gives the fast path a head start,
so here any unpublished row may be stale at any moment.

The keys of the executions in `Lapsing` have a TTL that may run out. A key lapses
only when nothing that was waiting when it was set still waits: `KeyInUse` says
that a producer does not hold a batch, nor a first attempt's row its mark, for an
hour. If the relay itself is down for longer, a push whose mark was lost is
repeated. `FirstHandoff` holds for every execution, `EveryHandoffSafe`, which is
about retries too, for those whose keys do not lapse.

### Execution

One execution, because executions share nothing but their job's `enabled`.
`pc` gives each worker and the recovery process its place in its code;
`begin call settle record report ack` is `processJob`, `handoff` the worker's own
call of `recoverExecution`, and `check resettle rerecord rereport drop` are
`recoverExecution`, the same code for both callers. A fast-path payload carries no
attempt number (`Missing`), an outbox row's does; `FirstCarries` says which
payloads a run admits. `Strategies` says whether the job's delay is computed from
the attempt. The HTTP call is its outcome. XCLAIM of an entry nobody works on is
always possible, and of one that a live worker holds only with `Stalls`, as a
fault. `due` and `Push` are the outbox in one step, the merger two.

### HttpCall

One execution again, this time with one attempt after the other and the
environment as the adversary: a target answers any status of `Statuses`,
redirects anywhere, or never answers. `visit` and `fetch` are the two halves of
the loop of `executeHttpJob`, `classify` is `handleExecution` after it, `waiting`
and `stuck` are an execution between attempts, with a retry date or without one.
An execution that came by the fast path (`fast`) has no attempt number until its first
retry (`Numbered`): its first attempt is never the last (`LastTry`), and what is
computed from the number is NaN (`UnnumberedDelays`, `NoDate`).
`RefusedFor` is the order of the checks of a redirect, `Rewrites` the change of
method and body, `computeDelaySeconds` the set of delays a strategy may give (one,
but for jitter). A multiplier is a fraction, because JavaScript's is a real;
`Rounded` is `Math.round`. A delay above `MaxDelay` stands for an invalid date.
`Refused` is the set of URLs the syntax check throws for; the addresses a name
resolves to are `LookupRefused`.

### Merger

`stream` holds every event; `delivered` and `pending` are the consumer group;
`batch`, `applied`, `uncleared` are a merger's place in `flush`. Workers appear
as the writes they make (`Running`, `Retry`, `Record`, `Report`). Any pending entries
may be reclaimed at any moment, those of a live merger too: thirty seconds of
idle time prove nothing. `Expire` assumes that the merger is never an hour
behind. Executions in `Rejected` have a result that Postgres refuses.

### Scheduler

A poll is two steps: `Claim`, and the rest of its transaction, with rows locked
between them. A cron expression is a period, its ticks the multiples of it;
`NextTick` stands for cron-parser. The clock of the process may differ from
Postgres' by `Skew`. `backlog` and `unacked` split the stream as XPENDING does: the
budget counts only what has been delivered. The RETURNING of the claim is
unordered, so `Orders` gives every order.

### JobApi

`Claim` is a poll's transaction in one step, as its row locks make it; `open` the
executions that have not ended, each of which may `Resolve` at any time and then
disables a ONCE job, whatever the row says by then. A PATCH is three steps of its
caller: `Patch` (read, merge, check), and `Write` or `WriteFails`. `Updates` are
the bodies that pass `updateJobSchema`; `read` is the row that the merged check saw,
`Consistent` what the table's CHECK lets through. `Stored` is what becomes of
`next_run`, an epoch number that a timestamptz column gets as digits and reads as
year, month and day, if it can. The ten digits of a cron expression's next tick are an
error, or a date of a year of six digits (`Far`). A `run_at` goes the same way, in
milliseconds: its thirteen digits are always an error, and the nine or ten that can
be a date leave a `next_run` of six or seven, with a year of two or three digits: any
date of some years around now, or one long past (`Times`, so the job may fire again). A ONCE row's own `run_at`, used when
only `schedule_type` is sent, may lie anywhere. `WriteFails` is the error.

### Teams

A request is as many steps as it has awaits that matter: `Change` (look up the
actor, read the target, check ranks), `CountOwners`, `Write`, `Invalidate`; or
`Invite` and `InviteWrite`; or `Accept` and `AcceptWrite`. `Load` is the lookup
through the cache and `fills` the values that `loadTeamContext` sends to Redis
without waiting, which may arrive after any later invalidation. Roles stand for
their permissions; a custom role has all of them, which is the most it can be
given, and the rank of a member. A membership keeps the id of its row, because
writes go by it. Foreign keys and unique indexes are guards of the writes.

### ApiKeys

`tx` is how far the transaction that changes a key is: the row written, the cache
invalidated, COMMIT. `req` is a request's place between cache, query, fill and the
mark of its use; `pending` the sorted set, `flush` what each server's flusher has
drained. Uses are numbered, so `lastUsed` can be compared with the last one.

### Sessions

Each service reads (`Login`, `Refresh`, `Present`, ...) and then runs one
transaction (`OpenSession`, `Rotate`, `Use`, ...). Tokens and codes are rows, and
presenting one is choosing its row. Signup is `Init`: it leaves a session and a
pending code to verify the email. A refresh token's `login` and `password` are
history: where its session comes from, and the password that was checked for it. A
code has a `password` too, since a login with two factors checks it before it creates
the challenge (`services/auth.service.js:191`) and not again when the code comes.
`Supersede` and `CreateCode` are the two statements that issue a code: the first
one's snapshot is taken before the second one's row shows. A reset is two steps as
well: `Reset` goes up to the snapshot in which its last statement looks for tokens,
`CommitReset` makes everything show; between them the user's row is locked
(`UserLocked`), but a token may still be inserted.

The four modules of the API name their races in history variables (`raced`,
`late`, `slipped`, `forked`, `crowded`, `overtaken`, `disorder`, `overlap`): an
operation that wrote on facts which had changed since it read them is recorded,
and a property says that nothing else breaks the promise. The code has no lock or
condition that would exclude these races, and the models reach each of them. So
`OwnerRemains`, `CacheExplained`, `OneSessionPerLogin`, `LatestCodeOnce` and
`OptionsAgree` are the sequential rules of these services, kept under any
interleaving but the one that is named; they do not promise that the race is harmless.
Two exceptions need no race: `outlived`, the logins whose challenge survived a reset,
and `retyped`, a `schedule_type` that is checked and not stored. `forked` is wider
than two refreshes of one token: a refresh that overlaps a logout, a reset or a
detected reuse of its token leaves a second session as well.

## Runs

All runs allow the system to rest (`CHECK_DEADLOCK FALSE`): with every execution
finished, or every bounded request made, there is nothing to do. Attempts,
faults, requests and time are bounded by `MaxAttempt(s)`, `MaxFaults`,
`MaxRequests`, `MaxUses` and `MaxTime`.

Passing:

| Run | Bounds | Shows |
|---|---|---|
| `MCOutbox` | 2 executions, the keys of one lapse, 2 relays, sweeps of 2 rows, 2 attempts, 2 faults | first attempts implement `Handoff`, liveness included; where keys live, retries implement its safety |
| `MCExecution` | 2 workers, 2 attempts, both payloads, 2 deliveries before poison, stalls, 1 fault, computed and other delays | never dropped, comes to rest, the job disabled only at the end; without a fault the row follows `Lifecycle` to a final status |
| `MCHttpCall` | 5 URLs of 3 hosts, 72 redirect policies, 72 retry policies, up to 3 attempts, both payloads | chains obey the policy, bodies follow redirects, waits fit, every execution ends |
| `MCMerger` | 2 mergers, batches of 2, 2 executions or one tried twice, 1 fault | rows, hash and acknowledgements agree; a reported result is applied |
| `MCScheduler` | 2 schedulers, 4 jobs (ONCE, skip-ahead, backfill, invalid), claims of 2, depth 2, 3 seconds, 1 fault | ticks in order, none skipped, no drift, budget kept, due jobs scheduled |
| `MCJobApi` | 2 PATCHes that overlap, every body, 2 seconds | a ONCE job fires once and once per new time, and ends disabled unless resumed; options stay legal |
| `MCTeams` | 2 users, 1 custom role, 2 invitations, 2 requests at once, 3 requests, 1 value on its way to the cache, 1 fault | an owner remains; an invitation is used once; cached contexts are fresh |
| `MCApiKeys` | 1 key, 2 requests, 2 flushers, 3 uses, 2 faults | the cache is wrong only for a named reason and heals; uses are reported |
| `MCSessions` | signup and 6 requests, 2 at once, 2 attempts of a code | one session per login; a reset ends sessions; the latest code once; guesses bounded |

The bounds are the smallest in which each hazard occurs: two relays to contend
for a row, two executions in one sweep so that a batch can fail in part, two faults so that a
failure meets a crash during its repair, a batch size below the number of
events, a cap and a budget of 2 below the ticks that can be due, a claim limit
below the number of jobs, two requests because each race of the API is one of two,
three or six requests because the longest of them needs that many (two codes, a
session and their uses; two accepts of an invitation and a removal between them). `MCTeams` grants OWNER and a custom role only, as ADMIN differs from
the custom role by rank alone, and the initial memberships have every role. With `MaxFills` 1 a
second lookup that misses the cache loses its value, which the code allows, too.
With four requests `MCTeams` passes as well (970,000 states, by hand).
`Namesakes` (custom roles named OWNER) is empty in `MCTeams`, `Rejected` (results that
Postgres refuses) in `MCMerger`: what they break is among the divergences below, and
the theorems have both. `MCScheduler` has equal clocks; with a skew of one second the safety properties
hold as well (1.1 million states, too long for the regular run).
Every property has a mutant of the code in `PROJECT.json` that breaks it.

Violated; each is a statement of the code's comments that the code does not keep:

| Run | Statement |
|---|---|
| `MCOutboxLateMark` | "nothing is lost" when the fast path fails: a retry's row can be marked without a push, by a late mark of the row's earlier attempt or by a relay that finds the first attempt's key |
| `MCApiKeysRevoke` | "revocation is effective immediately": the invalidation comes before the COMMIT, so a lookup between them caches the key as valid again |
| `MCJobApiPatch` | a PATCH of the schedule recomputes `next_run`: a CRON job's is written as ten digits, which are no date, or one of a year of six digits |

What else the models and the code disagree on with comments or intent; no run is
spent on it:

* The fast path's payload has no attempt (`scheduler/scheduler.js:238`), and
  `undefined >= max_attempts` is false (`worker/worker.js:393`): a job with
  `max_attempts` 1 is retried (`Execution`: `Exhausted`, `HttpCall`: `MostTries`).
* With a retry strategy that multiplies by the attempt (LINEAR, EXPONENTIAL with or
  without jitter), a failed first attempt from the fast path is never retried, unless
  its answer had a Retry-After that the job honors: its delay is NaN, worker and
  recovery fail alike, and the delivery count ends it (`NoDelay`, `ResettleFails`,
  `Poisoned`; `UnnumberedDelays`, `GivenUp`). With FIBONACCI it is retried at once.
* A worker that dies between `recordExecutionStatus` and `pushExecutionEvent`
  leaves a final status in the hash and no event; recovery acknowledges the entry
  (`recovery/recovery.js:238-242`) and the row never gets its result.
* A worker that dies after scheduling a retry and before XACK has its retry
  scheduled again by recovery, which counts the attempt twice (`ResettleRetry`).
* The poison branch leaves a ONCE job enabled (`Check`).
* A completed event whose text Postgres refuses (a NUL, or a malformed payload)
  rolls its whole batch back for ever (`repositories/execution.repository.js:172`),
  although a malformed payload should not "block the group forever"
  (`merger/merger.js:31`). With `Rejected` not empty, `HealthyApplied` fails.
* `publishOne`'s `true` does not mean that the row's payload was ever pushed
  (`outbox/outbox.js:45`), for the relay passes no `dedupeKey` (line 112).
* More than an hour after the first push, fast path and relay push a retry under
  two keys, and both push it (`Lapsing`, `RetryWait`, `RelayPublish`).
* The jobs of one claim are not processed most overdue first, as
  `scheduler/scheduler.js:150` has it: RETURNING has no order, and a job that is
  left out for the budget may be more overdue than one that is not (`Orders`).
  `SCHEDULER_BATCH_SIZE` invalid jobs starve the rest.
* `createJob` passes `run_at` in milliseconds to `to_timestamp`, which takes
  seconds; `next_run` is right. PATCH checks `schedule_type` and does not store it.
  `max_catchup_per_poll` cannot be cleared by a PATCH, so once it is set backfill
  cannot be turned off. `updateJobSchema` is strict and has no `redirect_policy`.
* Two owners who demote each other at once leave a team without an owner, and a
  custom role named OWNER passes the last-owner check (`raced`, `Namesakes`).
  `updateMemberRoleSchema` asks for a uuid that the ids of system roles are not.
* Two requests that issue a code at once leave two pending codes (`crowded`).
* A reset leaves login challenges alive (`services/auth.service.js:467-471`), and the
  second factor does not look at the password again (250-301): a login under the old
  password, then a reset, then the code gives a session that the reset should have
  excluded (`outlived`). No requests need overlap.
* A PATCH of a ONCE job's `run_at` fails with a 500 unless its milliseconds happen to
  read as a date, and then it is due at one that has nothing to do with it (`Stored`).
* In `executeHttpJob` headers are rebuilt for every hop (line 166), so what lines
  323-330 strip is sent anyway; a POST redirected by GET to its own URL is reported
  as a loop; http to https is another origin, so `allowHttpDowngrade` matters only
  with `allowCrossOrigin`; an invalid Location is a retryable failure.
* A Retry-After or a multiplier without a ceiling may give an invalid date
  (`MaxDelay`, `stuck`); recovery resolves such an execution.

## Fairness

* Outbox: only the relay is fair. It is a timer that fires every five seconds
  and a sweep is a loop to its end; a crashed relay is restarted by its container
  (`restart: unless-stopped`). Producers get none.
* Execution: each process takes its next step, and recovery's timer claims
  what stays pending. Weak fairness of a worker's steps together, for a worker is
  one thread of control.
* Merger: reading and reclaiming are steps of one endless loop, each enabled
  until it happens; a batch in hand goes on.
* Scheduler: a process is restarted, a running one polls, workers read and
  acknowledge. The clock is not fair.
* HttpCall: the event loop runs what is ready, the timer fires, and a fetch that
  it has aborted throws. No target has to answer.
* ApiKeys: requests and transactions in progress go on, a TTL runs out, and each
  server's flusher fires every 30 s. No request has to come.

JobApi, Teams and Sessions have safety properties only. Faults are bounded, so
each fair liveness property says what happens once faults cease.

## Proofs

Every invariant that a passing run checks is a theorem, and so is every action
property and the safety of every refinement, for all sets and bounds that the
modules' named assumptions admit (one needs a hypothesis besides). The type invariants are `TypeCorrect` in each
module (`CallTypeCorrect` for `HttpCall`); the others:

| Module | Theorem | States |
|---|---|---|
| `OutboxProofs` | `MarkFollowsPush` | `MarkedFirstIsPushed`: a first attempt's row is marked after its push |
| | `FirstHandedOff` | `FirstHandoffSafe`: first attempts implement `Handoff` |
| | `EveryOneHandedOff` | `EveryHandoffSafe`: where keys live, retries do as well |
| `SchedulerProofs` | `TicksStayInOrder` | `TicksInOrder` |
| | `NoTickIsSkipped` | `NoTickSkipped` |
| | `CursorsDoNotDrift` | `NoDrift`, an action property |
| | `PollsStayWithinBudget` | `WithinBudget`, an action property |
| `ExecutionProofs` | `ExecutionsAreNeverDropped` | `NeverDropped` |
| | `OnceIsDisabledAtTheEnd` | `DisabledAtTheEnd` |
| | `RowsKeepTheLifecycle` | `LifecycleSafe`, under a hypothesis: see below |
| | `ChainsFollowPolicy` | `ChainFollowsPolicy` |
| | `BodiesFollowRedirects` | `BodyFollowsRedirects` |
| | `WaitsKeepTheirBounds` | `WaitsFit` |
| `MergerProofs` | `OutcomesStayKnown` | `StaysKnown` |
| | `RowsKeepTheirLifecycle` | `RowLifecycle`: each row implements `Lifecycle` |
| `JobApiProofs` | `FiresOnce`, `OptionsStayLegal` | `OnceFiresOnce`, `OptionsAgree` |
| `TeamsProofs` | `OwnersRemain` | `OwnerRemains` |
| | `AcceptedMeansUsed` | `AcceptedIffUsed` |
| | `ContextsAreFresh` | `ContextFresh` |
| `ApiKeysProofs` | `CacheIsExplained` | `CacheExplained` |
| | `UsesReach` | `UsesAccounted`, the safety half of `UsesReported` |
| `SessionsProofs` | `OneSession`, `ResetEnds` | `OneSessionPerLogin`, `ResetEndsSessions` |
| | `CodesOnce`, `GuessesBounded` | `LatestCodeOnce`, `WrongCodesBounded` |

Each rests on an invariant that is inductive, which the property alone seldom is;
every step theorem has one case for each action. What had to be added, and why:

*Outbox.* The mark of a row comes one or more steps after the push that justifies
it, by a process that only remembers that it pushed. The invariant says for each
place where such a memory is kept (a producer's `marking`, a relay's `ok`, a live
dedupe key, the row) that the push it stands for has happened, and for the first
attempt's key that it is live for as long as its row can still be published again.
The last part is what makes `pushed` at most one, and is where `KeyInUse` is needed.
The refinement follows: each step changes `due` as one commit does, or `pushed` of
one due, unsent message, or neither. For retries, a message has one key that stops a
second push (`LiveKey`); `LiveOnce` says that it is there once the message is
pushed. A relay that comes to a later attempt's row then always finds the first
attempt's key, and pushes nothing: the refinement holds because such a row is
skipped, which is also why its mark proves nothing (`MCOutboxLateMark`).

*Scheduler.* A claimed job is in no other poll (`Exclusive`) and still has the run
it was claimed for; a cursor is ahead of all that fired (`Ahead`) and, with backfill,
on a tick (`OnTick`). The ticks of a poll are a recursive function; `TickFrom` is
its closed form, one multiple of the period per tick. That the function is its
closed form, for every input, is proved by the first number at which they would
differ, as the library's induction theorems are out of reach. The budget is a sum over
the claimed jobs in some order: it is proved as the cardinality of a set of
pairs (`Weight`), which does not depend on the order. Hence the assumption that
`Jobs` is finite; a table has finitely many rows.

*Execution.* `Alive` strengthens `NeverDropped`: while nothing is concluded no final
status is anywhere to be found, something moves, and who is about to acknowledge an
entry leaves something that comes after that entry. So an acknowledgement never
takes the last thing in motion. Until something fails, `Orderly` says that the current
attempt is in one place: it waits, or is due, or is one unread entry, or one worker
has it, or there is one final status. `RowsKeepTheLifecycle` assumes that more than
one attempt is allowed or that every payload carries its attempt. Without this it is
false: with `max_attempts` 1 a fast-path payload's first failure is retried
(the first of the divergences above), an attempt more than `Lifecycle` allows.

*HttpCall.* The policy is checked a step before the request that it admits is sent,
so the invariant has to say of the loop's own `url`, `method` and `hasBody` what the
property says of requests: they are what the last redirect makes of the last request
(`Continues`), and the visited URLs include those of all requests (`Chained`). That a
303 to a HEAD would keep its method does not matter, for no job's method is HEAD
(`HttpCallAssumption`, from `createJobSchema`). The type invariant has the limit of
attempts in it: `max_attempts`, or two where one is allowed and the first had no
number (`MostTries`). `WaitsFit` needs that each wait is
what the strategy gives for its attempt, capped, or nothing before the second attempt
when the first had no number (`WaitsFollow`), and that no strategy
gives less for the next one (`DelaysGrow`). `fibonacci` and `Power` are recursive and
have no closed form: `Iterates` proves that a start and a step determine a function
on the natural numbers, which shows that both exist and follow their equations. The
rest is arithmetic: a rounded fraction that is multiplied by one of at least 1
does not shrink (`RoundedGrows`).

*Merger.* A worker reports one final event, after the retries (`Paced`, `Reported`);
an outcome that is recorded is in the hash, or it has been cleared and is in the row
(`Recorded`), because a merger clears what its flush has written (`ClearsResults`).

*JobApi.* `OnceFiresOnce` needs a balance: the firings of a ONCE job and the one that
its `next_run` may still stand for (`Due`) are at most one more than the PATCHes of its
schedule (`Spent`). That it ends disabled is inductive as it stands: a poll opens an
execution, the end of each disables the job, and only a PATCH enables it.
`OptionsAgree` needs that the update of a request in progress is legal together with
the options it saw (`Checked`); a write on other options sets `overlap`.

*Teams.* Who accepts has read an invitation that was not `unused` (`AcceptsKnown`),
and who is about to take an owner away has counted another one (`OthersCounted`).
Every write of a request that read stale facts sets `raced`, so a count made before
an unraced write still holds.

*ApiKeys.* Between a key's invalidation and its COMMIT the cache holds rows only if
they were put there since (`CachedSince`): these are the rows that the COMMIT makes
wrong. The last use of a key is in one of the four places it passes (`OnItsWay`),
and no later one is anywhere (`NothingLater`).

*Sessions.* A refresh in progress has found a session in use and, unless its token
was excused already (`Excused`: slipped, or of a login that outlived a reset), one of
the password in force when it read (`Rotating`). A COMMIT of a reset revokes what its
snapshot had; what was inserted since is `slipped`, and the older excuses are void,
because nothing they excused is left in use. A request
about to create a code consumes all that are pending of its kind (`Creating`). Two
bounds are by counting, and are why `Requests` is assumed finite: the requests whose
wrong code has not been written yet count with the attempts (`CountedOnce`), and the
requests in progress with the tokens and codes (`Counted`), since each may still
add one and none adds two.

Only model-checked:

* Liveness, which is out of the prover's reach: `FirstHandoff`, `ComesToRest`,
  `Concludes`, `HealthyApplied`, `DueIsScheduled`, `CacheSettles`, `UsesReported`,
  `CallEnds`.
* The history variables of the API's modules are named in the statements: that a race
  really breaks a promise where they allow it, only TLC shows.

## Not modelled

* Mail queue: delivery, retries and backoff are BullMQ's; this code enqueues and
  sends.
* Retention: statements that drop partitions and rows by age; what a drop does to
  a reader is Postgres' business.
* Which addresses and hosts the SSRF guard refuses, headers and credentials of
  the call, TLS: data without control; `HttpCall` has the refusal as an input.
* Recovery's scan limit, trimmed entries, entries without a payload; the creation
  of the consumer groups; history queries, partitions, lists.
* Graceful shutdown of each process: it waits for what is in flight, and when it
  does not wait long enough it is a crash, which the models have.
* Creating teams and custom roles, and a team's name: the former is one
  transaction about new rows, which nobody else knows yet; the team of `Teams`
  exists and has its roles.
* The cascade that deletes a team's API keys with the team: it invalidates no cached
  row, so a key stays valid until its entry expires (45 s). `ApiKeys` has the create
  and the revocation of a key.
* HTTP server, routing, validation messages, configuration, logging.

Worth doing next: a composition of `Scheduler`, `Outbox`, `Execution` and `Merger`
through the abstract statement of each.
