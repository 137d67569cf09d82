------------------------------- MODULE Outbox -------------------------------
(***************************************************************************)
(* The transactional outbox: how an execution decided in Postgres becomes  *)
(* an entry of the Redis stream the workers read.                          *)
(*                                                                         *)
(* A message <<e, a>> is "run attempt a of execution e".  Two producers    *)
(* commit messages: the scheduler poll (first attempts) and the retry      *)
(* sweep (later ones).  The commit writes the execution's row of           *)
(* execution_outbox, unpublished; the producer then publishes its batch    *)
(* itself (the fast path: run PUBLISH_SCRIPT, then mark the row), one item *)
(* after the other, and relays sweep up the rows still unpublished.        *)
(* Either path may find the other's dedupe key in Redis.                   *)
(*                                                                         *)
(* Abstracted: the payload (a message stands for it), publish_attempts     *)
(* (nothing reads it), and real time: staleAfter, retry_at and the cron    *)
(* ticks may elapse at any moment, so any unpublished row may be stale.    *)
(***************************************************************************)
EXTENDS Naturals, FiniteSets

CONSTANTS
  Execs,        \* executions (rows of job_executions, one outbox row each)
  Relays,       \* outbox relay instances
  MaxAttempt,   \* bound: the largest attempt number an execution reaches
  RelayLimit,   \* LIMIT of one relay sweep
  Lapsing,      \* the executions whose dedupe keys' TTL may run out
  MaxFaults     \* bound: how many crashes, errors and rollbacks happen

ASSUME OutboxAssumption ==
  /\ MaxAttempt \in Nat \ {0}
  /\ RelayLimit \in Nat \ {0}
  /\ Lapsing \subseteq Execs
  /\ MaxFaults \in Nat

Producers == {"scheduler", "retry"}
Attempts  == 1 .. MaxAttempt
Messages  == Execs \X Attempts
\* <<e, 0>> is the key execution_id, <<e, a>> the key `${execution_id}:${a}`
Keys      == Execs \X (0 .. MaxAttempt)

VARIABLES
  status,      \* job_executions.status: "none", "queued" or "retry_wait"
  attempt,     \* job_executions.attempt
  rowAttempt,  \* the attempt the outbox row's payload is for; 0: no row
  published,   \* executions whose outbox row has published_at set
  keys,        \* the live dedupe keys in Redis
  pushed,      \* how many stream entries each message has been given
  due,         \* history: the messages a transaction has committed
  todo,        \* per producer: committed messages it has still to publish
  marking,     \* per producer: the message pushed and not yet marked
  claimed,     \* per relay: executions whose outbox rows it holds locked
  untried,     \* per relay: claimed rows it has not published yet
  ok,          \* per relay: claimed rows whose publishOne returned true
  faults       \* how many faults have happened

pgVars    == <<status, attempt, rowAttempt, published, due>>
redisVars == <<keys, pushed>>
prodVars  == <<todo, marking>>
relayVars == <<claimed, untried, ok>>
vars      == <<pgVars, redisVars, prodVars, relayVars, faults>>

Init ==
  /\ status = [e \in Execs |-> "none"]
  /\ attempt = [e \in Execs |-> 0]
  /\ rowAttempt = [e \in Execs |-> 0]
  /\ published = {}
  /\ keys = {}
  /\ pushed = [m \in Messages |-> 0]
  /\ due = {}
  /\ todo = [p \in Producers |-> {}]
  /\ marking = [p \in Producers |-> {}]
  /\ claimed = [r \in Relays |-> {}]
  /\ untried = [r \in Relays |-> {}]
  /\ ok = [r \in Relays |-> {}]
  /\ faults = 0

-----------------------------------------------------------------------------
(* What the actions are built from.                                        *)

Idle(p) == todo[p] = {} /\ marking[p] = {}

\* FOR UPDATE: the row stays locked until the relay's transaction ends, and
\* every other writer of the row waits for it.
Locked(e) == \E r \in Relays : e \in claimed[r]

Unpublished == {e \in Execs : rowAttempt[e] > 0 /\ e \notin published}

\* Mutant: the scheduler keys its messages like the retry sweep does.
KeyOfAttempt(p, m) == m

\* The dedupe key each producer passes for a message.
KeyOf(p, m) == IF p = "scheduler" THEN <<m[1], 0>> ELSE m

\* PUBLISH_SCRIPT: one atomic step of Redis.  A live key means no XADD.
RunScript(key, m) ==
  IF key \in keys
    THEN UNCHANGED redisVars
    ELSE /\ keys' = keys \cup {key}
         /\ pushed' = [pushed EXCEPT ![m] = @ + 1]

Fault == faults < MaxFaults /\ faults' = faults + 1

-----------------------------------------------------------------------------
(* The producers.                                                          *)

\* One scheduler poll commits: execution rows, attempt 1, and outbox rows.
ScheduleCommit(S) ==
  /\ Idle("scheduler")
  /\ S # {}
  /\ \A e \in S : status[e] = "none"
  /\ status' = [e \in Execs |-> IF e \in S THEN "queued" ELSE status[e]]
  /\ attempt' = [e \in Execs |-> IF e \in S THEN 1 ELSE attempt[e]]
  /\ rowAttempt' = [e \in Execs |-> IF e \in S THEN 1 ELSE rowAttempt[e]]
  /\ due' = due \cup (S \X {1})
  /\ todo' = [todo EXCEPT !["scheduler"] = S \X {1}]
  /\ UNCHANGED <<published, redisVars, marking, relayVars, faults>>

\* Mutant: the payload's attempt is bumped although RetryWait has bumped it.
RetryCommitBumps(S) ==
  /\ Idle("retry")
  /\ S # {}
  /\ \A e \in S : status[e] = "retry_wait" /\ ~Locked(e)
  /\ status' = [e \in Execs |-> IF e \in S THEN "queued" ELSE status[e]]
  /\ rowAttempt' = [e \in Execs |-> IF e \in S THEN attempt[e] + 1 ELSE rowAttempt[e]]
  /\ published' = published \ S
  /\ due' = due \cup {<<e, attempt[e]>> : e \in S}
  /\ todo' = [todo EXCEPT !["retry"] = {<<e, attempt[e]>> : e \in S}]
  /\ UNCHANGED <<attempt, redisVars, marking, relayVars, faults>>

\* One retry sweep commits: the due rows go back to queued and their outbox
\* rows back to unpublished, with the payload of the new attempt.
RetryCommit(S) ==
  /\ Idle("retry")
  /\ S # {}
  /\ \A e \in S : status[e] = "retry_wait" /\ ~Locked(e)
  /\ status' = [e \in Execs |-> IF e \in S THEN "queued" ELSE status[e]]
  /\ rowAttempt' = [e \in Execs |-> IF e \in S THEN attempt[e] ELSE rowAttempt[e]]
  /\ published' = published \ S
  /\ due' = due \cup {<<e, attempt[e]>> : e \in S}
  /\ todo' = [todo EXCEPT !["retry"] = {<<e, attempt[e]>> : e \in S}]
  /\ UNCHANGED <<attempt, redisVars, marking, relayVars, faults>>

\* publishOne of the fast path succeeds, whether or not the script pushed.
FastPublish(p, m) ==
  /\ marking[p] = {}
  /\ m \in todo[p]
  /\ RunScript(KeyOf(p, m), m)
  /\ todo' = [todo EXCEPT ![p] = @ \ {m}]
  /\ marking' = [marking EXCEPT ![p] = {m}]
  /\ UNCHANGED <<pgVars, relayVars, faults>>

\* publishOne fails: Redis did not run the script, or ran it and the reply
\* was lost.  The item is left to the relay.
FastPublishFails(p, m) ==
  /\ marking[p] = {}
  /\ m \in todo[p]
  /\ Fault
  /\ RunScript(KeyOf(p, m), m) \/ UNCHANGED redisVars
  /\ todo' = [todo EXCEPT ![p] = @ \ {m}]
  /\ UNCHANGED <<pgVars, marking, relayVars>>

\* markOutboxPublished: by execution_id only, whatever payload the row holds
\* by now; it waits for a relay's row lock.
FastMark(p, m) ==
  /\ m \in marking[p]
  /\ ~Locked(m[1])
  /\ published' = published \cup {m[1]}
  /\ marking' = [marking EXCEPT ![p] = {}]
  /\ UNCHANGED <<status, attempt, rowAttempt, due, redisVars, todo, relayVars,
                 faults>>

\* The update throws: publishClaimedBatch logs it and takes the next item.
FastMarkFails(p) ==
  /\ marking[p] # {}
  /\ Fault
  /\ marking' = [marking EXCEPT ![p] = {}]
  /\ UNCHANGED <<pgVars, redisVars, todo, relayVars>>

\* The producer's process dies after its commit: the rest of the batch is
\* forgotten.
ProducerCrash(p) ==
  /\ ~Idle(p)
  /\ Fault
  /\ todo' = [todo EXCEPT ![p] = {}]
  /\ marking' = [marking EXCEPT ![p] = {}]
  /\ UNCHANGED <<pgVars, redisVars, relayVars>>

-----------------------------------------------------------------------------
(* The relay.                                                              *)

\* claimUnpublishedOutboxBatch: SKIP LOCKED, at most RelayLimit rows.
RelayClaim(r) ==
  /\ claimed[r] = {}
  /\ \E S \in SUBSET {e \in Unpublished : ~Locked(e)} :
       /\ S # {}
       /\ \/ S = {e \in Unpublished : ~Locked(e)} /\ Cardinality(S) <= RelayLimit
          \/ Cardinality(S) = RelayLimit
       /\ claimed' = [claimed EXCEPT ![r] = S]
       /\ untried' = [untried EXCEPT ![r] = S]
       /\ UNCHANGED <<pgVars, redisVars, prodVars, ok, faults>>

\* publishOne without a dedupeKey: the key is the execution_id whatever
\* attempt the row is for.
RelayPublish(r, e) ==
  /\ e \in untried[r]
  /\ RunScript(<<e, 0>>, <<e, rowAttempt[e]>>)
  /\ untried' = [untried EXCEPT ![r] = @ \ {e}]
  /\ ok' = [ok EXCEPT ![r] = @ \cup {e}]
  /\ UNCHANGED <<pgVars, prodVars, claimed, faults>>

\* publishOne returns false; the row is only given one more attempt.
RelayPublishFails(r, e) ==
  /\ e \in untried[r]
  /\ Fault
  /\ RunScript(<<e, 0>>, <<e, rowAttempt[e]>>) \/ UNCHANGED redisVars
  /\ untried' = [untried EXCEPT ![r] = @ \ {e}]
  /\ UNCHANGED <<pgVars, prodVars, claimed, ok>>

\* Mutant: the sweep marks all it claimed.
RelayCommitAll(r) ==
  /\ claimed[r] # {}
  /\ untried[r] = {}
  /\ published' = published \cup claimed[r]
  /\ claimed' = [claimed EXCEPT ![r] = {}]
  /\ ok' = [ok EXCEPT ![r] = {}]
  /\ UNCHANGED <<status, attempt, rowAttempt, due, redisVars, prodVars, untried,
                 faults>>

\* The sweep ends: what was published is marked, the locks are released.
RelayCommit(r) ==
  /\ claimed[r] # {}
  /\ untried[r] = {}
  /\ published' = published \cup ok[r]
  /\ claimed' = [claimed EXCEPT ![r] = {}]
  /\ ok' = [ok EXCEPT ![r] = {}]
  /\ UNCHANGED <<status, attempt, rowAttempt, due, redisVars, prodVars, untried,
                 faults>>

\* The sweep rolls back, or its process dies: nothing is marked, but what
\* the script did to Redis stays done.
RelayAbort(r) ==
  /\ claimed[r] # {}
  /\ Fault
  /\ claimed' = [claimed EXCEPT ![r] = {}]
  /\ untried' = [untried EXCEPT ![r] = {}]
  /\ ok' = [ok EXCEPT ![r] = {}]
  /\ UNCHANGED <<pgVars, redisVars, prodVars>>

-----------------------------------------------------------------------------
(* The environment.                                                        *)

\* markExecutionRetryWait, by a worker or by recovery that has an entry of e
\* in hand: unconditional, so a later attempt may be put back to waiting too.
RetryWait(e) ==
  /\ \E a \in Attempts : pushed[<<e, a>>] > 0
  /\ attempt[e] < MaxAttempt
  /\ status' = [status EXCEPT ![e] = "retry_wait"]
  /\ attempt' = [attempt EXCEPT ![e] = @ + 1]
  /\ UNCHANGED <<rowAttempt, published, due, redisVars, prodVars, relayVars,
                 faults>>

\* A key's hour runs out.  An hour outlives every push the key was set for:
\* no producer still holds a message with this key, and the first attempt's
\* key outlives its row's wait to be marked.
KeyInUse(k) ==
  \/ \E p \in Producers : \E m \in todo[p] : KeyOf(p, m) = k
  \/ k[2] = 0 /\ rowAttempt[k[1]] = 1 /\ k[1] \notin published

Lapse(k) ==
  /\ k \in keys
  /\ k[1] \in Lapsing
  /\ ~KeyInUse(k)
  /\ keys' = keys \ {k}
  /\ UNCHANGED <<pgVars, pushed, prodVars, relayVars, faults>>

-----------------------------------------------------------------------------
Next ==
  \/ \E S \in SUBSET Execs : ScheduleCommit(S) \/ RetryCommit(S)
  \/ \E p \in Producers, m \in Messages :
       FastPublish(p, m) \/ FastPublishFails(p, m) \/ FastMark(p, m)
  \/ \E p \in Producers : FastMarkFails(p) \/ ProducerCrash(p)
  \/ \E r \in Relays : RelayClaim(r) \/ RelayCommit(r) \/ RelayAbort(r)
  \/ \E r \in Relays, e \in Execs : RelayPublish(r, e) \/ RelayPublishFails(r, e)
  \/ \E e \in Execs : RetryWait(e)
  \/ \E k \in Keys : Lapse(k)

Spec == Init /\ [][Next]_vars

\* The relay is a timer: it keeps sweeping, and a sweep that has begun runs
\* to its end.  Nothing is assumed of the producers, which may have died.
Fairness ==
  \A r \in Relays :
    /\ WF_vars(RelayClaim(r))
    /\ \A e \in Execs : WF_vars(RelayPublish(r, e))
    /\ WF_vars(RelayCommit(r))

FairSpec == Spec /\ Fairness

-----------------------------------------------------------------------------
(* Properties.                                                             *)

\* The shape of the state.
TypeOK ==
  /\ status \in [Execs -> {"none", "queued", "retry_wait"}]
  /\ attempt \in [Execs -> 0 .. MaxAttempt]
  /\ rowAttempt \in [Execs -> 0 .. MaxAttempt]
  /\ published \subseteq Execs
  /\ keys \subseteq Keys
  /\ pushed \in [Messages -> Nat]
  /\ due \subseteq Messages
  /\ todo \in [Producers -> SUBSET Messages]
  /\ marking \in [Producers -> SUBSET Messages]
  /\ claimed \in [Relays -> SUBSET Execs]
  /\ untried \in [Relays -> SUBSET Execs]
  /\ ok \in [Relays -> SUBSET Execs]
  /\ faults \in 0 .. MaxFaults

\* A first attempt's outbox row is marked published only when the stream has
\* its entry: whoever crashes between script and mark, and whichever path
\* finds the other's dedupe key, the mark never gets ahead of the push.
MarkedFirstIsPushed ==
  \A e \in published : rowAttempt[e] = 1 => pushed[<<e, 1>>] > 0

\* What publishClaimedBatch's comment promises executions and retries alike:
\* a message its producer has let go of is pushed, or its row is still there
\* for the relay.
NothingLost ==
  \A e \in published :
    LET m == <<e, rowAttempt[e]>>
    IN  rowAttempt[e] > 0 => pushed[m] > 0 \/ \E p \in Producers : m \in todo[p]

-----------------------------------------------------------------------------
(* What the outbox promises, as the abstract Handoff of committed messages. *)

FirstMessages == Execs \X {1}

First == INSTANCE Handoff WITH
           Messages <- FirstMessages,
           due <- due \cap FirstMessages,
           sent <- [m \in FirstMessages |-> pushed[m]]

\* A first attempt is sent only after its commit and never twice, keys
\* lapsing or not.
FirstHandoffSafe == First!Spec

\* "nothing is lost": and it is sent in the end, whatever became of the
\* scheduler after its commit.
FirstHandoff == First!FairSpec

LiveMessages == (Execs \ Lapsing) \X Attempts

Live == INSTANCE Handoff WITH
          Messages <- LiveMessages,
          due <- due \cap LiveMessages,
          sent <- [m \in LiveMessages |-> pushed[m]]

\* Where the dedupe keys live, the same for executions and retries alike: no
\* attempt is sent before its commit, or twice by fast path and relay.
EveryHandoffSafe == Live!Spec
=============================================================================
