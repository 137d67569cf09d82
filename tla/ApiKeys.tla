------------------------------- MODULE ApiKeys -------------------------------
(***************************************************************************)
(* The API keys of one prefix: their rows, the cache of the rows that      *)
(* authenticateApiKey decides on, and when a key was last used.            *)
(*                                                                         *)
(* A request looks the prefix up in Redis, else in Postgres, and puts what *)
(* it read into the cache before it decides.  Creating and revoking a key  *)
(* drop the cached rows inside their transaction, before its COMMIT.  An   *)
(* accepted request marks its key used in a sorted set of Redis, which a   *)
(* flusher of every API server drains and writes to Postgres each 30 s.    *)
(*                                                                         *)
(* Abstracted: the secret and its hash (a request presents the key it      *)
(* means), scopes (a key never changes them), the team.  A rejected and an *)
(* answered request are the same to this state.                            *)
(***************************************************************************)
EXTENDS Naturals, FiniteSets

CONSTANTS
  Keys,       \* keys that share the prefix
  Requests,   \* requests that may be in progress at once, of any server
  Flushers,   \* flushes that may run at once: one per server, and its last one
  MaxUses,    \* bound: how many requests are accepted
  MaxFaults   \* bound: how many crashes and errors happen

ASSUME ApiKeysAssumption == MaxUses \in Nat /\ MaxFaults \in Nat

Status == {"absent", "valid", "revoked"}
Rows   == [Keys -> Status]   \* what a query for the prefix returns
Miss   == [k \in {} |-> k]   \* nothing is cached
Times  == 0 .. MaxUses       \* an accepted request's number; 0: none

VARIABLES
  key,      \* per key: its committed row
  tx,       \* per key: how far the transaction that changes it is
  cache,    \* the cached rows of the prefix, or Miss
  req,      \* per request: the key presented, how far it is, what it has read
  pending,  \* the sorted set: per key, the time marked, or 0
  flush,    \* per flusher: what it has drained and not yet written
  lastUsed, \* per key: api_keys.last_used_at
  uses,     \* how many requests have been accepted
  used,     \* history: per key, its last use
  refilled, \* history: keys cached anew since their change invalidated them
  late,     \* history: keys whose cached row is out of date, explained
  disorder, \* history: an older time of use has overwritten a later one
  faults    \* how many faults have happened

rowVars  == <<key, tx>>
lookVars == <<cache, refilled, late>>
useVars  == <<pending, flush, lastUsed, uses, used, disorder>>
vars     == <<rowVars, lookVars, req, useVars, faults>>

Idle  == [step |-> "idle"]
Never == [k \in Keys |-> 0]

Init ==
  /\ key \in [Keys -> {"absent", "valid"}]
  /\ tx = [k \in Keys |-> "none"]
  /\ cache = Miss
  /\ req = [q \in Requests |-> Idle]
  /\ pending = Never /\ lastUsed = Never /\ used = Never
  /\ flush = [f \in Flushers |-> Never]
  /\ uses = 0
  /\ refilled = {} /\ late = {}
  /\ disorder = FALSE
  /\ faults = 0

Fault == faults < MaxFaults /\ faults' = faults + 1

-----------------------------------------------------------------------------
(* createApiKeyService and revokeApiKeyService.  A second revocation of a  *)
(* key waits for the first one's row lock and then finds nothing to do.    *)

Changed == [absent |-> "valid", valid |-> "revoked"]

\* BEGIN and the INSERT, or the UPDATE of a row with revoked_at IS NULL
Change(k) ==
  /\ key[k] \in DOMAIN Changed
  /\ tx[k] = "none"
  /\ tx' = [tx EXCEPT ![k] = "written"]
  /\ UNCHANGED <<key, lookVars, req, useVars, faults>>

\* invalidateApiKeyCache; it catches its errors, so the change goes on.
Invalidate(k) ==
  /\ tx[k] = "written"
  /\ tx' = [tx EXCEPT ![k] = "invalidated"]
  /\ cache' = Miss
  /\ late' = {}
  /\ refilled' = refilled \ {k}
  /\ UNCHANGED <<key, req, useVars, faults>>

InvalidateFails(k) ==
  /\ tx[k] = "written"
  /\ Fault
  /\ tx' = [tx EXCEPT ![k] = "invalidated"]
  /\ refilled' = refilled \cup {k}
  /\ UNCHANGED <<key, cache, late, req, useVars>>

\* Mutant: the key is committed without the invalidation.
CommitUncached(k) ==
  /\ tx[k] \in {"written", "invalidated"}
  /\ tx' = [tx EXCEPT ![k] = "none"]
  /\ key' = [key EXCEPT ![k] = Changed[@]]
  /\ late' = late \cup ({k} \cap refilled)
  /\ refilled' = refilled \ {k}
  /\ UNCHANGED <<cache, req, useVars, faults>>

\* COMMIT: rows cached since the invalidation show the key as it was.
Commit(k) ==
  /\ tx[k] = "invalidated"
  /\ tx' = [tx EXCEPT ![k] = "none"]
  /\ key' = [key EXCEPT ![k] = Changed[@]]
  /\ late' = late \cup ({k} \cap refilled)
  /\ refilled' = refilled \ {k}
  /\ UNCHANGED <<cache, req, useVars, faults>>

\* The process or the database fails, and the change is rolled back.
Rollback(k) ==
  /\ tx[k] # "none"
  /\ Fault
  /\ tx' = [tx EXCEPT ![k] = "none"]
  /\ refilled' = refilled \ {k}
  /\ UNCHANGED <<key, cache, late, req, useVars>>

-----------------------------------------------------------------------------
(* authenticateApiKey and findByPrefix.                                    *)

\* The checks on the row, next(), and the mark that nobody waits for.  A row
\* that is valid may still have reached its expires_at.
Decide(q, k, rows) ==
  \/ /\ rows[k] = "valid"
     /\ uses < MaxUses
     /\ uses' = uses + 1
     /\ used' = [used EXCEPT ![k] = uses + 1]
     /\ req' = [req EXCEPT ![q] = [step |-> "mark", key |-> k, time |-> uses + 1]]
  \/ /\ req' = [req EXCEPT ![q] = Idle]
     /\ UNCHANGED <<uses, used>>

\* getCachedCandidates: a hit is decided at once.
Hit(q, k) ==
  /\ req[q] = Idle
  /\ cache # Miss
  /\ Decide(q, k, cache)
  /\ UNCHANGED <<rowVars, lookVars, pending, flush, lastUsed, disorder, faults>>

\* A miss, or an error, which is treated as one.
GoesToPostgres(q, k) ==
  /\ req[q] = Idle
  /\ IF cache = Miss THEN UNCHANGED faults ELSE Fault
  /\ req' = [req EXCEPT ![q] = [step |-> "query", key |-> k]]
  /\ UNCHANGED <<rowVars, lookVars, useVars>>

\* The candidates' rows, as they are committed.
Query(q) ==
  /\ req[q].step = "query"
  /\ req' = [req EXCEPT ![q] = [step |-> "fill", key |-> @.key, rows |-> key]]
  /\ UNCHANGED <<rowVars, lookVars, useVars, faults>>

\* setCachedCandidates, also of no rows at all, and then the decision on what
\* was read.
Fill(q) ==
  /\ req[q].step = "fill"
  /\ cache' = req[q].rows
  /\ late' = {k \in Keys : cache'[k] # key[k]}
  /\ refilled' = refilled \cup {k \in Keys : tx[k] = "invalidated"}
  /\ Decide(q, req[q].key, req[q].rows)
  /\ UNCHANGED <<rowVars, pending, flush, lastUsed, disorder, faults>>

FillFails(q) ==
  /\ req[q].step = "fill"
  /\ Fault
  /\ Decide(q, req[q].key, req[q].rows)
  /\ UNCHANGED <<rowVars, lookVars, pending, flush, lastUsed, disorder>>

\* Mutant: rows of a valid key are cached without a TTL.
ExpireNegatives ==
  /\ cache # Miss
  /\ \A k \in Keys : cache[k] # "valid"
  /\ cache' = Miss
  /\ late' = {}
  /\ UNCHANGED <<rowVars, refilled, req, useVars, faults>>

\* CACHE_TTL_SECONDS have passed.
ExpireCache ==
  /\ cache # Miss
  /\ cache' = Miss
  /\ late' = {}
  /\ UNCHANGED <<rowVars, refilled, req, useVars, faults>>

-----------------------------------------------------------------------------
(* When a key was last used.                                               *)

\* Mutant: ZADD NX.
MarkFirstUse(q) ==
  /\ req[q].step = "mark"
  /\ LET k == req[q].key
     IN  /\ pending' = [pending EXCEPT ![k] = IF @ = 0 THEN req[q].time ELSE @]
         /\ disorder' = (disorder \/ req[q].time < pending[k])
  /\ req' = [req EXCEPT ![q] = Idle]
  /\ UNCHANGED <<rowVars, lookVars, flush, lastUsed, uses, used, faults>>

\* Mutant: the time is the coming use's, not this one's.
MarkNextUse(q) ==
  /\ req[q].step = "mark"
  /\ pending' = [pending EXCEPT ![req[q].key] = uses + 1]
  /\ req' = [req EXCEPT ![q] = Idle]
  /\ UNCHANGED <<rowVars, lookVars, flush, lastUsed, uses, used, disorder, faults>>

\* markKeyUsed: ZADD, so the last mark to arrive wins.
MarkUsed(q) ==
  /\ req[q].step = "mark"
  /\ LET k == req[q].key
     IN  /\ pending' = [pending EXCEPT ![k] = req[q].time]
         /\ disorder' = (disorder \/ req[q].time < pending[k])
  /\ req' = [req EXCEPT ![q] = Idle]
  /\ UNCHANGED <<rowVars, lookVars, flush, lastUsed, uses, used, faults>>

\* The request's process dies, at any of its steps, or its mark is lost.
RequestDies(q) ==
  /\ req[q] # Idle
  /\ Fault
  /\ req' = [req EXCEPT ![q] = Idle]
  /\ UNCHANGED <<rowVars, lookVars, useVars>>

\* drainPendingLastUsed; flushRunning keeps a flusher from starting again.
Drain(f) ==
  /\ flush[f] = Never
  /\ pending # Never
  /\ flush' = [flush EXCEPT ![f] = pending]
  /\ pending' = Never
  /\ UNCHANGED <<rowVars, lookVars, req, lastUsed, uses, used, disorder, faults>>

Batch(f) == {k \in Keys : flush[f][k] > 0}

\* touchLastUsedBatch: whatever time the rows have by now.
TouchLastUsed(f) ==
  /\ flush[f] # Never
  /\ lastUsed' = [k \in Keys |-> IF k \in Batch(f) THEN flush[f][k] ELSE lastUsed[k]]
  /\ disorder' = (disorder \/ \E k \in Batch(f) : flush[f][k] < lastUsed[k])
  /\ flush' = [flush EXCEPT ![f] = Never]
  /\ UNCHANGED <<rowVars, lookVars, req, pending, uses, used, faults>>

\* The statement fails, or the process dies: what was drained is lost.
FlushFails(f) ==
  /\ flush[f] # Never
  /\ Fault
  /\ flush' = [flush EXCEPT ![f] = Never]
  /\ UNCHANGED <<rowVars, lookVars, req, pending, lastUsed, uses, used, disorder>>

-----------------------------------------------------------------------------
Answer(q) == Query(q) \/ Fill(q) \/ MarkUsed(q)

Next ==
  \/ \E k \in Keys :
       \/ Change(k) \/ Invalidate(k) \/ InvalidateFails(k) \/ Commit(k)
       \/ Rollback(k)
  \/ \E q \in Requests :
       \/ \E k \in Keys : Hit(q, k) \/ GoesToPostgres(q, k)
       \/ Answer(q) \/ FillFails(q) \/ RequestDies(q)
  \/ ExpireCache
  \/ \E f \in Flushers : Drain(f) \/ TouchLastUsed(f) \/ FlushFails(f)

Spec == Init /\ [][Next]_vars

\* Requests and transactions in progress go on, a cached value's TTL runs, and
\* each server flushes every 30 s.
Fairness ==
  /\ \A q \in Requests : WF_vars(Answer(q))
  /\ \A k \in Keys : WF_vars(Invalidate(k) \/ Commit(k))
  /\ WF_vars(ExpireCache)
  /\ \A f \in Flushers : WF_vars(Drain(f) \/ TouchLastUsed(f))

FairSpec == Spec /\ Fairness

-----------------------------------------------------------------------------
(* Properties.                                                             *)

\* The shape of the state.
TypeOK ==
  /\ key \in Rows
  /\ tx \in [Keys -> {"none", "written", "invalidated"}]
  /\ cache \in Rows \cup {Miss}
  /\ req \in [Requests -> [step : {"idle"}]
                          \cup [step : {"query"}, key : Keys]
                          \cup [step : {"fill"}, key : Keys, rows : Rows]
                          \cup [step : {"mark"}, key : Keys, time : Times]]
  /\ pending \in [Keys -> Times] /\ lastUsed \in [Keys -> Times]
  /\ flush \in [Flushers -> [Keys -> Times]]
  /\ uses \in Times /\ used \in [Keys -> Times]
  /\ refilled \subseteq Keys /\ late \subseteq Keys
  /\ disorder \in BOOLEAN
  /\ faults \in 0 .. MaxFaults

\* The cache does not hide a revocation, and a cached "no such key" does not
\* hide a new key, but for the lookups that overlap the change: those that put
\* what they read before it into the cache after the invalidation, which comes
\* before the COMMIT.
CacheExplained ==
  cache # Miss => \A k \in Keys : cache[k] = key[k] \/ k \in late

\* And those heal: in the end the cache and whoever fills it agree with the
\* rows, so a revoked key is refused and a new one found.
CacheSettles ==
  <>[](/\ cache \in {Miss, key}
       /\ \A q \in Requests : req[q].step = "fill" => req[q].rows = key)

\* "Explicit invalidation so revocation is effective immediately": no request
\* is decided on a cached row from before its revocation.
RevokedAtOnce ==
  \A k \in Keys :
    key[k] = "revoked" /\ faults = 0 => cache = Miss \/ cache[k] = "revoked"

\* No use is dropped between a request, the drain and the batch: last_used_at
\* becomes the time of the last use, unless a fault lost it, or marks or
\* batches of two servers arrived in the wrong order.
UsesReported ==
  <>[](faults = 0 /\ ~disorder => \A k \in Keys : lastUsed[k] = used[k])
=============================================================================
