--------------------------- MODULE ApiKeysProofs ---------------------------
(***************************************************************************)
(* ApiKeys for every set of keys, requests and flushers: only a lookup     *)
(* that overlaps a change leaves a wrong row in the cache.                 *)
(***************************************************************************)
EXTENDS ApiKeys, TLAPS

\* Between a key's invalidation and its commit, rows are in the cache only if
\* they were put there since.
CachedSince ==
  cache # Miss => \A k \in Keys : tx[k] = "invalidated" => k \in refilled

\* A key under change is one that can be changed.
Changing == \A k \in Keys : tx[k] # "none" => key[k] \in {"absent", "valid"}

IInv == TypeOK /\ Changing /\ CachedSince /\ CacheExplained

\* What the requests in progress have of their types.
Steps == [step : {"idle"}]
           \cup [step : {"query"}, key : Keys]
           \cup [step : {"fill"}, key : Keys, rows : Rows]
           \cup [step : {"mark"}, key : Keys, time : Times]

LEMMA DecideType ==
  ASSUME TypeOK, NEW q \in Requests, NEW k \in Keys, NEW rows, Decide(q, k, rows)
  PROVE  /\ req' \in [Requests -> Steps]
         /\ uses' \in Times /\ used' \in [Keys -> Times]
<1> USE ApiKeysAssumption DEF TypeOK, Steps
<1>1. CASE /\ uses < MaxUses
           /\ uses' = uses + 1
           /\ used' = [used EXCEPT ![k] = uses + 1]
           /\ req' = [req EXCEPT ![q] = [step |-> "mark", key |-> k, time |-> uses + 1]]
  <2>1. uses + 1 \in Times
    BY <1>1 DEF Times
  <2>2. [step |-> "mark", key |-> k, time |-> uses + 1] \in Steps
    BY <2>1
  <2> QED BY <1>1, <2>1, <2>2
<1>2. CASE req' = [req EXCEPT ![q] = Idle] /\ UNCHANGED <<uses, used>>
  BY <1>2 DEF Idle
<1> QED BY <1>1, <1>2 DEF Decide

LEMMA Initially == Init => IInv
<1> SUFFICES ASSUME Init PROVE IInv
  OBVIOUS
<1> USE ApiKeysAssumption DEF Init
<1>1. 0 \in Times /\ Never \in [Keys -> Times]
  BY DEF Times, Never
<1>2. req \in [Requests -> Steps]
  BY DEF Steps, Idle
<1>3. key \in Rows /\ tx \in [Keys -> {"none", "written", "invalidated"}]
  BY DEF Rows, Status
<1>4. /\ pending \in [Keys -> Times] /\ lastUsed \in [Keys -> Times]
      /\ used \in [Keys -> Times] /\ flush \in [Flushers -> [Keys -> Times]]
  BY <1>1
<1>5. /\ uses \in Times /\ faults \in 0 .. MaxFaults /\ disorder \in BOOLEAN
      /\ refilled \subseteq Keys /\ late \subseteq Keys /\ cache \in Rows \cup {Miss}
  <2>1. uses \in Times /\ faults \in 0 .. MaxFaults
    BY <1>1
  <2>2. cache \in Rows \cup {Miss} /\ disorder \in BOOLEAN
    BY Zenon
  <2>3. refilled \subseteq Keys /\ late \subseteq Keys
    OBVIOUS
  <2> QED BY <2>1, <2>2, <2>3
<1>6. TypeOK
  BY <1>2, <1>3, <1>4, <1>5, Zenon DEF TypeOK, Steps
<1>7. CachedSince /\ CacheExplained /\ Changing
  BY DEF CachedSince, CacheExplained, Changing
<1> QED BY <1>6, <1>7 DEF IInv

-----------------------------------------------------------------------------
(* The changes of a key.                                                   *)

LEMMA ChangeStep ==
  ASSUME IInv, NEW k \in Keys, Change(k)
  PROVE  IInv'
<1> USE DEF IInv, Change, lookVars, useVars
<1>1. tx' \in [Keys -> {"none", "written", "invalidated"}]
  BY DEF TypeOK
<1>2. TypeOK'
  BY <1>1 DEF TypeOK
<1>3. CachedSince' /\ CacheExplained'
  BY DEF CachedSince, CacheExplained, TypeOK
<1>4. Changing'
  BY DEF Changing, Changed, TypeOK
<1> QED BY <1>2, <1>3, <1>4

LEMMA InvalidateStep ==
  ASSUME IInv, NEW k \in Keys, Invalidate(k)
  PROVE  IInv'
<1> USE DEF IInv, Invalidate, useVars
<1>1. tx' \in [Keys -> {"none", "written", "invalidated"}]
  BY DEF TypeOK
<1>2. TypeOK'
  BY <1>1 DEF TypeOK
<1>3. CachedSince' /\ CacheExplained' /\ Changing'
  BY DEF CachedSince, CacheExplained, Changing, TypeOK
<1> QED BY <1>2, <1>3

LEMMA InvalidateFailsStep ==
  ASSUME IInv, NEW k \in Keys, InvalidateFails(k)
  PROVE  IInv'
<1> USE ApiKeysAssumption DEF IInv, InvalidateFails, Fault, useVars
<1>1. tx' \in [Keys -> {"none", "written", "invalidated"}]
  BY DEF TypeOK
<1>2. TypeOK'
  BY <1>1 DEF TypeOK
<1>3. CachedSince' /\ CacheExplained'
  BY DEF CachedSince, CacheExplained, TypeOK
<1>4. Changing'
  BY DEF Changing, TypeOK
<1> QED BY <1>2, <1>3, <1>4

LEMMA CommitStep ==
  ASSUME IInv, NEW k \in Keys, Commit(k)
  PROVE  IInv'
<1> USE DEF IInv, Commit, useVars
<1>1. Changed[key[k]] \in Status
  BY DEF Changed, Status, Changing
<1>2. /\ tx' \in [Keys -> {"none", "written", "invalidated"}]
      /\ key' \in Rows
  BY <1>1 DEF TypeOK, Rows
<1>3. TypeOK'
  BY <1>2 DEF TypeOK
<1>4. CachedSince'
  BY DEF CachedSince, TypeOK
<1>5. CacheExplained'
  <2> SUFFICES ASSUME cache' # Miss, NEW j \in Keys
               PROVE  cache'[j] = key'[j] \/ j \in late'
    BY DEF CacheExplained
  <2>1. CASE j = k
    BY <2>1 DEF CachedSince
  <2>2. CASE j # k
    BY <2>2 DEF CacheExplained, TypeOK, Rows
  <2> QED BY <2>1, <2>2
<1>6. Changing'
  BY DEF Changing, TypeOK, Rows
<1> QED BY <1>3, <1>4, <1>5, <1>6

LEMMA RollbackStep ==
  ASSUME IInv, NEW k \in Keys, Rollback(k)
  PROVE  IInv'
<1> USE ApiKeysAssumption DEF IInv, Rollback, Fault, useVars
<1>1. tx' \in [Keys -> {"none", "written", "invalidated"}]
  BY DEF TypeOK
<1>2. TypeOK'
  BY <1>1 DEF TypeOK
<1>3. CachedSince' /\ CacheExplained'
  BY DEF CachedSince, CacheExplained, TypeOK
<1>4. Changing'
  BY DEF Changing, TypeOK
<1> QED BY <1>2, <1>3, <1>4

-----------------------------------------------------------------------------
(* Requests and the cache.                                                 *)

\* What the steps of a request leave to be shown.
LEMMA RequestStep ==
  ASSUME IInv, req' \in [Requests -> Steps], uses' \in Times, used' \in [Keys -> Times],
         faults' \in 0 .. MaxFaults,
         UNCHANGED <<rowVars, lookVars, pending, flush, lastUsed, disorder>>
  PROVE  IInv'
<1> USE DEF IInv, rowVars, lookVars
<1>1. TypeOK'
  BY DEF TypeOK, Steps
<1>2. CachedSince' /\ CacheExplained' /\ Changing'
  BY DEF CachedSince, CacheExplained, Changing
<1> QED BY <1>1, <1>2

LEMMA FaultType == ASSUME TypeOK, Fault PROVE faults' \in 0 .. MaxFaults
BY ApiKeysAssumption DEF Fault, TypeOK

LEMMA HitStep ==
  ASSUME IInv, NEW q \in Requests, NEW k \in Keys, Hit(q, k)
  PROVE  IInv'
<1>1. faults' \in 0 .. MaxFaults
  BY DEF Hit, IInv, TypeOK
<1> QED BY <1>1, DecideType, RequestStep DEF Hit, IInv

LEMMA GoesToPostgresStep ==
  ASSUME IInv, NEW q \in Requests, NEW k \in Keys, GoesToPostgres(q, k)
  PROVE  IInv'
<1>1. faults' \in 0 .. MaxFaults
  BY FaultType DEF GoesToPostgres, IInv, TypeOK
<1>2. req' \in [Requests -> Steps]
  BY DEF GoesToPostgres, IInv, TypeOK, Steps
<1>3. uses' \in Times /\ used' \in [Keys -> Times]
  BY DEF GoesToPostgres, IInv, TypeOK, useVars
<1> QED BY <1>1, <1>2, <1>3, RequestStep DEF GoesToPostgres, useVars

LEMMA QueryStep ==
  ASSUME IInv, NEW q \in Requests, Query(q)
  PROVE  IInv'
<1>1. req[q].key \in Keys
  BY DEF Query, IInv, TypeOK
<1>2. req' \in [Requests -> Steps]
  BY <1>1 DEF Query, IInv, TypeOK, Steps
<1>3. uses' \in Times /\ used' \in [Keys -> Times] /\ faults' \in 0 .. MaxFaults
  BY DEF Query, IInv, TypeOK, useVars
<1> QED BY <1>2, <1>3, RequestStep DEF Query, useVars

LEMMA FillStep ==
  ASSUME IInv, NEW q \in Requests, Fill(q)
  PROVE  IInv'
<1> USE DEF IInv, Fill, rowVars
<1>1. req[q].key \in Keys /\ req[q].rows \in Rows
  BY DEF TypeOK
<1>2. req' \in [Requests -> Steps] /\ uses' \in Times /\ used' \in [Keys -> Times]
  BY <1>1, DecideType
<1>3. cache' \in Rows /\ late' \subseteq Keys /\ refilled' \subseteq Keys
  BY <1>1 DEF TypeOK
<1>4. TypeOK'
  BY <1>2, <1>3 DEF TypeOK, Steps
<1>5. CachedSince' /\ CacheExplained' /\ Changing'
  BY DEF CachedSince, CacheExplained, Changing
<1> QED BY <1>4, <1>5

LEMMA FillFailsStep ==
  ASSUME IInv, NEW q \in Requests, FillFails(q)
  PROVE  IInv'
<1>1. req[q].key \in Keys
  BY DEF FillFails, IInv, TypeOK
<1>2. faults' \in 0 .. MaxFaults
  BY FaultType DEF FillFails, IInv
<1> QED BY <1>1, <1>2, DecideType, RequestStep DEF FillFails, IInv

LEMMA RequestDiesStep ==
  ASSUME IInv, NEW q \in Requests, RequestDies(q)
  PROVE  IInv'
<1>1. faults' \in 0 .. MaxFaults
  BY FaultType DEF RequestDies, IInv
<1>2. req' \in [Requests -> Steps]
  BY DEF RequestDies, IInv, TypeOK, Steps, Idle
<1>3. uses' \in Times /\ used' \in [Keys -> Times]
  BY DEF RequestDies, IInv, TypeOK, useVars
<1> QED BY <1>1, <1>2, <1>3, RequestStep DEF RequestDies, useVars

LEMMA ExpireCacheStep ==
  ASSUME IInv, ExpireCache
  PROVE  IInv'
<1> USE DEF IInv, ExpireCache, rowVars, useVars
<1>1. TypeOK'
  BY DEF TypeOK
<1>2. CachedSince' /\ CacheExplained' /\ Changing'
  BY DEF CachedSince, CacheExplained, Changing
<1> QED BY <1>1, <1>2

-----------------------------------------------------------------------------
(* The times of use.                                                       *)

\* Marks and flushes do not touch the rows or the cache.
LEMMA UseStep ==
  ASSUME IInv, TypeOK', UNCHANGED <<rowVars, lookVars>>
  PROVE  IInv'
BY DEF IInv, CachedSince, CacheExplained, Changing, rowVars, lookVars

LEMMA MarkUsedStep ==
  ASSUME IInv, NEW q \in Requests, MarkUsed(q)
  PROVE  IInv'
<1> USE DEF MarkUsed, rowVars, lookVars
<1>1. req[q].key \in Keys /\ req[q].time \in Times
  BY DEF IInv, TypeOK
<1>2. pending' \in [Keys -> Times] /\ disorder' \in BOOLEAN
  BY <1>1 DEF IInv, TypeOK
<1>3. req' \in [Requests -> Steps]
  BY DEF IInv, TypeOK, Steps, Idle
<1>4. TypeOK'
  BY <1>2, <1>3 DEF IInv, TypeOK, Steps
<1> QED BY <1>4, UseStep

LEMMA FlusherStep ==
  ASSUME IInv, NEW f \in Flushers, Drain(f) \/ TouchLastUsed(f) \/ FlushFails(f)
  PROVE  IInv'
<1>0. Never \in [Keys -> Times]
  BY ApiKeysAssumption DEF Never, Times
<1>1. CASE Drain(f)
  <2>1. TypeOK'
    BY <1>0, <1>1 DEF Drain, IInv, TypeOK, rowVars, lookVars
  <2> QED BY <1>1, <2>1, UseStep DEF Drain
<1>2. CASE TouchLastUsed(f)
  <2>1. lastUsed' \in [Keys -> Times]
    BY <1>2 DEF TouchLastUsed, IInv, TypeOK
  <2>2. flush' \in [Flushers -> [Keys -> Times]]
    BY <1>0, <1>2 DEF TouchLastUsed, IInv, TypeOK
  <2>3. disorder' \in BOOLEAN
    BY <1>2 DEF TouchLastUsed, IInv, TypeOK
  <2>4. TypeOK'
    BY <1>2, <2>1, <2>2, <2>3 DEF TouchLastUsed, IInv, TypeOK, rowVars, lookVars
  <2> QED BY <1>2, <2>4, UseStep DEF TouchLastUsed
<1>3. CASE FlushFails(f)
  <2>1. faults' \in 0 .. MaxFaults
    BY <1>3, FaultType DEF FlushFails, IInv
  <2>2. flush' \in [Flushers -> [Keys -> Times]]
    BY <1>0, <1>3 DEF FlushFails, IInv, TypeOK
  <2>3. TypeOK'
    BY <1>3, <2>1, <2>2 DEF FlushFails, IInv, TypeOK, rowVars, lookVars
  <2> QED BY <1>3, <2>3, UseStep DEF FlushFails
<1> QED BY <1>1, <1>2, <1>3

-----------------------------------------------------------------------------
LEMMA Invariance == Spec => []IInv
<1>1. IInv /\ [Next]_vars => IInv'
  <2> SUFFICES ASSUME IInv, [Next]_vars PROVE IInv'
    OBVIOUS
  <2>1. CASE \E k \in Keys : \/ Change(k) \/ Invalidate(k) \/ InvalidateFails(k)
                             \/ Commit(k) \/ Rollback(k)
    BY <2>1, ChangeStep, InvalidateStep, InvalidateFailsStep, CommitStep, RollbackStep
  <2>2. CASE \E q \in Requests :
               \/ \E k \in Keys : Hit(q, k) \/ GoesToPostgres(q, k)
               \/ Answer(q) \/ FillFails(q) \/ RequestDies(q)
    BY <2>2, HitStep, GoesToPostgresStep, QueryStep, FillStep, MarkUsedStep,
       FillFailsStep, RequestDiesStep DEF Answer
  <2>3. CASE ExpireCache
    BY <2>3, ExpireCacheStep
  <2>4. CASE \E f \in Flushers : Drain(f) \/ TouchLastUsed(f) \/ FlushFails(f)
    BY <2>4, FlusherStep
  <2>5. CASE UNCHANGED vars
    BY <2>5 DEF IInv, TypeOK, CachedSince, CacheExplained, Changing, vars, rowVars,
                lookVars, useVars
  <2> QED BY <2>1, <2>2, <2>3, <2>4, <2>5 DEF Next
<1> QED BY <1>1, Initially, PTL DEF Spec

\* Every variable keeps its type.
THEOREM TypeCorrect == Spec => []TypeOK
<1>1. IInv => TypeOK
  BY DEF IInv
<1> QED BY <1>1, Invariance, PTL

\* However many keys, lookups and changes overlap: a cached row differs from
\* the committed one only through a lookup that overlapped the change.
THEOREM CacheIsExplained == Spec => []CacheExplained
<1>1. IInv => CacheExplained
  BY DEF IInv
<1> QED BY <1>1, Invariance, PTL

-----------------------------------------------------------------------------
(* No use is lost on its way to last_used_at: what is left of UsesReported *)
(* without fairness.                                                       *)

\* Once no mark, no member of the set and no batch is on its way, the rows
\* have the last use of every key, unless a fault lost it, or marks or batches
\* of two servers arrived in the wrong order.
UsesAccounted ==
  /\ faults = 0 /\ ~disorder
  /\ pending = Never
  /\ \A f \in Flushers : flush[f] = Never
  /\ \A q \in Requests : req[q].step # "mark"
  => \A k \in Keys : lastUsed[k] = used[k]

\* The last use of a key is in one of the four places it passes.
OnItsWay(k) ==
  \/ lastUsed[k] = used[k]
  \/ pending[k] = used[k]
  \/ \E f \in Flushers : flush[f][k] = used[k]
  \/ \E q \in Requests : req[q].step = "mark" /\ req[q].key = k /\ req[q].time = used[k]

\* And no later use is in any of them.
NothingLater(k) ==
  /\ used[k] <= uses /\ lastUsed[k] <= used[k] /\ pending[k] <= used[k]
  /\ \A f \in Flushers : flush[f][k] <= used[k]
  /\ \A q \in Requests : req[q].step = "mark" /\ req[q].key = k => req[q].time <= used[k]

UseInv ==
  \A k \in Keys : NothingLater(k) /\ (faults = 0 /\ ~disorder => OnItsWay(k))

\* The steps that move no use.
LEMMA NotMoved ==
  ASSUME TypeOK, UseInv, UNCHANGED useVars, faults' = 0 => faults = 0,
         \A q \in Requests : req'[q].step = "mark" => req'[q] = req[q],
         \A q \in Requests : faults' = 0 /\ req[q].step = "mark" => req'[q] = req[q]
  PROVE  UseInv'
<1> SUFFICES ASSUME NEW k \in Keys
             PROVE  NothingLater(k)' /\ (faults' = 0 /\ ~disorder' => OnItsWay(k)')
  BY DEF UseInv
<1>1. NothingLater(k) /\ (faults = 0 /\ ~disorder => OnItsWay(k))
  BY DEF UseInv
<1>2. NothingLater(k)'
  BY <1>1 DEF NothingLater, useVars
<1>3. faults' = 0 /\ ~disorder' => OnItsWay(k)'
  BY <1>1 DEF OnItsWay, useVars
<1> QED BY <1>2, <1>3

\* A request is decided on; if it is accepted, its use is the last.
LEMMA UseDecided ==
  ASSUME TypeOK, UseInv, NEW q \in Requests, NEW x \in Keys, NEW rows, Decide(q, x, rows),
         req[q].step # "mark", UNCHANGED <<pending, flush, lastUsed, disorder>>,
         faults' = 0 => faults = 0
  PROVE  UseInv'
<1>1. CASE req' = [req EXCEPT ![q] = Idle] /\ UNCHANGED <<uses, used>>
  <2>1. \A r \in Requests : req'[r] = IF r = q THEN Idle ELSE req[r]
    BY <1>1 DEF TypeOK
  <2> QED BY <1>1, <2>1, NotMoved DEF useVars, Idle
<1>2. CASE /\ uses' = uses + 1
           /\ used' = [used EXCEPT ![x] = uses + 1]
           /\ req' = [req EXCEPT ![q] = [step |-> "mark", key |-> x, time |-> uses + 1]]
  <2> SUFFICES ASSUME NEW k \in Keys
               PROVE  NothingLater(k)' /\ (faults' = 0 /\ ~disorder' => OnItsWay(k)')
    BY DEF UseInv
  <2>1. NothingLater(k) /\ (faults = 0 /\ ~disorder => OnItsWay(k))
    BY DEF UseInv
  <2>2. \A r \in Requests :
          req'[r] = IF r = q THEN [step |-> "mark", key |-> x, time |-> uses + 1] ELSE req[r]
    BY <1>2 DEF TypeOK
  <2>3. used'[k] = IF k = x THEN uses + 1 ELSE used[k]
    BY <1>2 DEF TypeOK
  <2>4. /\ uses \in Nat /\ used[k] \in Nat /\ lastUsed[k] \in Nat /\ pending[k] \in Nat
        /\ \A f \in Flushers : flush[f][k] \in Nat
        /\ \A r \in Requests : req[r].step = "mark" => req[r].time \in Nat
    BY ApiKeysAssumption DEF TypeOK, Times
  <2>5. NothingLater(k)'
    BY <1>2, <2>1, <2>2, <2>3, <2>4 DEF NothingLater
  <2>6. faults' = 0 /\ ~disorder' => OnItsWay(k)'
    <3>1. CASE k = x
      BY <2>2, <2>3, <3>1 DEF OnItsWay
    <3>2. CASE k # x
      BY <1>2, <2>1, <2>2, <2>3, <3>2 DEF OnItsWay
    <3> QED BY <3>1, <3>2
  <2> QED BY <2>5, <2>6
<1> QED BY <1>1, <1>2 DEF Decide

\* A mark that overtakes none puts the request's use into the set.
LEMMA UseMarked ==
  ASSUME TypeOK, UseInv, NEW q \in Requests, MarkUsed(q)
  PROVE  UseInv'
<1> SUFFICES ASSUME NEW k \in Keys
             PROVE  NothingLater(k)' /\ (faults' = 0 /\ ~disorder' => OnItsWay(k)')
  BY DEF UseInv
<1>1. NothingLater(k) /\ (faults = 0 /\ ~disorder => OnItsWay(k))
  BY DEF UseInv
<1>2. \A r \in Requests : req'[r] = IF r = q THEN Idle ELSE req[r]
  BY DEF MarkUsed, TypeOK
<1>3. /\ req[q].step = "mark" /\ req[q].key \in Keys /\ req[q].time \in Nat
      /\ used[k] \in Nat /\ pending[k] \in Nat
  BY ApiKeysAssumption DEF MarkUsed, TypeOK, Times
<1>4. pending'[k] = IF k = req[q].key THEN req[q].time ELSE pending[k]
  BY <1>3 DEF MarkUsed, TypeOK
<1>5. /\ UNCHANGED <<flush, lastUsed, uses, used, faults>>
      /\ ~disorder' => ~disorder /\ ~(req[q].time < pending[req[q].key])
  BY DEF MarkUsed
<1>6. NothingLater(k)'
  BY <1>1, <1>2, <1>3, <1>4, <1>5 DEF NothingLater, Idle
<1>7. ASSUME faults' = 0, ~disorder' PROVE OnItsWay(k)'
  <2>1. OnItsWay(k) /\ ~(req[q].time < pending[req[q].key])
    BY <1>1, <1>5, <1>7
  <2>2. CASE lastUsed[k] = used[k] \/ \E f \in Flushers : flush[f][k] = used[k]
    BY <1>5, <2>2 DEF OnItsWay
  <2>3. CASE pending[k] = used[k]
    <3>1. k = req[q].key => req[q].time = used[k]
      BY <1>1, <1>3, <2>1, <2>3 DEF NothingLater
    <3> QED BY <1>4, <1>5, <2>3, <3>1 DEF OnItsWay
  <2>4. ASSUME NEW r \in Requests, req[r].step = "mark", req[r].key = k, req[r].time = used[k]
        PROVE  OnItsWay(k)'
    BY <1>2, <1>4, <1>5, <2>4 DEF OnItsWay
  <2> QED BY <2>1, <2>2, <2>3, <2>4 DEF OnItsWay
<1> QED BY <1>6, <1>7

\* The set goes to a flusher, whole, and is empty from then on.
LEMMA UseDrained ==
  ASSUME TypeOK, UseInv, NEW f \in Flushers, Drain(f)
  PROVE  UseInv'
<1> SUFFICES ASSUME NEW k \in Keys
             PROVE  NothingLater(k)' /\ (faults' = 0 /\ ~disorder' => OnItsWay(k)')
  BY DEF UseInv
<1>1. NothingLater(k) /\ (faults = 0 /\ ~disorder => OnItsWay(k))
  BY DEF UseInv
<1>2. /\ flush[f][k] = 0 /\ pending'[k] = 0
      /\ \A g \in Flushers : flush'[g] = IF g = f THEN pending ELSE flush[g]
      /\ UNCHANGED <<req, lastUsed, uses, used, disorder, faults>>
  BY DEF Drain, Never, TypeOK
<1>3. used[k] \in Nat /\ lastUsed[k] \in Nat
  BY ApiKeysAssumption DEF TypeOK, Times
<1>4. NothingLater(k)'
  BY <1>1, <1>2, <1>3 DEF NothingLater
<1>5. ASSUME OnItsWay(k) PROVE OnItsWay(k)'
  <2>1. CASE \E g \in Flushers : flush[g][k] = used[k]
    <3>1. PICK g \in Flushers : flush[g][k] = used[k]
      BY <2>1
    <3>2. CASE g = f
      \* an empty batch: the key has not been used
      <4>1. used[k] = 0
        BY <1>2, <3>1, <3>2
      <4>2. lastUsed[k] = 0
        BY <1>1, <1>3, <4>1 DEF NothingLater
      <4> QED BY <1>2, <4>1, <4>2 DEF OnItsWay
    <3>3. CASE g # f
      BY <1>2, <3>1, <3>3 DEF OnItsWay
    <3> QED BY <3>2, <3>3
  <2>2. CASE pending[k] = used[k]
    BY <1>2, <2>2 DEF OnItsWay
  <2>3. CASE \/ lastUsed[k] = used[k]
             \/ \E q \in Requests : /\ req[q].step = "mark" /\ req[q].key = k
                                    /\ req[q].time = used[k]
    BY <1>2, <2>3 DEF OnItsWay
  <2> QED BY <1>5, <2>1, <2>2, <2>3 DEF OnItsWay
<1> QED BY <1>1, <1>2, <1>4, <1>5

\* A batch that overtakes none is written to the rows.
LEMMA UseTouched ==
  ASSUME TypeOK, UseInv, NEW f \in Flushers, TouchLastUsed(f)
  PROVE  UseInv'
<1> SUFFICES ASSUME NEW k \in Keys
             PROVE  NothingLater(k)' /\ (faults' = 0 /\ ~disorder' => OnItsWay(k)')
  BY DEF UseInv
<1>1. NothingLater(k) /\ (faults = 0 /\ ~disorder => OnItsWay(k))
  BY DEF UseInv
<1>2. /\ used[k] \in Nat /\ lastUsed[k] \in Nat
      /\ \A g \in Flushers : flush[g][k] \in Nat
  BY ApiKeysAssumption DEF TypeOK, Times
<1>3. lastUsed'[k] = IF flush[f][k] > 0 THEN flush[f][k] ELSE lastUsed[k]
  BY DEF TouchLastUsed, Batch
<1>4. \A g \in Flushers : flush'[g][k] = IF g = f THEN 0 ELSE flush[g][k]
  BY DEF TouchLastUsed, Never, TypeOK
<1>5. /\ UNCHANGED <<req, pending, uses, used, faults>>
      /\ ~disorder' => ~disorder /\ ~(flush[f][k] > 0 /\ flush[f][k] < lastUsed[k])
  BY DEF TouchLastUsed, Batch
<1>6. NothingLater(k)'
  BY <1>1, <1>2, <1>3, <1>4, <1>5 DEF NothingLater
<1>7. ASSUME faults' = 0, ~disorder' PROVE OnItsWay(k)'
  <2>1. OnItsWay(k) /\ ~(flush[f][k] > 0 /\ flush[f][k] < lastUsed[k])
    BY <1>1, <1>5, <1>7
  <2>2. CASE lastUsed[k] = used[k]
    <3>1. flush[f][k] <= used[k]
      BY <1>1 DEF NothingLater
    <3>2. lastUsed'[k] = used[k]
      BY <1>2, <1>3, <2>1, <2>2, <3>1
    <3> QED BY <1>5, <3>2 DEF OnItsWay
  <2>3. CASE pending[k] = used[k] \/ \E q \in Requests : /\ req[q].step = "mark" /\ req[q].key = k
                                                        /\ req[q].time = used[k]
    BY <1>5, <2>3 DEF OnItsWay
  <2>4. ASSUME NEW g \in Flushers, flush[g][k] = used[k] PROVE OnItsWay(k)'
    <3>1. CASE g # f
      BY <1>4, <1>5, <2>4, <3>1 DEF OnItsWay
    <3>2. CASE g = f
      <4>1. lastUsed'[k] = used[k]
        BY <1>1, <1>2, <1>3, <2>4, <3>2 DEF NothingLater
      <4> QED BY <1>5, <4>1 DEF OnItsWay
    <3> QED BY <3>1, <3>2
  <2> QED BY <2>1, <2>2, <2>3, <2>4 DEF OnItsWay
<1> QED BY <1>6, <1>7

\* A batch that fails is a fault, and loses what it had.
LEMMA UseLost ==
  ASSUME TypeOK, UseInv, NEW f \in Flushers, FlushFails(f)
  PROVE  UseInv'
<1> SUFFICES ASSUME NEW k \in Keys
             PROVE  NothingLater(k)' /\ (faults' = 0 /\ ~disorder' => OnItsWay(k)')
  BY DEF UseInv
<1>1. NothingLater(k)
  BY DEF UseInv
<1>2. /\ \A g \in Flushers : flush'[g][k] = IF g = f THEN 0 ELSE flush[g][k]
      /\ UNCHANGED <<req, pending, lastUsed, uses, used>>
      /\ faults' # 0
  BY DEF FlushFails, Fault, Never, TypeOK
<1>3. used[k] \in Nat
  BY ApiKeysAssumption DEF TypeOK, Times
<1> QED BY <1>1, <1>2, <1>3 DEF NothingLater

LEMMA UseInvStep ==
  ASSUME TypeOK, UseInv, [Next]_vars
  PROVE  UseInv'
<1>0. Fault => faults' # 0
  BY DEF Fault, TypeOK
<1>1. CASE UNCHANGED <<req, useVars>> /\ (UNCHANGED faults \/ Fault)
  BY <1>0, <1>1, NotMoved
<1>2. ASSUME NEW q \in Requests, NEW k \in Keys, Hit(q, k) PROVE UseInv'
  BY <1>2, UseDecided DEF Hit, Idle
<1>3. ASSUME NEW q \in Requests, NEW k \in Keys, GoesToPostgres(q, k) PROVE UseInv'
  <2>1. /\ req[q] = Idle /\ UNCHANGED useVars /\ (UNCHANGED faults \/ Fault)
        /\ req' = [req EXCEPT ![q] = [step |-> "query", key |-> k]]
    BY <1>3 DEF GoesToPostgres
  <2>2. \A r \in Requests : req'[r] = IF r = q THEN [step |-> "query", key |-> k] ELSE req[r]
    BY <2>1 DEF TypeOK
  <2> QED BY <1>0, <2>1, <2>2, NotMoved DEF Idle
<1>4. ASSUME NEW q \in Requests, Query(q) PROVE UseInv'
  <2>1. \A r \in Requests :
          req'[r] = IF r = q THEN [step |-> "fill", key |-> req[q].key, rows |-> key] ELSE req[r]
    BY <1>4 DEF Query, TypeOK
  <2> QED BY <1>4, <2>1, NotMoved DEF Query
<1>5. ASSUME NEW q \in Requests, Fill(q) \/ FillFails(q) PROVE UseInv'
  <2>1. req[q].step = "fill" /\ req[q].key \in Keys
    BY <1>5 DEF Fill, FillFails, TypeOK
  <2>2. PICK x \in Keys : x = req[q].key
    BY <2>1
  <2>3. /\ Decide(q, x, req[q].rows) /\ (UNCHANGED faults \/ Fault)
        /\ UNCHANGED <<pending, flush, lastUsed, disorder>>
    BY <1>5, <2>2 DEF Fill, FillFails
  <2> QED BY <1>0, <2>1, <2>3, UseDecided
<1>6. ASSUME NEW q \in Requests, RequestDies(q) PROVE UseInv'
  <2>1. /\ \A r \in Requests : req'[r] = IF r = q THEN Idle ELSE req[r]
        /\ UNCHANGED useVars /\ faults' # 0
    BY <1>0, <1>6 DEF RequestDies, TypeOK
  <2> QED BY <2>1, NotMoved DEF Idle
<1>7. CASE UNCHANGED vars
  BY <1>1, <1>7 DEF vars
<1>8. CASE Next
  <2>1. ASSUME NEW k \in Keys,
               Change(k) \/ Invalidate(k) \/ InvalidateFails(k) \/ Commit(k) \/ Rollback(k)
        PROVE  UseInv'
    BY <1>1, <2>1 DEF Change, Invalidate, InvalidateFails, Commit, Rollback
  <2>2. ASSUME ExpireCache PROVE UseInv'
    BY <1>1, <2>2 DEF ExpireCache
  <2>3. ASSUME NEW f \in Flushers, Drain(f) \/ TouchLastUsed(f) \/ FlushFails(f)
        PROVE  UseInv'
    BY <2>3, UseDrained, UseTouched, UseLost
  <2> QED
    BY <1>2, <1>3, <1>4, <1>5, <1>6, <1>8, <2>1, <2>2, <2>3, UseMarked DEF Next, Answer
<1> QED BY <1>7, <1>8

LEMMA UsesFollow ==
  ASSUME TypeOK, UseInv
  PROVE  UsesAccounted
<1> SUFFICES ASSUME faults = 0, ~disorder, pending = Never,
                    \A f \in Flushers : flush[f] = Never,
                    \A q \in Requests : req[q].step # "mark",
                    NEW k \in Keys
             PROVE  lastUsed[k] = used[k]
  BY DEF UsesAccounted
<1>1. OnItsWay(k) /\ NothingLater(k)
  BY DEF UseInv
<1>2. pending[k] = 0 /\ \A f \in Flushers : flush[f][k] = 0
  BY DEF Never
<1>3. lastUsed[k] \in Nat /\ used[k] \in Nat
  BY ApiKeysAssumption DEF TypeOK, Times
<1>4. lastUsed[k] = used[k] \/ used[k] = 0
  BY <1>1, <1>2 DEF OnItsWay
<1> QED BY <1>1, <1>3, <1>4 DEF NothingLater

\* However requests, drains and batches of several servers interleave, a use
\* that was marked and not lost to a fault reaches last_used_at
\* (markKeyUsed, drainPendingLastUsed, touchLastUsedBatch).
THEOREM UsesReach == Spec => []UsesAccounted
<1>1. Init => UseInv
  BY DEF Init, Never, Idle, UseInv, NothingLater, OnItsWay
<1>2. TypeOK /\ UseInv /\ [Next]_vars => UseInv'
  BY UseInvStep
<1>3. TypeOK /\ UseInv => UsesAccounted
  BY UsesFollow
<1> QED BY <1>1, <1>2, <1>3, TypeCorrect, PTL DEF Spec
=============================================================================
