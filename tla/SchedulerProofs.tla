-------------------------- MODULE SchedulerProofs --------------------------
(***************************************************************************)
(* Theorems about Scheduler, for any jobs, periods and caps, any number of *)
(* schedulers and faults, and any skew of their clocks.                    *)
(***************************************************************************)
EXTENDS Scheduler, FiniteSetTheorems, WellFoundedInduction, TLAPS

-----------------------------------------------------------------------------
(* Numbers.                                                                *)

\* A set of natural numbers has a first one, and a bounded one a last.
LEMMA FirstOf ==
  ASSUME NEW T \in SUBSET Nat, T # {}
  PROVE  \E x \in T : \A y \in T : x <= y
<1> DEFINE Less == {p \in Nat \X Nat : p[1] < p[2]}
<1>1. IsWellFoundedOn(Less, Nat)
  BY NatLessThanWellFounded DEF OpToRel
<1>2. \E x \in T : \A y \in T : ~ (<<y, x>> \in Less)
  <2> HIDE DEF Less
  <2> QED BY <1>1, WFMin
<1>3. PICK x \in T : \A y \in T : ~ (<<y, x>> \in Less)
  BY <1>2
<1>4. ASSUME NEW y \in T PROVE x <= y
  <2>1. x \in Nat /\ y \in Nat /\ ~ (<<y, x>> \in Less)
    BY <1>3
  <2> QED BY <2>1
<1> QED BY <1>4

LEMMA LastOf ==
  ASSUME NEW n \in Nat, NEW S \in SUBSET (0 .. n), S # {}
  PROVE  \E i \in S : \A j \in S : j <= i
<1> DEFINE T == {n - i : i \in S}
<1>1. T \subseteq Nat /\ T # {}
  <2>1. \A i \in S : i \in Nat /\ n - i \in Nat
    OBVIOUS
  <2> QED BY <2>1
<1>2. PICK x \in T : \A y \in T : x <= y
  <2> HIDE DEF T
  <2> QED BY <1>1, FirstOf
<1>3. PICK i \in S : x = n - i
  OBVIOUS
<1>4. ASSUME NEW j \in S PROVE j <= i
  <2>1. n - j \in T /\ n - i <= n - j
    BY <1>2, <1>3
  <2>2. i \in Int /\ j \in Int
    OBVIOUS
  <2> HIDE DEF T
  <2> QED BY <2>1, <2>2
<1> QED BY <1>4

\* Division with remainder.
LEMMA Division ==
  ASSUME NEW t \in Nat, NEW p \in Nat \ {0}
  PROVE  /\ t \div p \in Nat /\ t % p \in Nat /\ t % p < p
         /\ t = p * (t \div p) + (t % p)
OBVIOUS

\* Multiples grow with their factor, by p at least.
LEMMA Product ==
  ASSUME NEW a \in Nat, NEW b \in Nat, NEW p \in Nat \ {0}
  PROVE  /\ a * p \in Nat /\ p * a = a * p /\ (a + 1) * p = a * p + p
         /\ a <= b => a * p <= b * p
         /\ a < b => a * p + p <= b * p
<1>1. a * p \in Nat /\ p * a = a * p /\ (a + 1) * p = a * p + p
  OBVIOUS
<1>2. ASSUME a <= b PROVE a * p <= b * p
  <2>1. (b - a) \in Nat /\ b = a + (b - a)
    BY <1>2
  <2>2. (a + (b - a)) * p = a * p + (b - a) * p /\ (b - a) * p \in Nat
    BY <2>1
  <2> QED BY <2>1, <2>2, <1>1
<1>3. ASSUME a < b PROVE a * p + p <= b * p
  <2>1. (b - (a + 1)) \in Nat /\ b = (a + 1) + (b - (a + 1))
    BY <1>3
  <2>2. ((a + 1) + (b - (a + 1))) * p = (a + 1) * p + (b - (a + 1)) * p
        /\ (b - (a + 1)) * p \in Nat
    BY <2>1
  <2> QED BY <2>1, <2>2, <1>1
<1> QED BY <1>1, <1>2, <1>3

\* What lies between two multiples.
LEMMA Between ==
  ASSUME NEW k \in Nat, NEW t \in Nat, NEW p \in Nat \ {0}, k * p <= t, t < k * p + p
  PROVE  t \div p = k /\ t % p = t - k * p
<1> DEFINE q == t \div p
           r == t % p
<1>1. q \in Nat /\ r \in Nat /\ r < p /\ t = q * p + r
  BY Division, Product
<1>2. k * p \in Nat /\ q * p \in Nat
  BY <1>1, Product
<1>3. ~(k < q)
  <2>1. SUFFICES ASSUME k < q PROVE FALSE
    OBVIOUS
  <2>2. k * p + p <= q * p
    BY <1>1, <2>1, Product
  <2> HIDE DEF q, r
  <2> QED BY <1>1, <1>2, <2>2
<1>4. ~(q < k)
  <2>1. SUFFICES ASSUME q < k PROVE FALSE
    OBVIOUS
  <2>2. q * p + p <= k * p
    BY <1>1, <2>1, Product
  <2> HIDE DEF q, r
  <2> QED BY <1>1, <1>2, <2>2
<1> HIDE DEF q, r
<1>5. q = k
  BY <1>1, <1>3, <1>4
<1>6. r = t - k * p
  BY <1>1, <1>2, <1>5
<1> QED BY <1>5, <1>6 DEF q, r

\* Multiples have no remainder.
LEMMA MultipleDiv ==
  ASSUME NEW k \in Nat, NEW p \in Nat \ {0}
  PROVE  k * p \in Nat /\ (k * p) \div p = k /\ (k * p) % p = 0
<1>1. k * p \in Nat
  BY Product
<1>2. (k * p) \div p = k /\ (k * p) % p = k * p - k * p
  BY <1>1, Between
<1> QED BY <1>1, <1>2

-----------------------------------------------------------------------------
(* The ticks of a cron expression.                                         *)

\* The ranges of a job's constants.
LEMMA JobConstants ==
  ASSUME NEW j \in Jobs
  PROVE  Period[j] \in Nat \ {0} /\ FirstRun[j] \in Nat \ {0} /\ Cap[j] \in Nat \ {0}
BY SchedulerAssumption

\* NextTick is the first multiple of the period after t.
LEMMA NextTickIsNext ==
  ASSUME NEW j \in Jobs, NEW t \in Nat
  PROVE  /\ NextTick(j, t) \in Nat /\ NextTick(j, t) > t
         /\ NextTick(j, t) % Period[j] = 0
         /\ \A u \in (t + 1) .. (NextTick(j, t) - 1) : u % Period[j] # 0
         /\ \A u \in t .. (NextTick(j, t) - 1) : NextTick(j, u) = NextTick(j, t)
         /\ NextTick(j, NextTick(j, t)) = NextTick(j, t) + Period[j]
<1>0. PICK p \in Nat \ {0} : p = Period[j]
  BY JobConstants
<1>1. PICK k \in Nat : k = t \div p /\ t = p * k + (t % p) /\ t % p \in Nat /\ t % p < p
  BY Division
<1>2. /\ p * k = k * p /\ k * p \in Nat /\ (k + 1) * p = k * p + p
      /\ NextTick(j, t) = k * p + p
  <2>1. p * k = k * p /\ k * p \in Nat /\ (k + 1) * p = k * p + p
    BY Product
  <2> QED BY <1>0, <1>1, <2>1 DEF NextTick
<1> HIDE DEF NextTick
<1>3. NextTick(j, t) \in Nat /\ NextTick(j, t) > t
  BY <1>1, <1>2
<1>4. (k * p + p) \div p = k + 1 /\ (k * p + p) % p = 0
  <2>1. k + 1 \in Nat
    OBVIOUS
  <2>2. ((k + 1) * p) \div p = k + 1 /\ ((k + 1) * p) % p = 0
    BY <2>1, MultipleDiv
  <2> QED BY <1>2, <2>2
<1>5. ASSUME NEW u \in t .. (NextTick(j, t) - 1)
      PROVE  u \div p = k /\ u % p = u - k * p /\ u \in Nat
  <2>1. u \in Nat /\ k * p <= u /\ u < k * p + p
    BY <1>1, <1>2, <1>3
  <2> QED BY <2>1, Between
<1>6. \A u \in t .. (NextTick(j, t) - 1) : NextTick(j, u) = NextTick(j, t)
  BY <1>0, <1>1, <1>5 DEF NextTick
<1>7. ASSUME NEW u \in (t + 1) .. (NextTick(j, t) - 1) PROVE u % p # 0
  <2>1. u % p = u - k * p /\ u \in Nat /\ u > t
    BY <1>5, <1>3
  <2> QED BY <1>1, <1>2, <2>1
<1>8. NextTick(j, k * p + p) = (k + 1 + 1) * p /\ (k + 1 + 1) * p = (k + 1) * p + p
  <2>1. (k + 1 + 1) * p = (k + 1) * p + p
    <3>1. k + 1 \in Nat
      OBVIOUS
    <3> QED BY <3>1, Product
  <2> QED BY <1>0, <1>4, <2>1 DEF NextTick
<1> QED BY <1>0, <1>2, <1>3, <1>4, <1>6, <1>7, <1>8

\* SkipAhead finds the first tick after from, or after nowEpoch if that is later.
LEMMA SkipAheadIs ==
  ASSUME NEW j \in Jobs, NEW from \in Nat, NEW nowEpoch \in Nat
  PROVE  SkipAhead(j, from, nowEpoch) =
           IF NextTick(j, from) > nowEpoch THEN NextTick(j, from) ELSE NextTick(j, nowEpoch)
<1> DEFINE Walks(f) == f = [t \in Nat |-> IF t > nowEpoch THEN t ELSE f[NextTick(j, t)]]
           first == [t \in Nat |-> IF t > nowEpoch THEN t ELSE NextTick(j, nowEpoch)]
           walk == CHOOSE f : Walks(f)
<1>n. \A t \in Nat : NextTick(j, t) \in Nat /\ NextTick(j, t) > t
  BY NextTickIsNext
<1>1. Walks(first)
  <2>1. ASSUME NEW t \in Nat, ~(t > nowEpoch)
        PROVE  first[NextTick(j, t)] = NextTick(j, nowEpoch)
    <3>1. CASE NextTick(j, t) > nowEpoch
      <4>1. nowEpoch \in t .. (NextTick(j, t) - 1)
        BY <1>n, <2>1, <3>1
      <4>2. NextTick(j, nowEpoch) = NextTick(j, t)
        BY <4>1, NextTickIsNext
      <4> QED BY <1>n, <3>1, <4>2
    <3>2. CASE ~(NextTick(j, t) > nowEpoch)
      BY <1>n, <3>2
    <3> QED BY <3>1, <3>2
  <2>2. \A t \in Nat : first[t] = IF t > nowEpoch THEN t ELSE first[NextTick(j, t)]
    BY <2>1
  <2> HIDE DEF first
  <2>3. first = [t \in Nat |-> first[t]]
    BY DEF first
  <2> QED BY <2>2, <2>3
<1>2. Walks(walk)
  <2> HIDE DEF Walks, first
  <2> QED BY <1>1
<1>3. \A t \in Nat : walk[t] = IF t > nowEpoch THEN t ELSE walk[NextTick(j, t)]
  <2> HIDE DEF walk
  <2> QED BY <1>2
<1>4. \A t \in Nat : walk[t] = first[t]
  <2> HIDE DEF walk
  <2> DEFINE Bad == {t \in Nat : walk[t] # first[t]}
  <2>1. Bad \subseteq 0 .. nowEpoch
    BY <1>3
  <2>2. SUFFICES ASSUME Bad # {} PROVE FALSE
    OBVIOUS
  <2>3. PICK t \in Bad : \A u \in Bad : u <= t
    <3> HIDE DEF Bad
    <3> QED BY <2>1, <2>2, LastOf
  <2>4. t \in Nat /\ ~(t > nowEpoch) /\ NextTick(j, t) \notin Bad /\ NextTick(j, t) \in Nat
    BY <2>1, <2>3, <1>n
  <2>5. walk[NextTick(j, t)] = first[NextTick(j, t)]
    BY <2>4
  <2>6. first[t] = first[NextTick(j, t)]
    BY <1>1, <2>4
  <2> QED BY <1>3, <2>3, <2>4, <2>5, <2>6
<1>5. SkipAhead(j, from, nowEpoch) = walk[NextTick(j, from)]
  BY DEF SkipAhead
<1> QED BY <1>n, <1>4, <1>5

\* The nth tick from "from" on.
TickFrom(j, from, n) ==
  IF n <= 1 THEN from ELSE (from \div Period[j] + (n - 1)) * Period[j]

\* TickFrom is what NextTick steps through, and it grows.
LEMMA TicksGrow ==
  ASSUME NEW j \in Jobs, NEW from \in Nat
  PROVE  /\ \A n \in Nat : TickFrom(j, from, n) \in Nat
         /\ \A n \in Nat \ {0} :
              NextTick(j, TickFrom(j, from, n)) = TickFrom(j, from, n + 1)
         /\ \A m, n \in Nat \ {0} : m < n => TickFrom(j, from, m) < TickFrom(j, from, n)
<1>1. PICK p \in Nat \ {0} : p = Period[j]
  BY JobConstants
<1>2. PICK k \in Nat : k = from \div p /\ from = p * k + (from % p) /\ from % p < p
                       /\ from % p \in Nat
  BY Division
<1>3. \A n \in Nat : TickFrom(j, from, n) = IF n <= 1 THEN from ELSE (k + (n - 1)) * p
  BY <1>1, <1>2 DEF TickFrom
<1>4. ASSUME NEW n \in Nat, n > 1
      PROVE  k + (n - 1) \in Nat /\ (k + (n - 1)) * p \in Nat
  <2>1. k + (n - 1) \in Nat
    BY <1>4
  <2> QED BY <2>1, Product
<1>5. \A n \in Nat : TickFrom(j, from, n) \in Nat
  BY <1>3, <1>4
<1>6. ASSUME NEW n \in Nat \ {0}
      PROVE  NextTick(j, TickFrom(j, from, n)) = TickFrom(j, from, n + 1)
  <2>1. TickFrom(j, from, n + 1) = (k + n) * p
    <3>1. n + 1 \in Nat /\ ~(n + 1 <= 1) /\ n + 1 - 1 = n
      OBVIOUS
    <3> QED BY <1>3, <3>1
  <2>2. CASE n = 1
    BY <1>1, <1>2, <1>3, <2>1, <2>2 DEF NextTick
  <2>3. CASE n # 1
    <3>1. n > 1 /\ TickFrom(j, from, n) = (k + (n - 1)) * p /\ k + (n - 1) \in Nat
      BY <1>3, <2>3
    <3>2. ((k + (n - 1)) * p) \div p = k + (n - 1)
      BY <3>1, MultipleDiv
    <3>3. k + (n - 1) + 1 = k + n
      OBVIOUS
    <3> QED BY <1>1, <2>1, <3>1, <3>2, <3>3 DEF NextTick
  <2> QED BY <2>2, <2>3
<1>7. ASSUME NEW m \in Nat \ {0}, NEW n \in Nat \ {0}, m < n
      PROVE  TickFrom(j, from, m) < TickFrom(j, from, n)
  <2>1. TickFrom(j, from, n) = (k + (n - 1)) * p /\ k + (n - 1) \in Nat
        /\ k + (m - 1) \in Nat /\ k + (m - 1) < k + (n - 1)
    BY <1>3, <1>7
  <2>2. /\ (k + (m - 1)) * p \in Nat /\ (k + (n - 1)) * p \in Nat
        /\ (k + (m - 1)) * p + p <= (k + (n - 1)) * p
    BY <2>1, Product
  <2>3. CASE m = 1
    <3>1. TickFrom(j, from, m) = from /\ k + (m - 1) = k /\ p * k = k * p
      BY <1>3, <2>3, Product
    <3>2. from = k * p + (from % p) /\ k * p + p <= (k + (n - 1)) * p
      BY <1>2, <2>2, <3>1
    <3> QED BY <1>2, <2>1, <2>2, <3>1, <3>2, Product
  <2>4. CASE m # 1
    <3>1. TickFrom(j, from, m) = (k + (m - 1)) * p
      BY <1>3, <2>4
    <3> QED BY <2>1, <2>2, <3>1
  <2> QED BY <2>3, <2>4
<1> QED BY <1>5, <1>6, <1>7

\* Missed is the first ticks from the due one on, at least one and at most Cap.
LEMMA MissedIs ==
  ASSUME NEW j \in Jobs, NEW from \in Nat, NEW nowEpoch \in Nat
  PROVE  \E count \in 1 .. Cap[j] :
           Missed(j, from, nowEpoch) = [n \in 1 .. count |-> TickFrom(j, from, n)]
<1> DEFINE Ticking(f) == f = [n \in Nat |-> IF n <= 1 THEN from ELSE NextTick(j, f[n - 1])]
           closed == [n \in Nat |-> TickFrom(j, from, n)]
           tick == CHOOSE f : Ticking(f)
<1>1. Ticking(closed)
  <2>1. ASSUME NEW n \in Nat, ~(n <= 1) PROVE closed[n] = NextTick(j, closed[n - 1])
    <3>1. n - 1 \in Nat \ {0} /\ n - 1 \in Nat /\ n - 1 + 1 = n
      BY <2>1
    <3>2. NextTick(j, TickFrom(j, from, n - 1)) = TickFrom(j, from, n)
      BY <3>1, TicksGrow
    <3> QED BY <3>1, <3>2
  <2>2. \A n \in Nat : n <= 1 => closed[n] = from
    BY DEF TickFrom
  <2>3. closed = [n \in Nat |-> closed[n]]
    OBVIOUS
  <2> HIDE DEF closed
  <2> QED BY <2>1, <2>2, <2>3
<1>2. Ticking(tick)
  <2> HIDE DEF Ticking, closed
  <2> QED BY <1>1
<1>3. \A n \in Nat : /\ tick[n] = IF n <= 1 THEN from ELSE NextTick(j, tick[n - 1])
                     /\ closed[n] = IF n <= 1 THEN from ELSE NextTick(j, closed[n - 1])
  <2> HIDE DEF tick, closed
  <2> QED BY <1>1, <1>2
<1>4. \A n \in Nat : tick[n] = TickFrom(j, from, n)
  <2> HIDE DEF tick, closed
  <2> DEFINE Bad == {n \in Nat : tick[n] # closed[n]}
  <2>1. ASSUME Bad # {} PROVE FALSE
    <3>1. PICK n \in Bad : \A m \in Bad : n <= m
      <4>1. Bad \subseteq Nat
        OBVIOUS
      <4> HIDE DEF Bad
      <4> QED BY <2>1, <4>1, FirstOf
    <3>2. n \in Nat /\ ~(n <= 1) /\ n - 1 \in Nat /\ n - 1 \notin Bad
      BY <1>3, <3>1
    <3>3. tick[n - 1] = closed[n - 1]
      BY <3>2
    <3> QED BY <1>3, <3>1, <3>2, <3>3
  <2> QED BY <2>1 DEF closed
<1> DEFINE S == {1} \cup {n \in 1 .. Cap[j] : tick[n] <= nowEpoch}
           count == Max(S)
<1>5. Missed(j, from, nowEpoch) = [n \in 1 .. count |-> tick[n]]
  BY DEF Missed
<1> HIDE DEF tick
<1>6. count \in S
  <2>1. Cap[j] \in Nat /\ S \subseteq 0 .. Cap[j] /\ S # {}
    BY JobConstants
  <2> HIDE DEF S
  <2>2. \E x \in S : \A y \in S : x >= y
    <3>1. PICK x \in S : \A y \in S : y <= x
      BY <2>1, LastOf
    <3> QED BY <2>1, <3>1
  <2> QED BY <2>2 DEF Max
<1>7. count \in 1 .. Cap[j]
  BY <1>6, JobConstants
<1> HIDE DEF count
<1>8. [n \in 1 .. count |-> tick[n]] = [n \in 1 .. count |-> TickFrom(j, from, n)]
  BY <1>4, <1>7
<1> QED BY <1>5, <1>7, <1>8
-----------------------------------------------------------------------------
(* Sums over a finite set: a fold has no closed form, but the number of    *)
(* pairs of an element and a number below its value is one.                *)

Pairs(s, f)  == {p \in s \X Nat : p[2] < f[p[1]]}
Weight(s, f) == Cardinality(Pairs(s, f))

\* The recursion MapThenSumSet stands for.
Sums(iter, S, f) ==
  iter = [s \in SUBSET S |->
            IF s = {} THEN 0
            ELSE f[CHOOSE x \in s : TRUE] + iter[s \ {CHOOSE x \in s : TRUE}]]

\* A family of subsets of a finite set has a smallest one.
LEMMA SmallestSubset ==
  ASSUME NEW S, IsFiniteSet(S), NEW Z \in SUBSET (SUBSET S), Z # {}
  PROVE  \E T \in Z : \A U \in Z : ~(U \subseteq T /\ U # T)
<1>1. FiniteSubsetsOf(S) = SUBSET S
  BY FS_FiniteSubsetsOfFinite
<1>2. IsWellFoundedOn(StrictSubsetOrdering(S), SUBSET S)
  BY <1>1, FS_StrictSubsetOrderingWellFounded
<1>3. PICK T \in Z : \A U \in Z : ~ (<<U, T>> \in StrictSubsetOrdering(S))
  BY <1>2, WFMin
<1> QED BY <1>3 DEF StrictSubsetOrdering

\* The pairs of one element, and those of the others.
LEMMA PairsOfOne ==
  ASSUME NEW s, NEW x \in s, NEW f \in [s -> Nat]
  PROVE  /\ IsFiniteSet(Pairs({x}, f)) /\ Weight({x}, f) = f[x]
         /\ Pairs(s, f) = Pairs(s \ {x}, f) \cup Pairs({x}, f)
         /\ Pairs(s \ {x}, f) \cap Pairs({x}, f) = {}
<1>1. PICK v \in Nat : v = f[x]
  OBVIOUS
<1> DEFINE g == [i \in 1 .. v |-> <<x, i - 1>>]
<1>2. g \in [1 .. v -> Pairs({x}, f)]
  BY <1>1 DEF Pairs
<1>3. g \in Bijection(1 .. v, Pairs({x}, f))
  <2>1. \A i, k \in 1 .. v : i # k => g[i] # g[k]
    OBVIOUS
  <2>2. ASSUME NEW p \in Pairs({x}, f) PROVE \E i \in 1 .. v : g[i] = p
    <3>1. p = <<x, p[2]>> /\ p[2] \in Nat /\ p[2] < v
      BY <1>1 DEF Pairs
    <3>2. p[2] + 1 \in 1 .. v /\ p[2] + 1 - 1 = p[2]
      BY <3>1
    <3> QED BY <3>1, <3>2
  <2> HIDE DEF g
  <2> QED BY <1>2, <2>1, <2>2 DEF Bijection, Injection, Surjection, IsInjective
<1>4. IsFiniteSet(1 .. v) /\ Cardinality(1 .. v) = v
  <2>1. IsFiniteSet(1 .. v) /\ Cardinality(1 .. v) = IF 1 > v THEN 0 ELSE v - 1 + 1
    BY FS_Interval
  <2> QED BY <2>1
<1>5. IsFiniteSet(Pairs({x}, f)) /\ Cardinality(Pairs({x}, f)) = v
  BY <1>3, <1>4, FS_Bijection DEF ExistsBijection
<1>6. Pairs(s, f) = Pairs(s \ {x}, f) \cup Pairs({x}, f)
  BY DEF Pairs
<1>7. Pairs(s \ {x}, f) \cap Pairs({x}, f) = {}
  BY DEF Pairs
<1> QED BY <1>1, <1>5, <1>6, <1>7 DEF Weight

\* Weight follows the recursion of a sum.
LEMMA WeightSplits ==
  ASSUME NEW S, IsFiniteSet(S), NEW f \in [S -> Nat]
  PROVE  /\ Weight({}, f) = 0
         /\ \A s \in SUBSET S :
              /\ IsFiniteSet(Pairs(s, f)) /\ Weight(s, f) \in Nat
              /\ \A x \in s : Weight(s, f) = f[x] + Weight(s \ {x}, f)
<1>1. Pairs({}, f) = {} /\ Weight({}, f) = 0
  BY FS_EmptySet DEF Weight, Pairs
<1>0. ASSUME NEW s \in SUBSET S, NEW x \in s
      PROVE  /\ IsFiniteSet(Pairs({x}, f)) /\ Weight({x}, f) = f[x]
             /\ Pairs(s, f) = Pairs(s \ {x}, f) \cup Pairs({x}, f)
             /\ Pairs(s \ {x}, f) \cap Pairs({x}, f) = {}
  <2> DEFINE g == [y \in s |-> f[y]]
  <2>1. g \in [s -> Nat]
    OBVIOUS
  <2>2. /\ Pairs({x}, f) = Pairs({x}, g) /\ Pairs(s, f) = Pairs(s, g)
        /\ Pairs(s \ {x}, f) = Pairs(s \ {x}, g) /\ f[x] = g[x]
    BY DEF Pairs
  <2> HIDE DEF g
  <2>3. /\ IsFiniteSet(Pairs({x}, g)) /\ Weight({x}, g) = g[x]
        /\ Pairs(s, g) = Pairs(s \ {x}, g) \cup Pairs({x}, g)
        /\ Pairs(s \ {x}, g) \cap Pairs({x}, g) = {}
    BY <2>1, PairsOfOne
  <2>4. Weight({x}, f) = f[x]
    BY <2>2, <2>3 DEF Weight
  <2> QED BY <2>2, <2>3, <2>4
<1>2. \A s \in SUBSET S : IsFiniteSet(Pairs(s, f))
  <2> DEFINE Z == {s \in SUBSET S : ~IsFiniteSet(Pairs(s, f))}
  <2>1. SUFFICES ASSUME Z # {} PROVE FALSE
    OBVIOUS
  <2>2. PICK T \in Z : \A U \in Z : ~(U \subseteq T /\ U # T)
    <3>1. Z \in SUBSET (SUBSET S)
      OBVIOUS
    <3> HIDE DEF Z
    <3> QED BY <2>1, <3>1, SmallestSubset
  <2>3. PICK x \in T : TRUE
    BY <1>1, <2>2, FS_EmptySet
  <2>4. IsFiniteSet(Pairs(T \ {x}, f))
    BY <2>2, <2>3
  <2>5. IsFiniteSet(Pairs(T \ {x}, f) \cup Pairs({x}, f))
    BY <1>0, <2>3, <2>4, FS_Union
  <2> QED BY <1>0, <2>2, <2>3, <2>5
<1>3. ASSUME NEW s \in SUBSET S, NEW x \in s
      PROVE  Weight(s, f) = f[x] + Weight(s \ {x}, f)
  <2>1. IsFiniteSet(Pairs(s \ {x}, f)) /\ IsFiniteSet(Pairs({x}, f))
    BY <1>2
  <2>2. Cardinality(Pairs(s, f)) =
          Cardinality(Pairs(s \ {x}, f)) + Cardinality(Pairs({x}, f)) - Cardinality({})
    BY <1>0, <2>1, FS_Union
  <2>3. /\ Cardinality({}) = 0 /\ Cardinality(Pairs({x}, f)) = f[x] /\ f[x] \in Nat
        /\ Cardinality(Pairs(s \ {x}, f)) \in Nat
    BY <1>0, <2>1, FS_EmptySet, FS_CardinalityType DEF Weight
  <2> QED BY <2>2, <2>3 DEF Weight
<1>4. \A s \in SUBSET S : Weight(s, f) \in Nat
  BY <1>2, FS_CardinalityType DEF Weight
<1> QED BY <1>1, <1>2, <1>3, <1>4

\* So every function with that recursion is the weight.
LEMMA SumIsWeight ==
  ASSUME NEW S, IsFiniteSet(S), NEW f \in [S -> Nat]
  PROVE  /\ \E iter : Sums(iter, S, f)
         /\ \A iter : Sums(iter, S, f) => iter[S] = Weight(S, f)
<1> DEFINE W == [s \in SUBSET S |-> Weight(s, f)]
           pick(s) == CHOOSE x \in s : TRUE
<1>0. \A s \in SUBSET S : s # {} => pick(s) \in s /\ s \ {pick(s)} \in SUBSET S
  OBVIOUS
<1>1. Sums(W, S, f)
  <2>1. \A s \in SUBSET S :
          W[s] = IF s = {} THEN 0 ELSE f[pick(s)] + W[s \ {pick(s)}]
    <3>1. ASSUME NEW s \in SUBSET S, s # {}
          PROVE  Weight(s, f) = f[pick(s)] + Weight(s \ {pick(s)}, f)
                 /\ s \ {pick(s)} \in SUBSET S
      <4>1. pick(s) \in s /\ s \ {pick(s)} \in SUBSET S
        BY <1>0, <3>1
      <4> HIDE DEF pick
      <4> QED BY <4>1, WeightSplits
    <3>2. Weight({}, f) = 0
      BY WeightSplits
    <3> HIDE DEF pick
    <3> QED BY <3>1, <3>2
  <2>2. W = [s \in SUBSET S |-> W[s]]
    OBVIOUS
  <2> HIDE DEF W
  <2> QED BY <2>1, <2>2 DEF Sums
<1>2. ASSUME NEW iter, Sums(iter, S, f) PROVE iter[S] = Weight(S, f)
  <2>1. \A s \in SUBSET S :
          iter[s] = IF s = {} THEN 0 ELSE f[pick(s)] + iter[s \ {pick(s)}]
    BY <1>2 DEF Sums
  <2> DEFINE Z == {s \in SUBSET S : iter[s] # Weight(s, f)}
  <2>2. ASSUME Z # {} PROVE FALSE
    <3>1. PICK T \in Z : \A U \in Z : ~(U \subseteq T /\ U # T)
      <4>1. Z \in SUBSET (SUBSET S)
        OBVIOUS
      <4> HIDE DEF Z
      <4> QED BY <2>2, <4>1, SmallestSubset
    <3>2. T # {}
      BY <2>1, <3>1, WeightSplits
    <3>3. pick(T) \in T /\ T \ {pick(T)} \in SUBSET S /\ T \in SUBSET S
      BY <1>0, <3>1, <3>2
    <3> HIDE DEF pick
    <3>4. iter[T \ {pick(T)}] = Weight(T \ {pick(T)}, f)
      BY <3>1, <3>3
    <3>5. Weight(T, f) = f[pick(T)] + Weight(T \ {pick(T)}, f)
      BY <3>3, WeightSplits
    <3> QED BY <2>1, <3>1, <3>2, <3>3, <3>4, <3>5
  <2> QED BY <2>2
<1> QED BY <1>1, <1>2

\* The two sums of a poll: of the ticks of some jobs, and of those at some
\* places of the order.
JobCost(S, t)      == MapThenSumSet(LAMBDA j : Len(Ticks(j, t)), S)
PlaceCost(q, S, t) == MapThenSumSet(LAMBDA m : Len(Ticks(q[m], t)), S)

LEMMA JobSum ==
  ASSUME NEW S, IsFiniteSet(S), NEW t, \A j \in S : Len(Ticks(j, t)) \in Nat
  PROVE  JobCost(S, t) = Weight(S, [j \in S |-> Len(Ticks(j, t))])
<1> DEFINE f == [j \in S |-> Len(Ticks(j, t))]
           Fold(iter) == iter = [s \in SUBSET S |->
                                   IF s = {} THEN 0
                                   ELSE Len(Ticks(CHOOSE x \in s : TRUE, t))
                                        + iter[s \ {CHOOSE x \in s : TRUE}]]
           sum == CHOOSE iter : Fold(iter)
<1>1. JobCost(S, t) = sum[S]
  BY DEF JobCost, MapThenSumSet, MapThenFoldSet
<1>2. \A s \in SUBSET S : s # {} =>
        Len(Ticks(CHOOSE x \in s : TRUE, t)) = f[CHOOSE x \in s : TRUE]
  <2>1. \A s \in SUBSET S : s # {} => (CHOOSE x \in s : TRUE) \in S
    OBVIOUS
  <2> QED BY <2>1
<1>3. ASSUME NEW iter PROVE Fold(iter) <=> Sums(iter, S, f)
  <2> HIDE DEF f
  <2> QED BY <1>2 DEF Sums
<1>4. f \in [S -> Nat]
  OBVIOUS
<1> HIDE DEF f, Fold
<1>5. \E iter : Fold(iter)
  BY <1>3, <1>4, SumIsWeight
<1>6. Fold(sum)
  BY <1>5
<1>7. sum[S] = Weight(S, f)
  BY <1>3, <1>4, <1>6, SumIsWeight
<1> QED BY <1>1, <1>7 DEF f

LEMMA PlaceSum ==
  ASSUME NEW S, IsFiniteSet(S), NEW q, NEW t, \A m \in S : Len(Ticks(q[m], t)) \in Nat
  PROVE  PlaceCost(q, S, t) = Weight(S, [m \in S |-> Len(Ticks(q[m], t))])
<1> DEFINE f == [m \in S |-> Len(Ticks(q[m], t))]
           Fold(iter) == iter = [s \in SUBSET S |->
                                   IF s = {} THEN 0
                                   ELSE Len(Ticks(q[CHOOSE x \in s : TRUE], t))
                                        + iter[s \ {CHOOSE x \in s : TRUE}]]
           sum == CHOOSE iter : Fold(iter)
<1>1. PlaceCost(q, S, t) = sum[S]
  BY DEF PlaceCost, MapThenSumSet, MapThenFoldSet
<1>2. \A s \in SUBSET S : s # {} =>
        Len(Ticks(q[CHOOSE x \in s : TRUE], t)) = f[CHOOSE x \in s : TRUE]
  <2>1. \A s \in SUBSET S : s # {} => (CHOOSE x \in s : TRUE) \in S
    OBVIOUS
  <2> QED BY <2>1
<1>3. ASSUME NEW iter PROVE Fold(iter) <=> Sums(iter, S, f)
  <2> HIDE DEF f
  <2> QED BY <1>2 DEF Sums
<1>4. f \in [S -> Nat]
  OBVIOUS
<1> HIDE DEF f, Fold
<1>5. \E iter : Fold(iter)
  BY <1>3, <1>4, SumIsWeight
<1>6. Fold(sum)
  BY <1>5
<1>7. sum[S] = Weight(S, f)
  BY <1>3, <1>4, <1>6, SumIsWeight
<1> QED BY <1>1, <1>7 DEF f

\* What is mapped onto a set with the same values weighs as much at least.
LEMMA WeightOfImage ==
  ASSUME NEW S, IsFiniteSet(S), NEW f \in [S -> Nat], NEW T, NEW g \in [T -> Nat], NEW q,
         \A y \in T : \E x \in S : q[x] = y /\ f[x] = g[y]
  PROVE  Weight(T, g) <= Weight(S, f)
<1> DEFINE c == [y \in T |-> CHOOSE x \in S : q[x] = y /\ f[x] = g[y]]
           h == [p \in Pairs(T, g) |-> <<c[p[1]], p[2]>>]
<1>1. \A y \in T : c[y] \in S /\ q[c[y]] = y /\ f[c[y]] = g[y]
  OBVIOUS
<1> HIDE DEF c
<1>2. \A p \in Pairs(T, g) :
        p = <<p[1], p[2]>> /\ p[1] \in T /\ p[2] \in Nat /\ p[2] < g[p[1]]
  BY DEF Pairs
<1>3. h \in [Pairs(T, g) -> Pairs(S, f)]
  BY <1>1, <1>2 DEF Pairs
<1>4. \A p, r \in Pairs(T, g) : h[p] = h[r] => p = r
  BY <1>1, <1>2
<1>5. h \in Injection(Pairs(T, g), Pairs(S, f))
  <2> HIDE DEF h
  <2> QED BY <1>3, <1>4 DEF Injection, IsInjective
<1>6. IsFiniteSet(Pairs(S, f))
  BY WeightSplits
<1> HIDE DEF h
<1> QED BY <1>5, <1>6, FS_Injection DEF Weight

-----------------------------------------------------------------------------
(* What computeJobSchedule returns.                                        *)

\* The ticks a poll fires: from the due one on, in order.
LEMMA TicksShape ==
  ASSUME NEW j \in Jobs, nextRun[j] \in Nat \ {0}, NEW t \in Nat
  PROVE  /\ Ticks(j, t) \in Seq(Nat \ {0}) /\ Len(Ticks(j, t)) \in Nat \ {0}
         /\ \A n \in 1 .. Len(Ticks(j, t)) : Ticks(j, t)[n] >= nextRun[j]
         /\ \A m, n \in 1 .. Len(Ticks(j, t)) : m < n => Ticks(j, t)[m] < Ticks(j, t)[n]
         /\ j \in Backfill =>
              Ticks(j, t) = [n \in 1 .. Len(Ticks(j, t)) |-> TickFrom(j, nextRun[j], n)]
<1>0. PICK from \in Nat \ {0} : from = nextRun[j]
  OBVIOUS
<1>1. CASE j \in Backfill
  <2>1. PICK count \in 1 .. Cap[j] :
          Ticks(j, t) = [n \in 1 .. count |-> TickFrom(j, from, n)]
    BY <1>0, <1>1, MissedIs DEF Ticks
  <2>2. count \in Nat \ {0}
    BY <2>1, JobConstants
  <2>3. \A n \in 1 .. count : TickFrom(j, from, n) \in Nat \ {0} /\ TickFrom(j, from, n) >= from
    <3>1. TickFrom(j, from, 1) = from
      BY DEF TickFrom
    <3>2. ASSUME NEW n \in 1 .. count
          PROVE  TickFrom(j, from, n) \in Nat /\ TickFrom(j, from, n) >= from
      <4>1. n \in Nat \ {0} /\ (n = 1 \/ 1 < n)
        BY <2>2
      <4>2. TickFrom(j, from, n) \in Nat
        BY <4>1, TicksGrow
      <4>3. 1 < n => TickFrom(j, from, 1) < TickFrom(j, from, n)
        BY <4>1, TicksGrow
      <4> QED BY <3>1, <4>1, <4>2, <4>3
    <3> QED BY <3>2
  <2>4. \A m, n \in 1 .. count : m < n => TickFrom(j, from, m) < TickFrom(j, from, n)
    <3>1. \A n \in 1 .. count : n \in Nat \ {0}
      BY <2>2
    <3> QED BY <3>1, TicksGrow
  <2>5. Len(Ticks(j, t)) = count
    BY <2>1, <2>2
  <2>6. Ticks(j, t) \in Seq(Nat \ {0})
    BY <2>1, <2>2, <2>3
  <2>7. \A n \in 1 .. count : Ticks(j, t)[n] = TickFrom(j, from, n)
    BY <2>1
  <2> QED BY <2>1, <2>2, <2>3, <2>4, <2>5, <2>6, <2>7, <1>0
<1>2. CASE j \notin Backfill
  <2>1. Ticks(j, t) = <<from>>
    BY <1>0, <1>2 DEF Ticks
  <2> QED BY <1>0, <1>2, <2>1
<1> QED BY <1>1, <1>2

\* The next cursor is after all ticks fired.
LEMMA NextRunShape ==
  ASSUME NEW j \in Jobs, nextRun[j] \in Nat \ {0}, NEW t \in Nat
  PROVE  /\ j \in Once => NextRun(j, t) = Never
         /\ j \notin Once =>
              /\ NextRun(j, t) \in Nat \ {0} /\ NextRun(j, t) > nextRun[j]
              /\ \A n \in 1 .. Len(Ticks(j, t)) : Ticks(j, t)[n] < NextRun(j, t)
         /\ j \in Backfill =>
              NextRun(j, t) = TickFrom(j, nextRun[j], Len(Ticks(j, t)) + 1)
         /\ j \notin Once \cup Backfill =>
              NextRun(j, t) = IF NextTick(j, nextRun[j]) > t THEN NextTick(j, nextRun[j])
                                                            ELSE NextTick(j, t)
<1> DEFINE count == Len(Ticks(j, t))
<1>0. Once \cap Backfill = {}
  BY SchedulerAssumption
<1>f. PICK from \in Nat \ {0} : from = nextRun[j]
  OBVIOUS
<1>1. CASE j \in Once
  BY <1>0, <1>1 DEF NextRun
<1>2. CASE j \in Backfill
  <2>1. /\ count \in Nat \ {0} /\ Ticks(j, t) = [n \in 1 .. count |-> TickFrom(j, from, n)]
    BY <1>f, <1>2, TicksShape
  <2>2. NextRun(j, t) = NextTick(j, Ticks(j, t)[count])
    BY <1>0, <1>2 DEF NextRun
  <2> HIDE DEF count
  <2>3. \A n \in 1 .. count : Ticks(j, t)[n] = TickFrom(j, from, n)
    BY <2>1
  <2>4. NextRun(j, t) = TickFrom(j, from, count + 1)
    <3>1. Ticks(j, t)[count] = TickFrom(j, from, count)
      BY <2>1, <2>3
    <3>2. NextTick(j, TickFrom(j, from, count)) = TickFrom(j, from, count + 1)
      BY <2>1, TicksGrow
    <3> QED BY <2>2, <3>1, <3>2
  <2>5. \A n \in 1 .. count : Ticks(j, t)[n] < NextRun(j, t)
    <3>1. \A n \in 1 .. count :
            n \in Nat \ {0} /\ count + 1 \in Nat \ {0} /\ n < count + 1
      BY <2>1
    <3> QED BY <2>3, <2>4, <3>1, TicksGrow
  <2>6. TickFrom(j, from, 1) = from
    BY DEF TickFrom
  <2>7. NextRun(j, t) \in Nat /\ NextRun(j, t) > from
    <3>1. 1 \in Nat \ {0} /\ count + 1 \in Nat \ {0} /\ count + 1 \in Nat /\ 1 < count + 1
      BY <2>1
    <3>2. TickFrom(j, from, count + 1) \in Nat /\ TickFrom(j, from, 1) < TickFrom(j, from, count + 1)
      BY <3>1, TicksGrow
    <3> QED BY <2>4, <2>6, <3>2
  <2> QED BY <1>f, <1>0, <1>2, <2>4, <2>5, <2>7 DEF count
<1>3. CASE j \notin Once \cup Backfill
  <2>1. NextRun(j, t) = SkipAhead(j, from, t) /\ Ticks(j, t) = <<from>>
    BY <1>f, <1>3 DEF NextRun, Ticks
  <2>2. NextRun(j, t) = IF NextTick(j, from) > t THEN NextTick(j, from) ELSE NextTick(j, t)
    BY <2>1, SkipAheadIs
  <2>3. NextRun(j, t) \in Nat /\ NextRun(j, t) > from
    BY <2>2, NextTickIsNext
  <2> QED BY <1>f, <1>3, <2>1, <2>2, <2>3
<1> QED BY <1>1, <1>2, <1>3

\* The ticks a backfilled job catches up on are those between its cursors.
LEMMA TicksBetween ==
  ASSUME NEW j \in Jobs, NEW from \in Nat, FirstRun[j] <= from,
         from = FirstRun[j] \/ from % Period[j] = 0, NEW count \in Nat \ {0}
  PROVE  TicksBefore(j, TickFrom(j, from, count + 1))
           = TicksBefore(j, from) \cup {TickFrom(j, from, n) : n \in 1 .. count}
<1>0. FirstRun[j] \in Nat
  BY JobConstants
<1>1. PICK p \in Nat \ {0} : p = Period[j]
  BY JobConstants
<1>2. PICK k \in Nat : k = from \div p /\ from = p * k + (from % p) /\ from % p < p
                       /\ from % p \in Nat
  BY Division
<1>3. \A n \in Nat : TickFrom(j, from, n) = IF n <= 1 THEN from ELSE (k + (n - 1)) * p
  BY <1>1, <1>2 DEF TickFrom
<1>4. PICK to \in Nat : to = TickFrom(j, from, count + 1)
  BY TicksGrow
<1>5. to = (k + count) * p
  <2>1. count + 1 \in Nat /\ ~(count + 1 <= 1) /\ count + 1 - 1 = count
    OBVIOUS
  <2> QED BY <1>3, <1>4, <2>1
<1>6. \A n \in 1 .. count : /\ TickFrom(j, from, n) \in Nat /\ TickFrom(j, from, n) < to
                            /\ from <= TickFrom(j, from, n)
  <2>1. ASSUME NEW n \in 1 .. count PROVE TickFrom(j, from, n) \in Nat /\ TickFrom(j, from, n) < to
    <3>1. n \in Nat \ {0} /\ count + 1 \in Nat \ {0} /\ n < count + 1
      OBVIOUS
    <3> QED BY <1>4, <3>1, TicksGrow
  <2>2. ASSUME NEW n \in 1 .. count PROVE from <= TickFrom(j, from, n)
    <3>1. TickFrom(j, from, 1) = from
      BY <1>3
    <3>2. n \in Nat \ {0} /\ (n = 1 \/ 1 < n)
      OBVIOUS
    <3>3. 1 < n => TickFrom(j, from, 1) < TickFrom(j, from, n)
      BY <3>2, TicksGrow
    <3> QED BY <2>1, <3>1, <3>2, <3>3
  <2> QED BY <2>1, <2>2
<1>7. from < to
  <2>1. 1 \in 1 .. count /\ TickFrom(j, from, 1) = from
    BY <1>3
  <2> QED BY <1>6, <2>1
<1>8. ASSUME NEW u \in TicksBefore(j, to)
      PROVE  u \in TicksBefore(j, from) \cup {TickFrom(j, from, n) : n \in 1 .. count}
  <2>0. u \in Nat /\ FirstRun[j] <= u /\ u < to /\ (u = FirstRun[j] \/ u % p = 0)
    BY <1>0, <1>1, <1>8 DEF TicksBefore
  <2>1. CASE u < from
    BY <1>0, <1>1, <2>0, <2>1 DEF TicksBefore
  <2>2. CASE u = from
    <3>1. 1 \in 1 .. count /\ TickFrom(j, from, 1) = from
      BY <1>3
    <3> QED BY <2>2, <3>1
  <2>3. CASE u > from
    <3>1. u % p = 0
      BY <1>0, <2>0, <2>3
    <3>2. PICK m \in Nat : u = p * m
      <4>1. PICK m \in Nat : u = p * m + (u % p)
        BY <2>0, Division
      <4>2. PICK v \in Nat : v = p * m
        BY <4>1, Product
      <4>3. u = v
        BY <3>1, <4>1, <4>2
      <4> QED BY <4>2, <4>3
    <3>3. /\ p * m = m * p /\ m * p \in Nat /\ p * k = k * p /\ k * p \in Nat
          /\ k + count \in Nat /\ (k + count) * p \in Nat
      <4>1. k + count \in Nat
        OBVIOUS
      <4> QED BY <4>1, Product
    <3>4. ~(m <= k)
      <4>1. m <= k => m * p <= k * p
        BY Product
      <4> QED BY <1>2, <2>3, <3>2, <3>3, <4>1
    <3>5. ~(k + count <= m)
      <4>1. k + count <= m => (k + count) * p <= m * p
        BY <3>3, Product
      <4> QED BY <1>5, <2>0, <3>2, <3>3, <4>1
    <3>6. (m - k) + 1 \in 1 .. count /\ k + ((m - k) + 1 - 1) = m /\ ~((m - k) + 1 <= 1)
      BY <3>4, <3>5
    <3>7. TickFrom(j, from, (m - k) + 1) = u
      BY <1>3, <3>2, <3>3, <3>6
    <3> QED BY <3>6, <3>7
  <2> QED BY <2>0, <2>1, <2>2, <2>3
<1>9. ASSUME NEW u \in TicksBefore(j, from) PROVE u \in TicksBefore(j, to)
  BY <1>0, <1>7, <1>9 DEF TicksBefore
<1>10. ASSUME NEW n \in 1 .. count PROVE TickFrom(j, from, n) \in TicksBefore(j, to)
  <2>1. TickFrom(j, from, n) = FirstRun[j] \/ TickFrom(j, from, n) % p = 0
    <3>1. CASE n = 1
      BY <1>1, <1>3, <3>1
    <3>2. CASE n # 1
      <4>1. TickFrom(j, from, n) = (k + (n - 1)) * p /\ k + (n - 1) \in Nat
        BY <1>3, <3>2
      <4> QED BY <4>1, MultipleDiv
    <3> QED BY <3>1, <3>2
  <2> QED BY <1>0, <1>1, <1>6, <2>1 DEF TicksBefore
<1> QED BY <1>4, <1>8, <1>9, <1>10

-----------------------------------------------------------------------------
(* The inductive invariant.                                                *)

\* No row is claimed by two, and who claims one finds it due.
Exclusive ==
  \A s, r \in Schedulers : s # r => claimed[s] \cap claimed[r] = {}
ClaimsHaveRuns ==
  \A s \in Schedulers : \A j \in claimed[s] : nextRun[j] # Never

\* The cursor is ahead of all that was fired.
Ahead ==
  \A j \in Jobs : nextRun[j] # Never =>
    \A n \in DOMAIN fired[j] : fired[j][n] < nextRun[j]

\* A backfilled job's cursor stands on a tick.
OnTick ==
  \A j \in Backfill :
    /\ FirstRun[j] <= nextRun[j]
    /\ nextRun[j] = FirstRun[j] \/ nextRun[j] % Period[j] = 0

Inv == /\ TypeOK
       /\ Exclusive /\ ClaimsHaveRuns
       /\ Ahead /\ TicksInOrder
       /\ OnTick /\ NoTickSkipped

\* What a poll writes: the ticks and the next cursor of some of its jobs, no
\* more ticks than its budget.
Fires(s, batch) ==
  /\ fired' = [j \in Jobs |-> IF j \in batch THEN fired[j] \o Ticks(j, clock[s])
                                             ELSE fired[j]]
  /\ nextRun' = [j \in Jobs |-> IF j \in batch THEN NextRun(j, clock[s])
                                               ELSE nextRun[j]]
  /\ backlog' \in Nat /\ backlog' - backlog <= budget[s]

LEMMA ScheduleEffect ==
  ASSUME Inv, NEW s \in Schedulers, Schedule(s)
  PROVE  \E batch \in SUBSET claimed[s] : Fires(s, batch)
<1> DEFINE t == clock[s]
           cost(j) == Len(Ticks(j, t))
<1>1. /\ claimed[s] \subseteq Jobs /\ IsFiniteSet(claimed[s]) /\ t \in Nat
      /\ budget[s] \in Nat /\ backlog \in Nat
      /\ \A j \in claimed[s] : cost(j) \in Nat
  <2>1. claimed[s] \in SUBSET Jobs /\ t \in Nat /\ budget[s] \in 0 .. MaxDepth /\ backlog \in Nat
    BY DEF Inv, TypeOK
  <2>2. IsFiniteSet(claimed[s]) /\ MaxDepth \in Nat
    BY <2>1, SchedulerAssumption, FS_Subset
  <2>3. \A j \in claimed[s] : j \in Jobs /\ nextRun[j] \in Nat \ {0}
    BY <2>1 DEF Inv, TypeOK, ClaimsHaveRuns, Never
  <2>4. \A j \in claimed[s] : cost(j) \in Nat
    BY <2>1, <2>3, TicksShape
  <2> QED BY <2>1, <2>2, <2>4
<1>2. PICK q \in Orders(claimed[s]) :
        /\ fired' = [j \in Jobs |-> IF j \in Admitted(s, q) THEN fired[j] \o Ticks(j, t)
                                                            ELSE fired[j]]
        /\ nextRun' = [j \in Jobs |-> IF j \in Admitted(s, q) THEN NextRun(j, t)
                                                              ELSE nextRun[j]]
        /\ backlog' = backlog + JobCost(Admitted(s, q), t)
  BY DEF Schedule, JobCost
<1> DEFINE size == Cardinality(claimed[s])
           valid == {n \in DOMAIN q : q[n] \notin Invalid}
           P(m) == {n \in valid : n <= m}
           A == {m \in valid : PlaceCost(q, P(m), t) <= budget[s]}
           batch == {q[n] : n \in A}
<1>3. size \in Nat /\ DOMAIN q = 1 .. size /\ \A n \in 1 .. size : q[n] \in claimed[s]
  BY <1>1, FS_CardinalityType DEF Orders
<1>4. Admitted(s, q) = batch
  BY DEF Admitted, PlaceCost
<1>5. batch \in SUBSET claimed[s] /\ valid \subseteq 1 .. size
  BY <1>3
<1> HIDE DEF size
<1>6. Weight(batch, [j \in batch |-> cost(j)]) \in 0 .. budget[s]
  <2> DEFINE g == [j \in batch |-> cost(j)]
  <2>1. g \in [batch -> Nat] /\ IsFiniteSet(batch)
    BY <1>1, <1>5, FS_Subset
  <2>2. Weight(batch, g) \in Nat
    BY <2>1, WeightSplits
  <2>3. CASE A = {}
    <3>1. batch = {}
      BY <2>3
    <3>2. Weight(batch, g) = 0
      <4> HIDE DEF batch, A, g
      <4> QED BY <2>1, <3>1, WeightSplits
    <3> HIDE DEF batch, A
    <3> QED BY <1>1, <3>2
  <2>4. CASE A # {}
    <3>1. PICK m \in A : \A n \in A : n <= m
      <4>1. A \in SUBSET (0 .. size)
        BY <1>5
      <4> HIDE DEF A
      <4> QED BY <1>3, <2>4, <4>1, LastOf
    <3> DEFINE f == [n \in P(m) |-> Len(Ticks(q[n], t))]
    <3>2. P(m) \subseteq 1 .. size /\ IsFiniteSet(P(m))
      <4>1. IsFiniteSet(1 .. size)
        BY <1>3, FS_Interval
      <4>2. P(m) \subseteq 1 .. size
        BY <1>5
      <4> QED BY <4>1, <4>2, FS_Subset
    <3>3. \A n \in P(m) : Len(Ticks(q[n], t)) \in Nat
      BY <1>1, <1>3, <3>2
    <3>4. PlaceCost(q, P(m), t) = Weight(P(m), f)
      <4> HIDE DEF P
      <4> QED BY <3>2, <3>3, PlaceSum
    <3>5. Weight(P(m), f) <= budget[s]
      BY <3>1, <3>4
    <3>6. \A y \in batch : \E n \in P(m) : q[n] = y /\ f[n] = g[y]
      BY <3>1
    <3>7. f \in [P(m) -> Nat]
      BY <3>3
    <3>8. Weight(P(m), f) \in Nat /\ Weight(batch, g) <= Weight(P(m), f)
      <4> HIDE DEF P, f, g, batch
      <4> QED BY <2>1, <3>2, <3>6, <3>7, WeightSplits, WeightOfImage
    <3>9. Weight(batch, g) <= budget[s]
      <4> HIDE DEF f, g, batch, P, A
      <4> QED BY <1>1, <2>2, <3>5, <3>8
    <3> HIDE DEF f, batch, P, A
    <3> QED BY <1>1, <2>2, <3>9
  <2> QED BY <2>3, <2>4
<1>7. JobCost(batch, t) = Weight(batch, [j \in batch |-> cost(j)])
  <2>1. IsFiniteSet(batch) /\ \A j \in batch : Len(Ticks(j, t)) \in Nat
    BY <1>1, <1>5, FS_Subset
  <2> HIDE DEF batch
  <2> QED BY <2>1, JobSum
<1> HIDE DEF batch, A, P, valid
<1>8. backlog' \in Nat /\ backlog' - backlog <= budget[s]
  BY <1>1, <1>2, <1>4, <1>6, <1>7
<1> QED BY <1>2, <1>4, <1>5, <1>8 DEF Fires

\* Ticks appended to earlier ones.
LEMMA Appended ==
  ASSUME NEW F \in Seq(Nat \ {0}), NEW T \in Seq(Nat \ {0}), NEW c \in Nat,
         \A n \in DOMAIN F : F[n] < c, \A n \in DOMAIN T : T[n] >= c,
         \A m, n \in DOMAIN F : m < n => F[m] < F[n],
         \A m, n \in DOMAIN T : m < n => T[m] < T[n]
  PROVE  /\ F \o T \in Seq(Nat \ {0})
         /\ \A m, n \in DOMAIN (F \o T) : m < n => (F \o T)[m] < (F \o T)[n]
         /\ {(F \o T)[n] : n \in DOMAIN (F \o T)}
              = {F[n] : n \in DOMAIN F} \cup {T[n] : n \in DOMAIN T}
<1> DEFINE G == F \o T
<1>0. PICK a \in Nat, b \in Nat : a = Len(F) /\ b = Len(T)
  OBVIOUS
<1>1. /\ DOMAIN F = 1 .. a /\ DOMAIN T = 1 .. b
      /\ G \in Seq(Nat \ {0}) /\ DOMAIN G = 1 .. (a + b)
      /\ \A n \in 1 .. (a + b) : G[n] = IF n <= a THEN F[n] ELSE T[n - a]
  BY <1>0
<1> HIDE DEF G
<1>2. ASSUME NEW m \in 1 .. (a + b), NEW n \in 1 .. (a + b), m < n PROVE G[m] < G[n]
  <2>1. CASE n <= a
    <3>1. m \in 1 .. a /\ n \in 1 .. a /\ m <= a
      BY <1>2, <2>1
    <3> QED BY <1>1, <1>2, <2>1, <3>1
  <2>2. CASE ~(n <= a) /\ m <= a
    <3>1. m \in 1 .. a /\ n - a \in 1 .. b
      BY <2>2
    <3>2. G[m] = F[m] /\ G[n] = T[n - a] /\ F[m] \in Nat /\ T[n - a] \in Nat
      BY <1>1, <2>2, <3>1
    <3>3. F[m] < c /\ T[n - a] >= c
      BY <1>1, <3>1
    <3> QED BY <3>2, <3>3
  <2>3. CASE ~(m <= a)
    <3>1. m - a \in 1 .. b /\ n - a \in 1 .. b /\ m - a < n - a /\ ~(n <= a)
      BY <1>2, <2>3
    <3>2. G[m] = T[m - a] /\ G[n] = T[n - a]
      BY <1>1, <2>3, <3>1
    <3> QED BY <1>1, <3>1, <3>2
  <2> QED BY <2>1, <2>2, <2>3
<1>3. {G[n] : n \in DOMAIN G} = {F[n] : n \in DOMAIN F} \cup {T[n] : n \in DOMAIN T}
  <2>1. ASSUME NEW n \in DOMAIN G
        PROVE  G[n] \in {F[k] : k \in DOMAIN F} \cup {T[k] : k \in DOMAIN T}
    <3>1. CASE n <= a
      <4>1. n \in DOMAIN F /\ G[n] = F[n]
        BY <1>1, <3>1
      <4> QED BY <4>1
    <3>2. CASE ~(n <= a)
      <4>0. n \in 1 .. (a + b) /\ n - a \in 1 .. b
        BY <1>1, <3>2
      <4>1. n - a \in DOMAIN T /\ G[n] = T[n - a]
        BY <1>1, <3>2, <4>0
      <4> QED BY <4>1
    <3> QED BY <3>1, <3>2
  <2>2. ASSUME NEW n \in DOMAIN F PROVE F[n] \in {G[k] : k \in DOMAIN G}
    <3>1. n \in DOMAIN G /\ G[n] = F[n]
      BY <1>1
    <3> QED BY <3>1
  <2>3. ASSUME NEW n \in DOMAIN T PROVE T[n] \in {G[k] : k \in DOMAIN G}
    <3>1. n \in 1 .. b
      BY <1>1
    <3>2. n + a \in 1 .. (a + b) /\ ~(n + a <= a) /\ n + a - a = n
      BY <3>1
    <3>3. n + a \in DOMAIN G /\ G[n + a] = T[n]
      BY <1>1, <3>2
    <3> QED BY <3>3
  <2> QED BY <2>1, <2>2, <2>3
<1> QED BY <1>1, <1>2, <1>3 DEF G

\* What firing does to one job.
LEMMA FiresOne ==
  ASSUME Inv, NEW s \in Schedulers, NEW batch \in SUBSET claimed[s], Fires(s, batch),
         NEW j \in batch
  PROVE  /\ j \in Jobs
         /\ nextRun'[j] \in Nat /\ fired'[j] \in Seq(Nat \ {0})
         /\ nextRun'[j] # Never => \A n \in DOMAIN fired'[j] : fired'[j][n] < nextRun'[j]
         /\ \A m, n \in DOMAIN fired'[j] : m < n => fired'[j][m] < fired'[j][n]
         /\ j \in Backfill =>
              /\ FirstRun[j] <= nextRun'[j] /\ nextRun'[j] % Period[j] = 0
              /\ {fired'[j][n] : n \in DOMAIN fired'[j]} = TicksBefore(j, nextRun'[j])
<1>1. /\ j \in Jobs /\ j \in claimed[s] /\ nextRun[j] \in Nat \ {0}
      /\ clock[s] \in Nat /\ fired[j] \in Seq(Nat \ {0})
  BY DEF Inv, TypeOK, ClaimsHaveRuns, Never
<1>2. PICK t \in Nat : t = clock[s]
  BY <1>1
<1>3. PICK from \in Nat \ {0} : from = nextRun[j]
  BY <1>1
<1>t. /\ Ticks(j, t) \in Seq(Nat \ {0}) /\ Len(Ticks(j, t)) \in Nat \ {0}
      /\ \A n \in 1 .. Len(Ticks(j, t)) : Ticks(j, t)[n] >= nextRun[j]
      /\ \A m, n \in 1 .. Len(Ticks(j, t)) : m < n => Ticks(j, t)[m] < Ticks(j, t)[n]
  BY <1>1, TicksShape
<1>4. PICK T \in Seq(Nat \ {0}) :
        /\ T = Ticks(j, t)
        /\ Len(T) \in Nat \ {0} /\ DOMAIN T = 1 .. Len(T)
        /\ \A n \in DOMAIN T : T[n] >= from
        /\ \A m, n \in DOMAIN T : m < n => T[m] < T[n]
  BY <1>3, <1>t
<1>5. PICK F \in Seq(Nat \ {0}) :
        /\ F = fired[j]
        /\ \A n \in DOMAIN F : F[n] < from
        /\ \A m, n \in DOMAIN F : m < n => F[m] < F[n]
  BY <1>1, <1>3 DEF Inv, Ahead, TicksInOrder, Never
<1>6. fired'[j] = F \o T /\ nextRun'[j] = NextRun(j, t)
  BY <1>1, <1>2, <1>4, <1>5 DEF Fires
<1>7. /\ F \o T \in Seq(Nat \ {0})
      /\ \A m, n \in DOMAIN (F \o T) : m < n => (F \o T)[m] < (F \o T)[n]
      /\ {(F \o T)[n] : n \in DOMAIN (F \o T)}
           = {F[n] : n \in DOMAIN F} \cup {T[n] : n \in DOMAIN T}
  BY <1>4, <1>5, Appended
<1>8. /\ j \in Once => NextRun(j, t) = Never
      /\ j \notin Once => /\ NextRun(j, t) \in Nat \ {0} /\ NextRun(j, t) > from
                          /\ \A n \in DOMAIN T : T[n] < NextRun(j, t)
      /\ j \in Backfill => NextRun(j, t) = TickFrom(j, from, Len(T) + 1)
  BY <1>1, <1>3, <1>4, NextRunShape
<1>9. nextRun'[j] \in Nat
  BY <1>6, <1>8 DEF Never
<1>10. ASSUME nextRun'[j] # Never, NEW n \in DOMAIN (F \o T)
       PROVE  (F \o T)[n] < nextRun'[j]
  <2>1. \/ \E m \in DOMAIN F : (F \o T)[n] = F[m]
        \/ \E m \in DOMAIN T : (F \o T)[n] = T[m]
    BY <1>7
  <2>2. nextRun'[j] \in Nat /\ nextRun'[j] > from /\ \A m \in DOMAIN T : T[m] < nextRun'[j]
    BY <1>6, <1>8, <1>10
  <2>3. \A m \in DOMAIN F : F[m] \in Nat /\ F[m] < from
    BY <1>5
  <2>4. \A m \in DOMAIN F : F[m] < nextRun'[j]
    BY <2>2, <2>3
  <2> QED BY <2>1, <2>2, <2>4
<1>11. ASSUME j \in Backfill
       PROVE  /\ FirstRun[j] <= nextRun'[j] /\ nextRun'[j] % Period[j] = 0
              /\ {(F \o T)[n] : n \in DOMAIN (F \o T)} = TicksBefore(j, nextRun'[j])
  <2>1. j \notin Once
    BY <1>11, SchedulerAssumption
  <2>2. /\ FirstRun[j] \in Nat /\ FirstRun[j] <= from
        /\ from = FirstRun[j] \/ from % Period[j] = 0
        /\ {F[n] : n \in DOMAIN F} = TicksBefore(j, from)
    BY <1>1, <1>3, <1>5, <1>11, JobConstants DEF Inv, OnTick, NoTickSkipped
  <2>3. FirstRun[j] <= nextRun'[j]
    BY <1>6, <1>8, <2>1, <2>2
  <2>4. nextRun'[j] % Period[j] = 0
    <3>1. NextTick(j, TickFrom(j, from, Len(T))) = TickFrom(j, from, Len(T) + 1)
          /\ TickFrom(j, from, Len(T)) \in Nat
      BY <1>1, <1>4, TicksGrow
    <3> QED BY <1>1, <1>6, <1>8, <1>11, <3>1, NextTickIsNext
  <2>5. {T[n] : n \in DOMAIN T} = {TickFrom(j, from, n) : n \in 1 .. Len(T)}
    <3>1. T = [n \in 1 .. Len(T) |-> TickFrom(j, from, n)]
      BY <1>1, <1>2, <1>3, <1>4, <1>11, TicksShape
    <3> QED BY <1>4, <3>1
  <2>6. TicksBefore(j, TickFrom(j, from, Len(T) + 1))
          = TicksBefore(j, from) \cup {TickFrom(j, from, n) : n \in 1 .. Len(T)}
    BY <1>1, <1>4, <2>2, TicksBetween
  <2> QED BY <1>6, <1>7, <1>8, <1>11, <2>2, <2>3, <2>4, <2>5, <2>6
<1> QED BY <1>1, <1>6, <1>7, <1>9, <1>10, <1>11

\* A poll's transaction keeps the invariant.
LEMMA ScheduleKeepsInv ==
  ASSUME Inv, NEW s \in Schedulers, Schedule(s)
  PROVE  Inv'
<1>1. PICK batch \in SUBSET claimed[s] : Fires(s, batch)
  BY ScheduleEffect
<1>2. ASSUME NEW j \in Jobs, j \notin batch
      PROVE  nextRun'[j] = nextRun[j] /\ fired'[j] = fired[j]
  BY <1>1, <1>2 DEF Fires
<1>3. /\ claimed' = [claimed EXCEPT ![s] = {}] /\ claimed' \in [Schedulers -> SUBSET Jobs]
      /\ \A r \in Schedulers : claimed'[r] = IF r = s THEN {} ELSE claimed[r]
  BY DEF Inv, TypeOK, Schedule, Over
<1>4. TypeOK'
  <2>1. nextRun' \in [Jobs -> Nat]
    <3>1. \A j \in Jobs : nextRun'[j] \in Nat
      BY <1>1, <1>2, FiresOne DEF Inv, TypeOK
    <3>2. nextRun' = [j \in Jobs |-> nextRun'[j]]
      BY <1>1 DEF Fires
    <3> QED BY <3>1, <3>2
  <2>2. fired' \in [Jobs -> Seq(Nat \ {0})]
    <3>1. \A j \in Jobs : fired'[j] \in Seq(Nat \ {0})
      BY <1>1, <1>2, FiresOne DEF Inv, TypeOK
    <3>2. fired' = [j \in Jobs |-> fired'[j]]
      BY <1>1 DEF Fires
    <3> QED BY <3>1, <3>2
  <2>3. backlog' \in Nat
    BY <1>1 DEF Fires
  <2>4. clock' \in [Schedulers -> Nat] /\ budget' \in [Schedulers -> 0 .. MaxDepth]
    <3>1. 0 \in Nat /\ 0 \in 0 .. MaxDepth
      BY SchedulerAssumption
    <3>2. /\ clock' = [clock EXCEPT ![s] = 0] /\ clock \in [Schedulers -> Nat]
          /\ budget' = [budget EXCEPT ![s] = 0] /\ budget \in [Schedulers -> 0 .. MaxDepth]
      BY DEF Inv, TypeOK, Schedule, Over
    <3> QED BY <3>1, <3>2
  <2> QED BY <1>3, <2>1, <2>2, <2>3, <2>4 DEF Inv, TypeOK, Schedule
<1>5. Exclusive'
  BY <1>3 DEF Inv, Exclusive
<1>6. ClaimsHaveRuns'
  <2>1. ASSUME NEW r \in Schedulers, NEW j \in claimed'[r] PROVE nextRun'[j] # Never
    <3>1. r # s /\ j \in claimed[r] /\ j \in Jobs
      BY <1>3, <2>1 DEF Inv, TypeOK
    <3>2. j \notin batch
      BY <3>1 DEF Inv, Exclusive
    <3> QED BY <1>2, <3>1, <3>2 DEF Inv, ClaimsHaveRuns
  <2> QED BY <2>1 DEF ClaimsHaveRuns
<1>7. Ahead'
  <2>1. ASSUME NEW j \in Jobs, nextRun'[j] # Never, NEW n \in DOMAIN fired'[j]
        PROVE  fired'[j][n] < nextRun'[j]
    <3>1. CASE j \in batch
      BY <1>1, <2>1, <3>1, FiresOne
    <3>2. CASE j \notin batch
      BY <1>2, <2>1, <3>2 DEF Inv, Ahead
    <3> QED BY <3>1, <3>2
  <2> QED BY <2>1 DEF Ahead
<1>8. TicksInOrder'
  <2>1. ASSUME NEW j \in Jobs, NEW m \in DOMAIN fired'[j], NEW n \in DOMAIN fired'[j], m < n
        PROVE  fired'[j][m] < fired'[j][n]
    <3>1. CASE j \in batch
      BY <1>1, <2>1, <3>1, FiresOne
    <3>2. CASE j \notin batch
      BY <1>2, <2>1, <3>2 DEF Inv, TicksInOrder
    <3> QED BY <3>1, <3>2
  <2> QED BY <2>1 DEF TicksInOrder
<1>9. OnTick' /\ NoTickSkipped'
  <2>1. ASSUME NEW j \in Backfill
        PROVE  /\ FirstRun[j] <= nextRun'[j]
               /\ nextRun'[j] = FirstRun[j] \/ nextRun'[j] % Period[j] = 0
               /\ {fired'[j][n] : n \in DOMAIN fired'[j]} = TicksBefore(j, nextRun'[j])
    <3>1. CASE j \in batch
      BY <1>1, <2>1, <3>1, FiresOne
    <3>2. CASE j \notin batch
      <4>1. j \in Jobs
        BY <2>1, SchedulerAssumption
      <4> QED BY <1>2, <2>1, <3>2, <4>1 DEF Inv, OnTick, NoTickSkipped
    <3> QED BY <3>1, <3>2
  <2> QED BY <2>1 DEF OnTick, NoTickSkipped
<1> QED BY <1>4, <1>5, <1>6, <1>7, <1>8, <1>9 DEF Inv

\* All other steps leave the cursors and what was fired alone.
LEMMA QuietKeepsInv ==
  ASSUME Inv, TypeOK', Exclusive', ClaimsHaveRuns', UNCHANGED <<nextRun, fired>>
  PROVE  Inv'
BY DEF Inv, Ahead, TicksInOrder, OnTick, NoTickSkipped

LEMMA InvInit == Init => Inv
<1> SUFFICES ASSUME Init PROVE Inv
  OBVIOUS
<1>1. TypeOK
  <2>1. /\ FirstRun \in [Jobs -> Nat \ {0}] /\ MaxDepth \in Nat /\ MaxTime \in Nat
        /\ MaxFaults \in Nat
    BY SchedulerAssumption
  <2>2. << >> \in Seq(Nat \ {0})
    OBVIOUS
  <2> QED BY <2>1, <2>2 DEF Init, TypeOK
<1>2. Exclusive /\ ClaimsHaveRuns /\ Ahead /\ TicksInOrder
  BY DEF Init, Exclusive, ClaimsHaveRuns, Ahead, TicksInOrder
<1>3. OnTick /\ NoTickSkipped
  <2>1. ASSUME NEW j \in Backfill
        PROVE  /\ FirstRun[j] <= nextRun[j] /\ nextRun[j] = FirstRun[j]
               /\ {fired[j][n] : n \in DOMAIN fired[j]} = TicksBefore(j, nextRun[j])
    <3>1. j \in Jobs /\ FirstRun[j] \in Nat /\ nextRun[j] = FirstRun[j] /\ fired[j] = << >>
      <4>1. j \in Jobs
        BY SchedulerAssumption
      <4> QED BY <4>1, JobConstants DEF Init
    <3>2. TicksBefore(j, FirstRun[j]) = {}
      BY <3>1 DEF TicksBefore
    <3> QED BY <3>1, <3>2
  <2> QED BY <2>1 DEF OnTick, NoTickSkipped
<1> QED BY <1>1, <1>2, <1>3 DEF Inv

LEMMA InvNext == Inv /\ [Next]_vars => Inv'
<1> SUFFICES ASSUME Inv, [Next]_vars PROVE Inv'
  OBVIOUS
<1>0. TypeOK /\ Exclusive /\ ClaimsHaveRuns /\ MaxDepth \in Nat /\ MaxFaults \in Nat
      /\ MaxTime \in Nat /\ Skew \in Nat
  BY SchedulerAssumption DEF Inv
<1>1. ASSUME NEW s \in Schedulers, Claim(s) PROVE Inv'
  <2> DEFINE free == {j \in Jobs : Due(j) /\ ~Locked(j)}
  <2>1. PICK batch \in SUBSET free : claimed' = [claimed EXCEPT ![s] = batch]
    BY <1>1 DEF Claim
  <2>2. \A r \in Schedulers : claimed'[r] = IF r = s THEN batch ELSE claimed[r]
    BY <1>0, <2>1 DEF TypeOK
  <2>3. \A j \in batch : j \in Jobs /\ nextRun[j] # Never /\ \A r \in Schedulers : j \notin claimed[r]
    BY DEF Due, Locked
  <2>4. UNCHANGED <<now, jobVars, backlog, unacked, running, leader, faults>>
    BY <1>1 DEF Claim
  <2>5. clock' \in [Schedulers -> Nat]
    <3>1. PICK t \in 0 .. (now + Skew) : clock' = [clock EXCEPT ![s] = t]
      BY <1>1 DEF Claim
    <3>2. now \in Nat /\ t \in Nat
      BY <1>0 DEF TypeOK
    <3> QED BY <1>0, <3>1, <3>2 DEF TypeOK
  <2>6. budget' \in [Schedulers -> 0 .. MaxDepth]
    <3>1. PICK b \in 0 .. MaxDepth : budget' = [budget EXCEPT ![s] = b]
      <4>1. unacked \in Nat /\ (IF unacked > MaxDepth THEN 0 ELSE MaxDepth - unacked) \in 0 .. MaxDepth
        BY <1>0 DEF TypeOK
      <4> QED BY <1>1, <4>1 DEF Claim
    <3> QED BY <1>0, <3>1 DEF TypeOK
  <2>7. claimed' \in [Schedulers -> SUBSET Jobs]
    BY <1>0, <2>1, <2>3 DEF TypeOK
  <2>8. TypeOK'
    BY <1>0, <2>4, <2>5, <2>6, <2>7 DEF TypeOK, jobVars
  <2>9. Exclusive' /\ ClaimsHaveRuns'
    BY <1>0, <2>2, <2>3, <2>4 DEF Exclusive, ClaimsHaveRuns, jobVars
  <2> QED BY <2>4, <2>8, <2>9, QuietKeepsInv DEF jobVars
<1>2. ASSUME NEW s \in Schedulers, Schedule(s) PROVE Inv'
  BY <1>2, ScheduleKeepsInv
<1>3. ASSUME NEW s \in Schedulers, Rollback(s) \/ Crash(s) PROVE Inv'
  <2>1. /\ UNCHANGED <<now, jobVars, backlog, unacked>> /\ Over(s) /\ Fault
        /\ running' \in SUBSET Schedulers /\ leader' \in {{}} \cup {{r} : r \in Schedulers}
    BY <1>0, <1>3 DEF Rollback, Crash, TypeOK
  <2>2. \A r \in Schedulers : claimed'[r] = IF r = s THEN {} ELSE claimed[r]
    BY <1>0, <2>1 DEF TypeOK, Over
  <2>3. TypeOK'
    BY <1>0, <2>1 DEF TypeOK, jobVars, Over, Fault
  <2>4. Exclusive' /\ ClaimsHaveRuns'
    BY <1>0, <2>1, <2>2 DEF Exclusive, ClaimsHaveRuns, jobVars
  <2> QED BY <2>1, <2>3, <2>4, QuietKeepsInv DEF jobVars
<1>4. ASSUME NEW s \in Schedulers, Start(s) \/ LoseLock(s) PROVE Inv'
  <2>1. UNCHANGED <<now, jobVars, backlog, unacked, pollVars>>
    BY <1>4 DEF Start, LoseLock
  <2>2. TypeOK'
    <3>1. leader' \in {{}} \cup {{r} : r \in Schedulers} /\ running' \subseteq Schedulers
      BY <1>0, <1>4 DEF TypeOK, Start, LoseLock
    <3>2. faults' \in 0 .. MaxFaults
      BY <1>0, <1>4 DEF TypeOK, Start, LoseLock, Fault
    <3> QED BY <1>0, <2>1, <3>1, <3>2 DEF TypeOK, jobVars, pollVars
  <2>3. Exclusive' /\ ClaimsHaveRuns'
    BY <1>0, <2>1 DEF Exclusive, ClaimsHaveRuns, jobVars, pollVars
  <2> QED BY <2>1, <2>2, <2>3, QuietKeepsInv DEF jobVars
<1>5. ASSUME NEW j \in Jobs, SetEnabled(j) PROVE Inv'
  <2>1. UNCHANGED <<nextRun, fired, pollVars>>
    BY <1>5 DEF SetEnabled
  <2>2. TypeOK'
    BY <1>0, <1>5 DEF TypeOK, SetEnabled, pollVars
  <2>3. Exclusive' /\ ClaimsHaveRuns'
    BY <1>0, <2>1 DEF Exclusive, ClaimsHaveRuns, pollVars
  <2> QED BY <2>1, <2>2, <2>3, QuietKeepsInv
<1>6. CASE Tick \/ Deliver \/ Finish \/ UNCHANGED vars
  <2>1. UNCHANGED <<jobVars, pollVars>>
    BY <1>6 DEF Tick, Deliver, Finish, vars
  <2>2. TypeOK'
    <3>1. now' \in 0 .. MaxTime
      BY <1>0, <1>6 DEF TypeOK, Tick, Deliver, Finish, vars
    <3>2. backlog' \in Nat /\ unacked' \in Nat
      BY <1>0, <1>6 DEF TypeOK, Tick, Deliver, Finish, vars
    <3>3. UNCHANGED <<running, leader, faults>>
      BY <1>6 DEF Tick, Deliver, Finish, vars
    <3> QED BY <1>0, <2>1, <3>1, <3>2, <3>3 DEF TypeOK, jobVars, pollVars
  <2>3. Exclusive' /\ ClaimsHaveRuns'
    BY <1>0, <2>1 DEF Exclusive, ClaimsHaveRuns, jobVars, pollVars
  <2> QED BY <2>1, <2>2, <2>3, QuietKeepsInv DEF jobVars
<1> QED BY <1>1, <1>2, <1>3, <1>4, <1>5, <1>6 DEF Next

LEMMA InvAlways == Spec => []Inv
BY InvInit, InvNext, PTL DEF Spec

-----------------------------------------------------------------------------
(* The theorems.                                                           *)

\* The state keeps its shape: no cursor, depth or budget leaves its range.
THEOREM TypeCorrect == Spec => []TypeOK
<1>1. Inv => TypeOK
  BY DEF Inv
<1> QED BY <1>1, InvAlways, PTL

\* Polls of any number of schedulers that overlap, crash or roll back fire
\* each job's ticks in order and each of them once.
THEOREM TicksStayInOrder == Spec => []TicksInOrder
<1>1. Inv => TicksInOrder
  BY DEF Inv
<1> QED BY <1>1, InvAlways, PTL

\* Whatever the cap, the budget and the clocks' skew: all ticks before a
\* backfilled job's cursor have an execution, and no other time has one.
THEOREM NoTickIsSkipped == Spec => []NoTickSkipped
<1>1. Inv => NoTickSkipped
  BY DEF Inv
<1> QED BY <1>1, InvAlways, PTL

\* Only a poll moves a cursor or adds to the queue.
LEMMA OnlyPolls ==
  ASSUME Inv, [Next]_vars, ~(UNCHANGED nextRun /\ ~(backlog' > backlog))
  PROVE  \E s \in Schedulers : Schedule(s)
<1>1. SUFFICES ASSUME ~ \E s \in Schedulers : Schedule(s)
               PROVE  UNCHANGED nextRun /\ ~(backlog' > backlog)
  OBVIOUS
<1>2. backlog \in Nat
  BY DEF Inv, TypeOK
<1>3. UNCHANGED nextRun
  BY <1>1 DEF Next, vars, jobVars, Claim, Rollback, Start, LoseLock, Crash, SetEnabled, Tick,
     Deliver, Finish
<1>4. backlog' = backlog \/ backlog' = backlog - 1
  BY <1>1 DEF Next, vars, Claim, Rollback, Start, LoseLock, Crash, SetEnabled, Tick, Deliver,
     Finish
<1> QED BY <1>2, <1>3, <1>4

\* A poll leaves a skip-ahead job's cursor on the first tick after its time.
THEOREM CursorsDoNotDrift == Spec => NoDrift
<1> DEFINE Step(j) ==
      nextRun'[j] # nextRun[j] =>
        \E s \in Schedulers :
          /\ j \in claimed[s]
          /\ nextRun'[j] % Period[j] = 0
          /\ nextRun'[j] > clock[s] /\ nextRun'[j] > nextRun[j]
          /\ \A u \in (nextRun[j] + 1) .. (nextRun'[j] - 1) : u % Period[j] = 0 => u <= clock[s]
<1>1. ASSUME Inv, [Next]_vars, NEW j \in Jobs \ (Once \cup Backfill) PROVE Step(j)
  <2>1. SUFFICES ASSUME nextRun'[j] # nextRun[j]
                 PROVE  \E s \in Schedulers :
                          /\ j \in claimed[s]
                          /\ nextRun'[j] % Period[j] = 0
                          /\ nextRun'[j] > clock[s] /\ nextRun'[j] > nextRun[j]
                          /\ \A u \in (nextRun[j] + 1) .. (nextRun'[j] - 1) :
                               u % Period[j] = 0 => u <= clock[s]
    OBVIOUS
  <2>2. PICK s \in Schedulers : Schedule(s)
    BY <1>1, <2>1, OnlyPolls
  <2>3. PICK batch \in SUBSET claimed[s] : Fires(s, batch)
    BY <1>1, <2>2, ScheduleEffect
  <2>4. j \in batch /\ nextRun'[j] = NextRun(j, clock[s])
    BY <1>1, <2>1, <2>3 DEF Fires
  <2>5. nextRun[j] \in Nat \ {0} /\ clock[s] \in Nat
    BY <1>1, <2>4 DEF Inv, TypeOK, ClaimsHaveRuns, Never
  <2>a. PICK t \in Nat, from \in Nat : t = clock[s] /\ from = nextRun[j]
    BY <2>5
  <2>6. PICK next : t = clock[s] /\ from = nextRun[j] /\ next = nextRun'[j]
    BY <2>a
  <2>7. next = IF NextTick(j, from) > t THEN NextTick(j, from) ELSE NextTick(j, t)
    BY <1>1, <2>4, <2>5, <2>6, NextRunShape
  <2>8. ASSUME NEW x \in Nat
        PROVE  /\ NextTick(j, x) \in Nat /\ NextTick(j, x) > x
               /\ NextTick(j, x) % Period[j] = 0
               /\ \A u \in (x + 1) .. (NextTick(j, x) - 1) : u % Period[j] # 0
    BY <1>1, NextTickIsNext
  <2>9. next \in Nat /\ next > t /\ next > from /\ next % Period[j] = 0
    BY <2>7, <2>8
  <2>10. ASSUME NEW u \in (from + 1) .. (next - 1), u % Period[j] = 0 PROVE u <= t
    <3>1. CASE NextTick(j, from) > t
      BY <2>7, <2>8, <2>10, <3>1
    <3>2. CASE ~(NextTick(j, from) > t)
      <4>1. next = NextTick(j, t) /\ u \in Int /\ u <= next - 1
        BY <2>7, <2>9, <3>2
      <4>2. u \notin (t + 1) .. (next - 1)
        BY <2>8, <2>10, <4>1
      <4> QED BY <2>9, <4>1, <4>2
    <3> QED BY <3>1, <3>2
  <2> QED BY <2>4, <2>6, <2>9, <2>10
<1>2. Inv /\ [Next]_vars => [\A j \in Jobs \ (Once \cup Backfill) : Step(j)]_vars
  BY <1>1
<1>3. Spec => [][\A j \in Jobs \ (Once \cup Backfill) : Step(j)]_vars
  BY <1>2, InvAlways, PTL DEF Spec
<1> QED BY <1>3 DEF NoDrift

\* A poll adds no more executions than the room it found in the queue.
THEOREM PollsStayWithinBudget == Spec => WithinBudget
<1> DEFINE Step ==
      backlog' > backlog =>
        \E s \in Schedulers : claimed[s] # {} /\ backlog' - backlog <= budget[s]
<1>1. Inv /\ [Next]_vars => Step
  <2>1. SUFFICES ASSUME Inv, [Next]_vars, backlog' > backlog
                 PROVE  \E s \in Schedulers : claimed[s] # {} /\ backlog' - backlog <= budget[s]
    OBVIOUS
  <2>2. PICK s \in Schedulers : Schedule(s)
    BY <2>1, OnlyPolls
  <2>3. \E batch \in SUBSET claimed[s] : Fires(s, batch)
    BY <2>1, <2>2, ScheduleEffect
  <2> QED BY <2>2, <2>3 DEF Schedule, Fires
<1>2. Spec => [][Step]_vars
  BY <1>1, InvAlways, PTL DEF Spec
<1> QED BY <1>2 DEF WithinBudget
=============================================================================
