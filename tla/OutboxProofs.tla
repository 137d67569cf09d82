---------------------------- MODULE OutboxProofs ----------------------------
(***************************************************************************)
(* Theorems about Outbox, for any set of executions and relays, any number *)
(* of attempts and any number of faults.                                   *)
(***************************************************************************)
EXTENDS Outbox, TLAPS

(* The inductive invariant, in named parts. *)

\* An execution is "none" until a poll commits it, with its outbox row; a
\* waiting one is past its first attempt; no row is ahead of its execution,
\* and only a row can be marked.
Started ==
  \A e \in Execs :
    /\ status[e] = "none" <=> attempt[e] = 0
    /\ status[e] = "none" <=> rowAttempt[e] = 0
    /\ status[e] = "retry_wait" => attempt[e] > 1
    /\ rowAttempt[e] <= attempt[e]
    /\ e \in published => rowAttempt[e] > 0

\* Whatever is in hand, in a row or in the stream was committed, and what
\* was committed is no attempt still to come.
Committed ==
  /\ \A p \in Producers : todo[p] \cup marking[p] \subseteq due
  /\ \A e \in Execs : rowAttempt[e] > 0 => <<e, rowAttempt[e]>> \in due
  /\ \A m \in Messages : pushed[m] > 0 => m \in due
  /\ \A m \in due : m[2] <= attempt[m[1]]

\* The scheduler publishes first attempts, the retry sweep later ones.
ByProducer ==
  /\ \A m \in todo["scheduler"] : m[2] = 1
  /\ \A m \in todo["retry"] : m[2] > 1

\* A second attempt, and the first attempt's key, come after the first push.
FirstComesFirst ==
  \A e \in Execs : attempt[e] > 1 \/ <<e, 0>> \in keys => pushed[<<e, 1>>] > 0

\* A relay holds unpublished rows, and no two relays hold the same row.
RelayHolds ==
  \A r \in Relays :
    /\ untried[r] \cup ok[r] \subseteq claimed[r]
    /\ \A e \in claimed[r] : rowAttempt[e] > 0 /\ e \notin published
    /\ \A s \in Relays : r # s => claimed[r] \cap claimed[s] = {}

\* Who may mark a first attempt's row comes after its push.
MarkAfterPush ==
  /\ \A p \in Producers : \A m \in marking[p] : pushed[<<m[1], 1>>] > 0
  /\ \A r \in Relays : \A e \in ok[r] : pushed[<<e, 1>>] > 0

\* A first attempt has one entry at most, and while anyone may still push
\* it again its key is there to stop them.
FirstOnce ==
  \A e \in Execs :
    /\ pushed[<<e, 1>>] <= 1
    /\ /\ pushed[<<e, 1>>] > 0
       /\ \/ <<e, 1>> \in todo["scheduler"]
          \/ rowAttempt[e] = 1 /\ e \notin published
       => <<e, 0>> \in keys

Inv ==
  /\ TypeOK
  /\ Started
  /\ Committed
  /\ ByProducer
  /\ FirstComesFirst
  /\ RelayHolds
  /\ MarkAfterPush
  /\ FirstOnce
  /\ MarkedFirstIsPushed


(* Messages and keys are pairs. *)
LEMMA Pairs ==
  /\ \A e \in Execs : <<e, 1>> \in Messages /\ <<e, 0>> \in Keys
  /\ \A m \in Messages : m = <<m[1], m[2]>> /\ m[1] \in Execs /\ m[2] \in Attempts
  /\ \A m \in Messages : m \in Keys /\ m[2] >= 1
  /\ \A p \in Producers, m \in Messages : KeyOf(p, m) \in Keys
BY OutboxAssumption DEF Messages, Keys, Attempts, KeyOf

(* A push the invariant allows: of a committed message, under its own key or *)
(* the execution's; a later attempt only after the first one's push; and a    *)
(* first attempt only under the execution's key, by someone FirstOnce counts. *)
MayPush(key, m) ==
  /\ m \in due
  /\ key = m \/ key = <<m[1], 0>>
  /\ m[2] > 1 => pushed[<<m[1], 1>>] > 0
  /\ m[2] = 1 => /\ key = <<m[1], 0>>
                 /\ \/ m \in todo["scheduler"]
                    \/ rowAttempt[m[1]] = 1 /\ m[1] \notin published

LEMMA PushEffect ==
  ASSUME Inv, NEW key \in Keys, NEW m \in Messages, MayPush(key, m),
         RunScript(key, m) \/ UNCHANGED redisVars
  PROVE  /\ keys' \subseteq Keys
         /\ pushed' \in [Messages -> Nat]
         /\ \A n \in Messages : pushed'[n] > 0 => n \in due
         /\ RunScript(key, m) => pushed'[<<m[1], 1>>] > 0
         /\ \A e \in Execs :
              /\ pushed'[<<e, 1>>] >= pushed[<<e, 1>>]
              /\ pushed'[<<e, 1>>] <= 1
              /\ \/ pushed'[<<e, 1>>] = pushed[<<e, 1>>]
                 \/ <<e, 0>> \in keys'
              /\ <<e, 0>> \in keys => <<e, 0>> \in keys'
              /\ <<e, 0>> \in keys' => pushed'[<<e, 1>>] > 0
<1> DEFINE x == m[1]
<1>1. m = <<x, m[2]>> /\ x \in Execs /\ m[2] \in Nat /\ m[2] >= 1 /\ <<x, 1>> \in Messages
  <2>1. m = <<x, m[2]>> /\ x \in Execs /\ m[2] \in Attempts
    BY Pairs
  <2>2. m[2] \in Nat /\ m[2] >= 1
    BY <2>1, OutboxAssumption DEF Attempts
  <2> QED BY <2>1, <2>2, Pairs
<1>2. pushed \in [Messages -> Nat] /\ keys \subseteq Keys
  BY DEF Inv, TypeOK
<1>3. \A e \in Execs : /\ <<e, 1>> \in Messages /\ pushed[<<e, 1>>] \in Nat
                       /\ pushed[<<e, 1>>] <= 1
                       /\ <<e, 0>> \in keys => pushed[<<e, 1>>] > 0
  BY <1>2, Pairs DEF Inv, FirstOnce, FirstComesFirst
<1>4. CASE UNCHANGED redisVars /\ ~RunScript(key, m)
  BY <1>2, <1>3, <1>4 DEF redisVars, Inv, Committed
<1>5. CASE RunScript(key, m) /\ key \in keys
  <2>1. UNCHANGED <<keys, pushed>>
    BY <1>5 DEF RunScript, redisVars
  <2>2. pushed[<<x, 1>>] > 0
    BY <1>1, <1>3, <1>5 DEF MayPush
  <2> QED BY <1>2, <1>3, <2>1, <2>2 DEF Inv, Committed
<1>6. CASE RunScript(key, m) /\ key \notin keys
  <2>1. keys' = keys \cup {key} /\ pushed' = [pushed EXCEPT ![m] = @ + 1]
    BY <1>6 DEF RunScript
  <2>2. /\ keys' \subseteq Keys /\ pushed' \in [Messages -> Nat]
        /\ pushed'[m] = pushed[m] + 1
        /\ \A n \in Messages \ {m} : pushed'[n] = pushed[n]
    BY <1>2, <2>1
  <2>3. \A n \in Messages : pushed'[n] > 0 => n \in due
    BY <2>2 DEF Inv, Committed, MayPush
  <2>4. CASE m[2] = 1
    <3>1. m = <<x, 1>> /\ key = <<x, 0>> /\ pushed[m] \in Nat
      BY <1>1, <1>2, <2>4 DEF MayPush
    <3>2. ~(pushed[m] > 0)
      BY <1>1, <1>6, <2>4, <3>1 DEF MayPush, Inv, FirstOnce
    <3>3. pushed'[<<x, 1>>] = 1 /\ <<x, 0>> \in keys'
      BY <2>1, <2>2, <3>1, <3>2
    <3>4. \A e \in Execs : e # x => <<e, 1>> # m /\ <<e, 0>> # key
      BY <3>1
    <3>5. \A e \in Execs : e # x => /\ pushed'[<<e, 1>>] = pushed[<<e, 1>>]
                                    /\ <<e, 0>> \in keys' <=> <<e, 0>> \in keys
      BY <1>3, <2>1, <2>2, <3>4
    <3>6. pushed[<<x, 1>>] <= 1 /\ pushed[<<x, 1>>] \in Nat
      BY <1>1, <1>3
    <3> QED BY <1>3, <2>1, <2>2, <2>3, <3>3, <3>5, <3>6
  <2>5. CASE m[2] > 1
    <3>1. \A e \in Execs : <<e, 1>> # m
      BY <1>1, <2>5
    <3>2. \A e \in Execs : pushed'[<<e, 1>>] = pushed[<<e, 1>>]
      BY <1>3, <2>2, <3>1
    <3>3. pushed[<<x, 1>>] > 0
      BY <2>5 DEF MayPush
    <3>4. \A e \in Execs : <<e, 0>> = key => e = x
      BY <1>1, <2>5 DEF MayPush
    <3> QED BY <1>1, <1>3, <2>1, <2>2, <2>3, <3>2, <3>3, <3>4
  <2> QED BY <1>1, <2>4, <2>5
<1> QED
  BY <1>4, <1>5, <1>6

(* Whatever a producer publishes, it may push. *)
LEMMA FastPushAllowed ==
  ASSUME Inv, NEW p \in Producers, NEW m \in Messages, m \in todo[p]
  PROVE  MayPush(KeyOf(p, m), m)
<1>1. m[1] \in Execs /\ m = <<m[1], m[2]>> /\ m[2] \in Nat
  BY Pairs, OutboxAssumption DEF Attempts
<1>2. CASE p = "scheduler"
  BY <1>1, <1>2 DEF KeyOf, MayPush, Inv, ByProducer, Committed
<1>3. CASE p = "retry"
  <2>1. m[2] > 1 /\ KeyOf(p, m) = m /\ m \in due
    BY <1>3 DEF KeyOf, Inv, ByProducer, Committed
  <2>2. attempt[m[1]] > 1
    BY <1>1, <2>1 DEF Inv, Committed, TypeOK
  <2>3. pushed[<<m[1], 1>>] > 0
    BY <1>1, <2>2 DEF Inv, FirstComesFirst
  <2> QED BY <2>1, <2>3 DEF MayPush
<1> QED
  BY <1>2, <1>3 DEF Producers

(* Whatever a relay publishes, it may push. *)
LEMMA RelayPushAllowed ==
  ASSUME Inv, NEW r \in Relays, NEW e \in untried[r]
  PROVE  /\ e \in Execs
         /\ <<e, rowAttempt[e]>> \in Messages
         /\ MayPush(<<e, 0>>, <<e, rowAttempt[e]>>)
<1> DEFINE m == <<e, rowAttempt[e]>>
<1>1. e \in Execs /\ e \in claimed[r] /\ rowAttempt[e] > 0 /\ e \notin published
  BY DEF Inv, RelayHolds, TypeOK
<1>2. m \in Messages /\ m \in due /\ m[1] = e /\ m[2] = rowAttempt[e]
  BY <1>1, Pairs DEF Inv, TypeOK, Committed
<1>3. m[2] > 1 => attempt[e] > 1
  BY <1>1, <1>2 DEF Inv, Started, TypeOK
<1>4. m[2] > 1 => pushed[<<e, 1>>] > 0
  BY <1>1, <1>3 DEF Inv, FirstComesFirst
<1> QED
  BY <1>1, <1>2, <1>4 DEF MayPush

LEMMA FastPublishStep ==
  ASSUME Inv, NEW p \in Producers, NEW m \in Messages,
         FastPublish(p, m) \/ FastPublishFails(p, m)
  PROVE  Inv'
<1> DEFINE key == KeyOf(p, m)
<1>a. m \in todo[p] /\ todo' = [todo EXCEPT ![p] = @ \ {m}]
  BY DEF FastPublish, FastPublishFails
<1>b. UNCHANGED pgVars /\ UNCHANGED relayVars
  BY DEF FastPublish, FastPublishFails
<1>c. RunScript(key, m) \/ UNCHANGED redisVars
  BY DEF FastPublish, FastPublishFails
<1>d. \/ marking' = [marking EXCEPT ![p] = {m}] /\ RunScript(key, m)
      \/ UNCHANGED marking
  BY DEF FastPublish, FastPublishFails
<1>e. faults' \in 0 .. MaxFaults
  BY OutboxAssumption DEF Inv, TypeOK, FastPublish, FastPublishFails, Fault
<1>f. key \in Keys /\ m[1] \in Execs /\ m = <<m[1], m[2]>> /\ m[2] \in Nat
  BY Pairs, OutboxAssumption DEF Attempts
<1>g. MayPush(key, m)
  BY <1>a, FastPushAllowed
<1>h. /\ keys' \subseteq Keys
      /\ pushed' \in [Messages -> Nat]
      /\ \A n \in Messages : pushed'[n] > 0 => n \in due
      /\ RunScript(key, m) => pushed'[<<m[1], 1>>] > 0
      /\ \A e \in Execs :
           /\ pushed'[<<e, 1>>] >= pushed[<<e, 1>>]
           /\ pushed'[<<e, 1>>] <= 1
           /\ \/ pushed'[<<e, 1>>] = pushed[<<e, 1>>]
              \/ <<e, 0>> \in keys'
           /\ <<e, 0>> \in keys => <<e, 0>> \in keys'
           /\ <<e, 0>> \in keys' => pushed'[<<e, 1>>] > 0
  BY <1>c, <1>f, <1>g, PushEffect
<1>i. \A e \in Execs : pushed[<<e, 1>>] \in Nat /\ pushed'[<<e, 1>>] \in Nat
  BY <1>h, Pairs DEF Inv, TypeOK
<1>1. TypeOK'
  <2>1. /\ todo' \in [Producers -> SUBSET Messages]
        /\ marking' \in [Producers -> SUBSET Messages]
    BY <1>a, <1>d DEF Inv, TypeOK
  <2> QED BY <1>b, <1>e, <1>h, <2>1 DEF Inv, TypeOK, pgVars, relayVars
<1>2. Started' /\ RelayHolds'
  BY <1>b DEF Inv, Started, RelayHolds, pgVars, relayVars
<1>3. Committed' /\ ByProducer'
  BY <1>a, <1>b, <1>d, <1>h DEF Inv, TypeOK, Committed, ByProducer, pgVars, Producers
<1>4. FirstComesFirst'
  BY <1>b, <1>h, <1>i DEF Inv, FirstComesFirst, pgVars
<1>5. MarkAfterPush'
  <2>1. \A q \in Producers : \A n \in marking[q] : n[1] \in Execs
    BY Pairs DEF Inv, TypeOK
  <2>2. \A r \in Relays : ok[r] \subseteq Execs
    BY DEF Inv, TypeOK
  <2>3. ASSUME NEW q \in Producers, NEW n \in marking'[q] PROVE pushed'[<<n[1], 1>>] > 0
    <3>1. CASE n \in marking[q]
      BY <3>1, <2>1, <1>h, <1>i DEF Inv, MarkAfterPush
    <3>2. CASE n \notin marking[q]
      BY <3>2, <2>3, <1>d, <1>h DEF Inv, TypeOK
    <3> QED BY <3>1, <3>2
  <2> QED BY <1>b, <1>h, <1>i, <2>2, <2>3 DEF Inv, MarkAfterPush, relayVars
<1>6. FirstOnce'
  <2>1. todo'["scheduler"] \subseteq todo["scheduler"]
    BY <1>a DEF Inv, TypeOK, Producers
  <2> QED BY <2>1, <1>b, <1>h, <1>i DEF Inv, FirstOnce, pgVars
<1>7. MarkedFirstIsPushed'
  BY <1>b, <1>h, <1>i DEF Inv, TypeOK, MarkedFirstIsPushed, pgVars
<1> QED
  BY <1>1, <1>2, <1>3, <1>4, <1>5, <1>6, <1>7 DEF Inv

LEMMA RelayPublishStep ==
  ASSUME Inv, NEW r \in Relays, NEW x \in Execs,
         RelayPublish(r, x) \/ RelayPublishFails(r, x)
  PROVE  Inv'
<1> DEFINE key == <<x, 0>>
           m == <<x, rowAttempt[x]>>
<1>a. x \in untried[r] /\ untried' = [untried EXCEPT ![r] = @ \ {x}]
  BY DEF RelayPublish, RelayPublishFails
<1>b. UNCHANGED <<pgVars, prodVars, claimed>>
  BY DEF RelayPublish, RelayPublishFails
<1>c. RunScript(key, m) \/ UNCHANGED redisVars
  BY DEF RelayPublish, RelayPublishFails
<1>d. \/ ok' = [ok EXCEPT ![r] = @ \cup {x}] /\ RunScript(key, m)
      \/ UNCHANGED ok
  BY DEF RelayPublish, RelayPublishFails
<1>e. faults' \in 0 .. MaxFaults
  BY OutboxAssumption DEF Inv, TypeOK, RelayPublish, RelayPublishFails, Fault
<1>f. x \in claimed[r] /\ rowAttempt[x] > 0 /\ x \notin published
  BY <1>a DEF Inv, RelayHolds
<1>g. key \in Keys /\ m \in Messages /\ MayPush(key, m)
  BY <1>a, Pairs, RelayPushAllowed
<1>i. /\ keys' \subseteq Keys
      /\ pushed' \in [Messages -> Nat]
      /\ \A n \in Messages : pushed'[n] > 0 => n \in due
      /\ RunScript(key, m) => pushed'[<<x, 1>>] > 0
      /\ \A e \in Execs :
           /\ pushed'[<<e, 1>>] >= pushed[<<e, 1>>]
           /\ pushed'[<<e, 1>>] <= 1
           /\ \/ pushed'[<<e, 1>>] = pushed[<<e, 1>>]
              \/ <<e, 0>> \in keys'
           /\ <<e, 0>> \in keys => <<e, 0>> \in keys'
           /\ <<e, 0>> \in keys' => pushed'[<<e, 1>>] > 0
  BY <1>c, <1>g, PushEffect
<1>j. \A e \in Execs : pushed[<<e, 1>>] \in Nat /\ pushed'[<<e, 1>>] \in Nat
  BY <1>i, Pairs DEF Inv, TypeOK
<1>1. TypeOK'
  <2>1. /\ untried' \in [Relays -> SUBSET Execs]
        /\ ok' \in [Relays -> SUBSET Execs]
    BY <1>a, <1>d DEF Inv, TypeOK
  <2> QED BY <1>b, <1>e, <1>i, <2>1 DEF Inv, TypeOK, pgVars, prodVars
<1>2. Started' /\ Committed' /\ ByProducer'
  BY <1>b, <1>i DEF Inv, Started, Committed, ByProducer, pgVars, prodVars
<1>3. FirstComesFirst'
  BY <1>b, <1>i, <1>j DEF Inv, FirstComesFirst, pgVars
<1>4. RelayHolds'
  BY <1>a, <1>b, <1>d, <1>f DEF Inv, TypeOK, RelayHolds, pgVars
<1>5. MarkAfterPush'
  <2>1. \A q \in Producers : \A n \in marking[q] : n[1] \in Execs
    BY Pairs DEF Inv, TypeOK
  <2>2. ASSUME NEW s \in Relays, NEW e \in ok'[s] PROVE pushed'[<<e, 1>>] > 0
    <3>1. CASE e \in ok[s]
      BY <3>1, <1>i, <1>j DEF Inv, TypeOK, MarkAfterPush
    <3>2. CASE e \notin ok[s]
      BY <3>2, <2>2, <1>d, <1>i DEF Inv, TypeOK
    <3> QED BY <3>1, <3>2
  <2> QED BY <1>b, <1>i, <1>j, <2>1, <2>2 DEF Inv, MarkAfterPush, prodVars
<1>6. FirstOnce'
  BY <1>b, <1>i, <1>j DEF Inv, FirstOnce, pgVars, prodVars
<1>7. MarkedFirstIsPushed'
  BY <1>b, <1>i, <1>j DEF Inv, TypeOK, MarkedFirstIsPushed, pgVars
<1> QED
  BY <1>1, <1>2, <1>3, <1>4, <1>5, <1>6, <1>7 DEF Inv

LEMMA ScheduleCommitStep ==
  ASSUME Inv, NEW S \in SUBSET Execs, ScheduleCommit(S)
  PROVE  Inv'
<1> USE DEF Inv, ScheduleCommit, pgVars, redisVars, prodVars, relayVars
<1>a. 1 \in Attempts /\ \A e \in S : <<e, 1>> \in Messages
  BY OutboxAssumption, Pairs DEF Attempts
<1>b. \A e \in S : attempt[e] = 0 /\ rowAttempt[e] = 0
  BY DEF Started
<1>c. \A m \in due : m[1] \notin S
  <2>1. \A m \in due : m[1] \in Execs /\ m[2] >= 1 /\ m[2] <= attempt[m[1]]
    BY Pairs DEF TypeOK, Committed
  <2> QED BY <1>b, <2>1, Pairs, OutboxAssumption DEF TypeOK, Attempts
<1>1. TypeOK'
  <2>1. S \X {1} \subseteq Messages
    BY <1>a DEF Messages
  <2> QED BY <2>1, OutboxAssumption DEF TypeOK, Producers
<1>2. Started' /\ ByProducer'
  BY OutboxAssumption DEF TypeOK, Started, ByProducer, Idle, Producers
<1>3. Committed'
  <2>1. \A m \in due : m[1] \in Execs /\ m[1] \notin S
    BY <1>c, Pairs DEF TypeOK
  <2>2. \A m \in due' : m[2] <= attempt'[m[1]]
    BY <2>1 DEF Committed
  <2>3. \A e \in Execs : rowAttempt'[e] > 0 => <<e, rowAttempt'[e]>> \in due'
    BY DEF Committed
  <2>4. \A p \in Producers : todo'[p] \cup marking'[p] \subseteq due'
    BY DEF TypeOK, Committed, Producers
  <2> QED BY <2>2, <2>3, <2>4 DEF Committed
<1>4. FirstComesFirst'
  BY DEF FirstComesFirst
<1>5. RelayHolds'
  BY <1>b DEF TypeOK, RelayHolds
<1>6. MarkAfterPush'
  BY DEF MarkAfterPush
<1>7. FirstOnce'
  <2>1. \A e \in Execs : pushed[<<e, 1>>] > 0 => e \notin S
    BY <1>c, Pairs DEF Committed
  <2> QED BY <2>1 DEF TypeOK, FirstOnce, Idle, Producers
<1>8. MarkedFirstIsPushed'
  BY <1>b DEF TypeOK, Started, MarkedFirstIsPushed
<1> QED
  BY <1>1, <1>2, <1>3, <1>4, <1>5, <1>6, <1>7, <1>8

LEMMA RetryCommitStep ==
  ASSUME Inv, NEW S \in SUBSET Execs, RetryCommit(S)
  PROVE  Inv'
<1> USE DEF Inv, RetryCommit, pgVars, redisVars, prodVars, relayVars
<1> DEFINE batch == {<<e, attempt[e]>> : e \in S}
<1>a. \A e \in S : /\ attempt[e] \in Nat /\ attempt[e] > 1 /\ attempt[e] # 1
                   /\ attempt[e] \in Attempts
                   /\ pushed[<<e, 1>>] > 0
  <2>1. \A e \in S : e \in Execs /\ attempt[e] > 1 /\ attempt[e] \in 0 .. MaxAttempt
    BY DEF TypeOK, Started
  <2>2. \A e \in S : attempt[e] \in Attempts /\ attempt[e] \in Nat /\ attempt[e] # 1
    BY <2>1, OutboxAssumption DEF Attempts
  <2> QED BY <2>1, <2>2 DEF FirstComesFirst
<1>b. batch \subseteq Messages /\ \A m \in batch : m[2] > 1
  <2>1. ASSUME NEW e \in S PROVE <<e, attempt[e]>> \in Messages /\ <<e, attempt[e]>>[2] > 1
    BY <1>a DEF Messages
  <2> HIDE DEF Inv, RetryCommit
  <2> QED BY <2>1
<1>1. TypeOK'
  BY <1>b, OutboxAssumption DEF TypeOK, Producers
<1>2. Started'
  BY <1>a, OutboxAssumption DEF TypeOK, Started
<1>3. ByProducer'
  <2>1. todo'["retry"] = batch /\ todo'["scheduler"] = todo["scheduler"]
    BY DEF TypeOK, Producers
  <2> QED BY <1>b, <2>1 DEF ByProducer
<1>4. Committed'
  <2>1. \A m \in due' : m[2] <= attempt'[m[1]]
    BY OutboxAssumption DEF Committed, TypeOK
  <2>2. \A e \in Execs : rowAttempt'[e] > 0 => <<e, rowAttempt'[e]>> \in due'
    BY DEF Committed, TypeOK
  <2>3. \A p \in Producers : todo'[p] \cup marking'[p] \subseteq due'
    BY DEF TypeOK, Committed, Producers
  <2> QED BY <2>1, <2>2, <2>3 DEF Committed
<1>5. FirstComesFirst'
  BY DEF FirstComesFirst
<1>6. RelayHolds'
  BY <1>a, OutboxAssumption DEF TypeOK, RelayHolds, Locked
<1>7. MarkAfterPush'
  BY DEF MarkAfterPush
<1>8. FirstOnce'
  <2>1. todo'["scheduler"] = todo["scheduler"]
    BY DEF TypeOK, Producers
  <2>2. ASSUME NEW e \in Execs, rowAttempt'[e] = 1, e \notin published'
        PROVE  rowAttempt[e] = 1 /\ e \notin published
    <3>1. rowAttempt'[e] = IF e \in S THEN attempt[e] ELSE rowAttempt[e]
      OBVIOUS
    <3>2. e \notin S
      <4> SUFFICES ASSUME e \in S PROVE FALSE
        OBVIOUS
      <4> HIDE DEF Inv, RetryCommit
      <4>1. attempt[e] = 1
        BY <2>2, <3>1
      <4> QED BY <1>a, <4>1
    <3> QED BY <2>2, <3>1, <3>2
  <2> QED BY <2>1, <2>2 DEF FirstOnce
<1>9. MarkedFirstIsPushed'
  BY DEF TypeOK, MarkedFirstIsPushed
<1> QED
  BY <1>1, <1>2, <1>3, <1>4, <1>5, <1>6, <1>7, <1>8, <1>9

LEMMA FastMarkStep ==
  ASSUME Inv, NEW p \in Producers, NEW m \in Messages, FastMark(p, m)
  PROVE  Inv'
<1> USE DEF Inv, FastMark, redisVars, relayVars
<1>a. m[1] \in Execs /\ rowAttempt[m[1]] > 0 /\ pushed[<<m[1], 1>>] > 0
  <2>1. m[1] \in Execs /\ m[2] > 0 /\ m[2] <= attempt[m[1]] /\ m[2] \in Nat
    BY Pairs, OutboxAssumption DEF Committed, Attempts
  <2> QED BY <2>1, OutboxAssumption DEF TypeOK, Started, MarkAfterPush
<1>1. TypeOK'
  BY <1>a DEF TypeOK
<1>2. Started'
  BY <1>a DEF TypeOK, Started
<1>3. Committed' /\ ByProducer'
  BY DEF TypeOK, Committed, ByProducer
<1>4. FirstComesFirst'
  BY DEF FirstComesFirst
<1>5. RelayHolds'
  BY DEF RelayHolds, Locked
<1>6. MarkAfterPush'
  BY DEF TypeOK, MarkAfterPush
<1>7. FirstOnce'
  BY DEF FirstOnce
<1>8. MarkedFirstIsPushed'
  BY <1>a DEF MarkedFirstIsPushed
<1> QED
  BY <1>1, <1>2, <1>3, <1>4, <1>5, <1>6, <1>7, <1>8

(* A mark that fails, and a producer's crash, only forget what was in hand. *)
LEMMA ForgetStep ==
  ASSUME Inv, NEW p \in Producers, FastMarkFails(p) \/ ProducerCrash(p)
  PROVE  Inv'
<1> USE DEF Inv, FastMarkFails, ProducerCrash, pgVars, redisVars, relayVars
<1>1. TypeOK'
  BY OutboxAssumption DEF TypeOK, Fault
<1>2. Started' /\ FirstComesFirst' /\ RelayHolds' /\ MarkedFirstIsPushed'
  BY DEF Started, FirstComesFirst, RelayHolds, MarkedFirstIsPushed
<1>3. Committed' /\ ByProducer' /\ MarkAfterPush' /\ FirstOnce'
  BY DEF TypeOK, Committed, ByProducer, MarkAfterPush, FirstOnce, Producers
<1> QED
  BY <1>1, <1>2, <1>3

LEMMA RelayClaimStep ==
  ASSUME Inv, NEW r \in Relays, RelayClaim(r)
  PROVE  Inv'
<1> USE DEF Inv, pgVars, redisVars, prodVars
<1>a. UNCHANGED <<pgVars, redisVars, prodVars, ok, faults>>
  BY DEF RelayClaim
<1>b. PICK S \in SUBSET {e \in Unpublished : ~Locked(e)} :
        /\ claimed' = [claimed EXCEPT ![r] = S]
        /\ untried' = [untried EXCEPT ![r] = S]
  BY DEF RelayClaim
<1>c. claimed[r] = {} /\ ok[r] = {}
  BY DEF RelayClaim, RelayHolds
<1>1. TypeOK'
  BY <1>a, <1>b DEF TypeOK, Unpublished
<1>2. RelayHolds'
  BY <1>a, <1>b, <1>c DEF TypeOK, RelayHolds, Unpublished, Locked
<1>3. Started' /\ Committed' /\ ByProducer' /\ FirstComesFirst'
  BY <1>a DEF Started, Committed, ByProducer, FirstComesFirst
<1>4. MarkAfterPush' /\ FirstOnce' /\ MarkedFirstIsPushed'
  BY <1>a DEF MarkAfterPush, FirstOnce, MarkedFirstIsPushed
<1> QED
  BY <1>1, <1>2, <1>3, <1>4

LEMMA RelayCommitStep ==
  ASSUME Inv, NEW r \in Relays, RelayCommit(r)
  PROVE  Inv'
<1> USE DEF Inv, RelayCommit, redisVars, prodVars
<1>a. \A e \in ok[r] : e \in Execs /\ rowAttempt[e] > 0 /\ pushed[<<e, 1>>] > 0
  BY DEF TypeOK, RelayHolds, MarkAfterPush
<1>1. TypeOK'
  BY DEF TypeOK
<1>2. RelayHolds'
  BY DEF TypeOK, RelayHolds
<1>3. Started' /\ MarkedFirstIsPushed'
  BY <1>a DEF Started, MarkedFirstIsPushed
<1>4. Committed' /\ ByProducer' /\ FirstComesFirst'
  BY DEF Committed, ByProducer, FirstComesFirst
<1>5. MarkAfterPush' /\ FirstOnce'
  BY DEF TypeOK, MarkAfterPush, FirstOnce
<1> QED
  BY <1>1, <1>2, <1>3, <1>4, <1>5

LEMMA RelayAbortStep ==
  ASSUME Inv, NEW r \in Relays, RelayAbort(r)
  PROVE  Inv'
<1> USE DEF Inv, RelayAbort, pgVars, redisVars, prodVars
<1>1. TypeOK'
  BY OutboxAssumption DEF TypeOK, Fault
<1>2. RelayHolds' /\ MarkAfterPush'
  BY DEF TypeOK, RelayHolds, MarkAfterPush
<1>3. Started' /\ Committed' /\ ByProducer' /\ FirstComesFirst'
  BY DEF Started, Committed, ByProducer, FirstComesFirst
<1>4. FirstOnce' /\ MarkedFirstIsPushed'
  BY DEF FirstOnce, MarkedFirstIsPushed
<1> QED
  BY <1>1, <1>2, <1>3, <1>4

LEMMA RetryWaitStep ==
  ASSUME Inv, NEW x \in Execs, RetryWait(x)
  PROVE  Inv'
<1> USE DEF Inv, RetryWait, redisVars, prodVars, relayVars
<1>a. attempt[x] \in Nat /\ attempt[x] > 0 /\ rowAttempt[x] > 0 /\ pushed[<<x, 1>>] > 0
  <2>1. PICK a \in Attempts : <<x, a>> \in due /\ pushed[<<x, a>>] > 0
    BY DEF Committed, Messages
  <2>2. a \in Nat /\ a >= 1 /\ a <= attempt[x] /\ attempt[x] \in Nat
    BY <2>1, OutboxAssumption DEF Committed, Attempts, TypeOK
  <2>3. a = 1 => pushed[<<x, 1>>] > 0
    BY <2>1
  <2>4. a > 1 => pushed[<<x, 1>>] > 0
    <3>1. a > 1 => attempt[x] > 1
      BY <2>2
    <3> QED BY <3>1 DEF FirstComesFirst
  <2>5. attempt[x] > 0
    BY <2>2
  <2>6. rowAttempt[x] > 0
    BY <2>5, OutboxAssumption DEF TypeOK, Started
  <2> QED BY <2>2, <2>3, <2>4, <2>5, <2>6
<1>1. TypeOK'
  BY <1>a, OutboxAssumption DEF TypeOK
<1>2. Started'
  BY <1>a, OutboxAssumption DEF TypeOK, Started
<1>3. Committed'
  <2>1. \A m \in due : m[1] \in Execs /\ m[2] \in Nat
    BY Pairs, OutboxAssumption DEF TypeOK, Attempts
  <2>2. \A m \in due' : m[2] <= attempt'[m[1]]
    BY <1>a, <2>1 DEF Committed, TypeOK
  <2> QED BY <2>2 DEF Committed
<1>4. FirstComesFirst'
  BY <1>a DEF TypeOK, FirstComesFirst
<1>5. ByProducer' /\ RelayHolds' /\ MarkAfterPush'
  BY DEF ByProducer, RelayHolds, MarkAfterPush
<1>6. FirstOnce' /\ MarkedFirstIsPushed'
  BY DEF FirstOnce, MarkedFirstIsPushed
<1> QED
  BY <1>1, <1>2, <1>3, <1>4, <1>5, <1>6

LEMMA LapseStep ==
  ASSUME Inv, NEW k \in Keys, Lapse(k)
  PROVE  Inv'
<1> USE DEF Inv, Lapse, pgVars, prodVars, relayVars
<1>1. TypeOK'
  BY DEF TypeOK
<1>2. FirstComesFirst'
  BY DEF FirstComesFirst
<1>3. FirstOnce'
  <2>1. ASSUME NEW e \in Execs,
               \/ <<e, 1>> \in todo["scheduler"]
               \/ rowAttempt[e] = 1 /\ e \notin published
        PROVE  <<e, 0>> # k
    <3>1. CASE <<e, 1>> \in todo["scheduler"]
      BY <3>1 DEF KeyInUse, KeyOf, Producers
    <3>2. CASE rowAttempt[e] = 1 /\ e \notin published
      BY <3>2 DEF KeyInUse
    <3> QED BY <2>1, <3>1, <3>2
  <2> QED BY <2>1 DEF FirstOnce
<1>4. Started' /\ Committed' /\ ByProducer' /\ RelayHolds'
  BY DEF Started, Committed, ByProducer, RelayHolds
<1>5. MarkAfterPush' /\ MarkedFirstIsPushed'
  BY DEF MarkAfterPush, MarkedFirstIsPushed
<1> QED
  BY <1>1, <1>2, <1>3, <1>4, <1>5

LEMMA Invariance == Spec => []Inv
<1>1. Init => Inv
  <2>1. Init => TypeOK
    BY OutboxAssumption DEF Init, TypeOK, Messages, Attempts, Keys
  <2>2. Init => \A e \in Execs : pushed[<<e, 1>>] = 0
    BY Pairs DEF Init
  <2> QED
    BY <2>1, <2>2, OutboxAssumption DEF Init, Inv, Started, Committed, ByProducer, FirstComesFirst,
       RelayHolds, MarkAfterPush, FirstOnce, MarkedFirstIsPushed, Producers
<1>2. Inv /\ [Next]_vars => Inv'
  <2> SUFFICES ASSUME Inv, [Next]_vars PROVE Inv'
    OBVIOUS
  <2>1. CASE Next
    BY <2>1, ScheduleCommitStep, RetryCommitStep, FastPublishStep, FastMarkStep, ForgetStep,
       RelayClaimStep, RelayCommitStep, RelayAbortStep, RelayPublishStep, RetryWaitStep, LapseStep
       DEF Next
  <2>2. CASE UNCHANGED vars
    BY <2>2 DEF vars, pgVars, redisVars, prodVars, relayVars, Inv, TypeOK, Started, Committed,
       ByProducer, FirstComesFirst, RelayHolds, MarkAfterPush, FirstOnce, MarkedFirstIsPushed
  <2> QED BY <2>1, <2>2
<1> QED
  BY <1>1, <1>2, PTL DEF Spec

(* Every reachable state has the shape TypeOK gives. *)
THEOREM TypeCorrect == Spec => []TypeOK
<1>1. Inv => TypeOK
  BY DEF Inv
<1> QED
  BY <1>1, Invariance, PTL

(* A first attempt's outbox row is marked published only after its push,    *)
(* whatever crashes, fails or rolls back, and however the two paths race.   *)
THEOREM MarkFollowsPush == Spec => []MarkedFirstIsPushed
<1>1. Inv => MarkedFirstIsPushed
  BY DEF Inv
<1> QED
  BY <1>1, Invariance, PTL

-----------------------------------------------------------------------------
(* The outbox implements the abstract hand-off, for first attempts.        *)

(* A push of a first attempt is a step of the abstract Send, any other push *)
(* changes nothing the hand-off of first attempts sees.                     *)
LEMMA PushIsSend ==
  ASSUME Inv, NEW key \in Keys, NEW m \in Messages, MayPush(key, m),
         RunScript(key, m) \/ UNCHANGED redisVars, UNCHANGED due
  PROVE  [First!Next]_First!vars
<1> DEFINE count == [n \in FirstMessages |-> pushed[n]]
<1>1. FirstMessages \subseteq Messages
  BY OutboxAssumption DEF FirstMessages, Messages, Attempts
<1>2. m = <<m[1], m[2]>> /\ m[1] \in Execs /\ m[2] \in Nat /\ m[2] >= 1
  BY Pairs, OutboxAssumption DEF Attempts
<1>3. CASE UNCHANGED pushed
  BY <1>3 DEF First!vars
<1>4. CASE ~UNCHANGED pushed
  <2>1. key \notin keys /\ pushed' = [pushed EXCEPT ![m] = @ + 1]
    BY <1>4 DEF RunScript, redisVars
  <2>2. pushed \in [Messages -> Nat]
    BY DEF Inv, TypeOK
  <2>3. CASE m[2] = 1
    <3>1. m \in FirstMessages /\ m = <<m[1], 1>>
      BY <1>2, <2>3 DEF FirstMessages
    <3>2. pushed[m] = 0
      BY <1>2, <2>1, <2>2, <2>3, <3>1 DEF MayPush, Inv, FirstOnce
    <3>3. \A n \in FirstMessages : pushed'[n] = IF n = m THEN 1 ELSE pushed[n]
      BY <1>1, <2>1, <2>2, <3>1, <3>2
    <3>4. count' = [count EXCEPT ![m] = 1]
      BY <3>3
    <3>5. First!Send(m)
      BY <3>1, <3>2, <3>4 DEF First!Send, MayPush
    <3> QED BY <3>1, <3>5 DEF First!Next
  <2>4. CASE m[2] > 1
    <3>1. m \notin FirstMessages
      BY <2>4 DEF FirstMessages
    <3>2. count' = count
      BY <1>1, <2>1, <2>2, <3>1
    <3> QED BY <3>2 DEF First!vars
  <2> QED BY <1>2, <2>3, <2>4
<1> QED
  BY <1>3, <1>4

(* First attempts reach the stream only after their commit and never twice, *)
(* also when dedupe keys lapse: the outbox implements Handoff for them.     *)
THEOREM FirstHandedOff == Spec => FirstHandoffSafe
<1>1. Init => First!Init
  <2>1. FirstMessages \subseteq Messages
    BY OutboxAssumption DEF FirstMessages, Messages, Attempts
  <2> QED BY <2>1 DEF Init, First!Init
<1>2. Inv /\ [Next]_vars => [First!Next]_First!vars
  <2> SUFFICES ASSUME Inv, [Next]_vars PROVE [First!Next]_First!vars
    OBVIOUS
  <2>1. CASE UNCHANGED <<due, pushed>>
    BY <2>1 DEF First!vars
  <2>2. ASSUME NEW S \in SUBSET Execs, ScheduleCommit(S) PROVE [First!Next]_First!vars
    <3>1. /\ S \X {1} \in SUBSET FirstMessages
          /\ UNCHANGED pushed /\ due' = due \cup (S \X {1})
      BY <2>2 DEF ScheduleCommit, redisVars, FirstMessages
    <3>2. First!Commit(S \X {1})
      BY <3>1 DEF First!Commit
    <3> QED BY <3>1, <3>2 DEF First!Next
  <2>3. ASSUME NEW S \in SUBSET Execs, RetryCommit(S) PROVE [First!Next]_First!vars
    <3>1. \A e \in S : attempt[e] # 1
      BY <2>3 DEF RetryCommit, Inv, Started, TypeOK
    <3>2. UNCHANGED pushed /\ due' = due \cup {<<e, attempt[e]>> : e \in S}
      BY <2>3 DEF RetryCommit, redisVars
    <3>3. due' \cap FirstMessages = due \cap FirstMessages
      BY <3>1, <3>2 DEF FirstMessages
    <3> QED BY <3>2, <3>3 DEF First!vars
  <2>4. ASSUME NEW p \in Producers, NEW m \in Messages,
               FastPublish(p, m) \/ FastPublishFails(p, m)
        PROVE  [First!Next]_First!vars
    <3>1. KeyOf(p, m) \in Keys /\ MayPush(KeyOf(p, m), m)
      BY <2>4, FastPushAllowed, Pairs DEF FastPublish, FastPublishFails
    <3>2. UNCHANGED due /\ (RunScript(KeyOf(p, m), m) \/ UNCHANGED redisVars)
      BY <2>4 DEF FastPublish, FastPublishFails, pgVars
    <3> QED BY <3>1, <3>2, PushIsSend
  <2>5. ASSUME NEW r \in Relays, NEW e \in Execs,
               RelayPublish(r, e) \/ RelayPublishFails(r, e)
        PROVE  [First!Next]_First!vars
    <3>1. /\ <<e, 0>> \in Keys /\ <<e, rowAttempt[e]>> \in Messages
          /\ MayPush(<<e, 0>>, <<e, rowAttempt[e]>>)
      BY <2>5, RelayPushAllowed, Pairs DEF RelayPublish, RelayPublishFails
    <3>2. UNCHANGED due /\ (RunScript(<<e, 0>>, <<e, rowAttempt[e]>>) \/ UNCHANGED redisVars)
      BY <2>5 DEF RelayPublish, RelayPublishFails, pgVars
    <3> QED BY <3>1, <3>2, PushIsSend
  <2>6. CASE UNCHANGED vars
    BY <2>6, <2>1 DEF vars, pgVars, redisVars
  <2>7. CASE Next
    <3>1. ASSUME NEW p \in Producers, NEW m \in Messages, FastMark(p, m)
          PROVE  UNCHANGED <<due, pushed>>
      BY <3>1 DEF FastMark, redisVars
    <3>2. ASSUME NEW p \in Producers, FastMarkFails(p) \/ ProducerCrash(p)
          PROVE  UNCHANGED <<due, pushed>>
      BY <3>2 DEF FastMarkFails, ProducerCrash, pgVars, redisVars
    <3>3. ASSUME NEW r \in Relays, RelayClaim(r) \/ RelayCommit(r) \/ RelayAbort(r)
          PROVE  UNCHANGED <<due, pushed>>
      BY <3>3 DEF RelayClaim, RelayCommit, RelayAbort, pgVars, redisVars
    <3>4. ASSUME NEW e \in Execs, RetryWait(e) PROVE UNCHANGED <<due, pushed>>
      BY <3>4 DEF RetryWait, redisVars
    <3>5. ASSUME NEW k \in Keys, Lapse(k) PROVE UNCHANGED <<due, pushed>>
      BY <3>5 DEF Lapse, pgVars
    <3> QED
      BY <2>1, <2>2, <2>3, <2>4, <2>5, <2>7, <3>1, <3>2, <3>3, <3>4, <3>5 DEF Next
  <2> QED BY <2>6, <2>7
<1> QED
  BY <1>1, <1>2, Invariance, PTL DEF Spec, FirstHandoffSafe, First!Spec

-----------------------------------------------------------------------------
(* Where the dedupe keys live, it implements it for retries, too.          *)

(* The key that stops a second push of a message: the first attempt's is   *)
(* the execution's, and both the fast path and the relay pass it; of a      *)
(* later attempt only the retry sweep's own.                                *)
LiveKey(m) == IF m[2] = 1 THEN <<m[1], 0>> ELSE m

\* A message whose keys do not lapse is pushed once at most, and once it is
\* its key stays.  (Then a relay that comes to a later attempt's row always
\* finds the first attempt's key, and pushes nothing.)
LiveOnce ==
  \A m \in LiveMessages :
    pushed[m] <= 1 /\ (pushed[m] > 0 => LiveKey(m) \in keys)

LEMMA LivePairs ==
  /\ LiveMessages \subseteq Messages
  /\ \A m \in LiveMessages : m[1] \in Execs \ Lapsing /\ LiveKey(m)[1] = m[1]
  /\ \A m \in LiveMessages : <<m[1], 1>> \in LiveMessages
  /\ \A m \in Messages : m[1] \in Execs \ Lapsing => m \in LiveMessages
<1>1. 1 \in Attempts
  BY OutboxAssumption DEF Attempts
<1> QED
  BY <1>1 DEF LiveMessages, Messages, LiveKey

(* A push the invariant allows that changes pushed is, of a live message,   *)
(* the first one, and leaves its key behind.                                *)
LEMMA LivePush ==
  ASSUME Inv, LiveOnce, NEW key \in Keys, NEW m \in LiveMessages, MayPush(key, m),
         RunScript(key, m), key \notin keys
  PROVE  key = LiveKey(m) /\ pushed[m] = 0
<1>1. /\ m \in Messages /\ m = <<m[1], m[2]>> /\ m[1] \in Execs /\ m[2] \in Nat /\ m[2] >= 1
      /\ pushed[m] \in Nat
  BY LivePairs, Pairs, OutboxAssumption DEF Attempts, Inv, TypeOK
<1>2. key = LiveKey(m)
  <2>1. CASE m[2] = 1
    BY <2>1 DEF MayPush, LiveKey
  <2>2. CASE m[2] > 1
    <3>1. <<m[1], 1>> \in LiveMessages /\ pushed[<<m[1], 1>>] > 0
      BY <2>2, LivePairs DEF MayPush
    <3>2. <<m[1], 0>> \in keys
      BY <3>1 DEF LiveOnce, LiveKey
    <3>3. key = m
      BY <3>2 DEF MayPush
    <3> QED BY <2>2, <3>3 DEF LiveKey
  <2> QED BY <1>1, <2>1, <2>2
<1> QED
  BY <1>1, <1>2 DEF LiveOnce

LEMMA LivePushEffect ==
  ASSUME Inv, LiveOnce, NEW key \in Keys, NEW m \in Messages, MayPush(key, m),
         RunScript(key, m) \/ UNCHANGED redisVars
  PROVE  LiveOnce'
<1> SUFFICES ASSUME NEW n \in LiveMessages
             PROVE  pushed'[n] <= 1 /\ (pushed'[n] > 0 => LiveKey(n) \in keys')
  BY DEF LiveOnce, LiveKey
<1>1. n \in Messages /\ pushed \in [Messages -> Nat]
  BY LivePairs DEF Inv, TypeOK
<1>2. pushed[n] <= 1 /\ (pushed[n] > 0 => LiveKey(n) \in keys)
  BY DEF LiveOnce
<1>3. CASE UNCHANGED redisVars
  BY <1>2, <1>3 DEF redisVars
<1>4. CASE RunScript(key, m) /\ key \notin keys
  <2>1. keys' = keys \cup {key} /\ pushed' = [pushed EXCEPT ![m] = @ + 1]
    BY <1>4 DEF RunScript
  <2>2. CASE n = m
    <3>1. key = LiveKey(n) /\ pushed[n] = 0
      BY <1>4, <2>2, LivePush
    <3> QED BY <1>1, <2>1, <2>2, <3>1
  <2>3. CASE n # m
    BY <1>1, <1>2, <2>1, <2>3
  <2> QED BY <2>2, <2>3
<1> QED
  BY <1>3, <1>4 DEF RunScript

LEMMA LiveOnceStep ==
  ASSUME Inv, LiveOnce, [Next]_vars
  PROVE  LiveOnce'
<1>1. CASE UNCHANGED redisVars
  BY <1>1 DEF LiveOnce, redisVars
<1>2. ASSUME NEW p \in Producers, NEW m \in Messages, FastPublish(p, m) \/ FastPublishFails(p, m)
      PROVE  LiveOnce'
  <2>1. KeyOf(p, m) \in Keys /\ MayPush(KeyOf(p, m), m)
    BY <1>2, FastPushAllowed, Pairs DEF FastPublish, FastPublishFails
  <2>2. RunScript(KeyOf(p, m), m) \/ UNCHANGED redisVars
    BY <1>2 DEF FastPublish, FastPublishFails
  <2> QED BY <2>1, <2>2, LivePushEffect
<1>3. ASSUME NEW r \in Relays, NEW e \in Execs, RelayPublish(r, e) \/ RelayPublishFails(r, e)
      PROVE  LiveOnce'
  <2>1. /\ <<e, 0>> \in Keys /\ <<e, rowAttempt[e]>> \in Messages
        /\ MayPush(<<e, 0>>, <<e, rowAttempt[e]>>)
    BY <1>3, RelayPushAllowed, Pairs DEF RelayPublish, RelayPublishFails
  <2>2. RunScript(<<e, 0>>, <<e, rowAttempt[e]>>) \/ UNCHANGED redisVars
    BY <1>3 DEF RelayPublish, RelayPublishFails
  <2> QED BY <2>1, <2>2, LivePushEffect
<1>4. ASSUME NEW k \in Keys, Lapse(k) PROVE LiveOnce'
  <2>1. k[1] \in Lapsing /\ keys' = keys \ {k} /\ UNCHANGED pushed
    BY <1>4 DEF Lapse
  <2>2. \A m \in LiveMessages : LiveKey(m) # k
    BY <2>1, LivePairs
  <2> QED BY <2>1, <2>2 DEF LiveOnce, LiveKey
<1>5. CASE UNCHANGED vars
  BY <1>1, <1>5 DEF vars
<1>6. CASE Next
  <2>1. ASSUME NEW S \in SUBSET Execs, ScheduleCommit(S) \/ RetryCommit(S)
        PROVE  UNCHANGED redisVars
    BY <2>1 DEF ScheduleCommit, RetryCommit
  <2>2. ASSUME NEW p \in Producers, NEW m \in Messages, FastMark(p, m)
        PROVE  UNCHANGED redisVars
    BY <2>2 DEF FastMark
  <2>3. ASSUME NEW p \in Producers, FastMarkFails(p) \/ ProducerCrash(p)
        PROVE  UNCHANGED redisVars
    BY <2>3 DEF FastMarkFails, ProducerCrash
  <2>4. ASSUME NEW r \in Relays, RelayClaim(r) \/ RelayCommit(r) \/ RelayAbort(r)
        PROVE  UNCHANGED redisVars
    BY <2>4 DEF RelayClaim, RelayCommit, RelayAbort
  <2>5. ASSUME NEW e \in Execs, RetryWait(e) PROVE UNCHANGED redisVars
    BY <2>5 DEF RetryWait
  <2> QED
    BY <1>1, <1>2, <1>3, <1>4, <1>6, <2>1, <2>2, <2>3, <2>4, <2>5 DEF Next
<1> QED
  BY <1>5, <1>6

(* To the hand-off of live messages a push is a Send, or nothing.           *)
LEMMA LivePushIsSend ==
  ASSUME Inv, LiveOnce, NEW key \in Keys, NEW m \in Messages, MayPush(key, m),
         RunScript(key, m) \/ UNCHANGED redisVars, UNCHANGED due
  PROVE  [Live!Next]_Live!vars
<1> DEFINE count == [n \in LiveMessages |-> pushed[n]]
<1>1. LiveMessages \subseteq Messages /\ pushed \in [Messages -> Nat]
  BY LivePairs DEF Inv, TypeOK
<1>2. CASE UNCHANGED pushed
  BY <1>2 DEF Live!vars
<1>3. CASE ~UNCHANGED pushed
  <2>1. /\ RunScript(key, m) /\ key \notin keys
        /\ pushed' = [pushed EXCEPT ![m] = @ + 1]
    BY <1>3 DEF RunScript, redisVars
  <2>2. CASE m \in LiveMessages
    <3>1. pushed[m] = 0
      BY <2>1, <2>2, LivePush
    <3>2. \A n \in LiveMessages : pushed'[n] = IF n = m THEN 1 ELSE pushed[n]
      BY <1>1, <2>1, <2>2, <3>1
    <3>3. count' = [count EXCEPT ![m] = 1]
      BY <3>2
    <3>4. Live!Send(m)
      BY <2>2, <3>1, <3>3 DEF Live!Send, MayPush
    <3> QED BY <2>2, <3>4 DEF Live!Next
  <2>3. CASE m \notin LiveMessages
    <3>1. count' = count
      BY <1>1, <2>1, <2>3
    <3> QED BY <3>1 DEF Live!vars
  <2> QED BY <2>2, <2>3
<1> QED
  BY <1>2, <1>3

(* No attempt of an execution whose keys live, first or later, is pushed    *)
(* before its commit or twice, by fast path and relay, whatever fails in     *)
(* between: the outbox implements Handoff for retries as well.              *)
THEOREM EveryOneHandedOff == Spec => EveryHandoffSafe
<1> DEFINE LInv == Inv /\ LiveOnce
<1>1. Init => LiveOnce /\ Live!Init
  BY LivePairs DEF Init, LiveOnce, Live!Init
<1>2. LInv /\ [Next]_vars => [Live!Next]_Live!vars
  <2> SUFFICES ASSUME Inv, LiveOnce, [Next]_vars PROVE [Live!Next]_Live!vars
    OBVIOUS
  <2>1. CASE UNCHANGED <<due, pushed>>
    BY <2>1 DEF Live!vars
  <2>2. ASSUME NEW C \in SUBSET Messages, due' = due \cup C, UNCHANGED pushed
        PROVE  [Live!Next]_Live!vars
    <3>1. C \cap LiveMessages \in SUBSET LiveMessages
      OBVIOUS
    <3>2. Live!Commit(C \cap LiveMessages)
      BY <2>2 DEF Live!Commit
    <3> QED BY <3>1, <3>2 DEF Live!Next
  <2>3. ASSUME NEW S \in SUBSET Execs, ScheduleCommit(S) PROVE [Live!Next]_Live!vars
    <3>1. S \X {1} \in SUBSET Messages
      BY OutboxAssumption DEF Messages, Attempts
    <3>2. UNCHANGED pushed /\ due' = due \cup (S \X {1})
      BY <2>3 DEF ScheduleCommit, redisVars
    <3> QED BY <2>2, <3>1, <3>2
  <2>4. ASSUME NEW S \in SUBSET Execs, RetryCommit(S) PROVE [Live!Next]_Live!vars
    <3>1. UNCHANGED pushed /\ due' = due \cup {<<e, attempt[e]>> : e \in S}
      BY <2>4 DEF RetryCommit, redisVars
    <3>2. \A e \in S : e \in Execs /\ attempt[e] \in Attempts
      BY <2>4, OutboxAssumption DEF RetryCommit, Inv, TypeOK, Started, Attempts
    <3>3. {<<e, attempt[e]>> : e \in S} \in SUBSET Messages
      BY <3>2 DEF Messages
    <3> QED BY <2>2, <3>1, <3>3
  <2>5. ASSUME NEW p \in Producers, NEW m \in Messages,
               FastPublish(p, m) \/ FastPublishFails(p, m)
        PROVE  [Live!Next]_Live!vars
    <3>1. KeyOf(p, m) \in Keys /\ MayPush(KeyOf(p, m), m)
      BY <2>5, FastPushAllowed, Pairs DEF FastPublish, FastPublishFails
    <3>2. UNCHANGED due /\ (RunScript(KeyOf(p, m), m) \/ UNCHANGED redisVars)
      BY <2>5 DEF FastPublish, FastPublishFails, pgVars
    <3> QED BY <3>1, <3>2, LivePushIsSend
  <2>6. ASSUME NEW r \in Relays, NEW e \in Execs,
               RelayPublish(r, e) \/ RelayPublishFails(r, e)
        PROVE  [Live!Next]_Live!vars
    <3>1. /\ <<e, 0>> \in Keys /\ <<e, rowAttempt[e]>> \in Messages
          /\ MayPush(<<e, 0>>, <<e, rowAttempt[e]>>)
      BY <2>6, RelayPushAllowed, Pairs DEF RelayPublish, RelayPublishFails
    <3>2. UNCHANGED due /\ (RunScript(<<e, 0>>, <<e, rowAttempt[e]>>) \/ UNCHANGED redisVars)
      BY <2>6 DEF RelayPublish, RelayPublishFails, pgVars
    <3> QED BY <3>1, <3>2, LivePushIsSend
  <2>7. CASE UNCHANGED vars
    BY <2>7, <2>1 DEF vars, pgVars, redisVars
  <2>8. CASE Next
    <3>1. ASSUME NEW p \in Producers, NEW m \in Messages, FastMark(p, m)
          PROVE  UNCHANGED <<due, pushed>>
      BY <3>1 DEF FastMark, redisVars
    <3>2. ASSUME NEW p \in Producers, FastMarkFails(p) \/ ProducerCrash(p)
          PROVE  UNCHANGED <<due, pushed>>
      BY <3>2 DEF FastMarkFails, ProducerCrash, pgVars, redisVars
    <3>3. ASSUME NEW r \in Relays, RelayClaim(r) \/ RelayCommit(r) \/ RelayAbort(r)
          PROVE  UNCHANGED <<due, pushed>>
      BY <3>3 DEF RelayClaim, RelayCommit, RelayAbort, pgVars, redisVars
    <3>4. ASSUME NEW e \in Execs, RetryWait(e) PROVE UNCHANGED <<due, pushed>>
      BY <3>4 DEF RetryWait, redisVars
    <3>5. ASSUME NEW k \in Keys, Lapse(k) PROVE UNCHANGED <<due, pushed>>
      BY <3>5 DEF Lapse, pgVars
    <3> QED
      BY <2>1, <2>3, <2>4, <2>5, <2>6, <2>8, <3>1, <3>2, <3>3, <3>4, <3>5 DEF Next
  <2> QED BY <2>7, <2>8
<1>3. LInv /\ Inv' /\ [Next]_vars => LInv'
  BY LiveOnceStep
<1> QED
  BY <1>1, <1>2, <1>3, Invariance, PTL DEF Spec, EveryHandoffSafe, Live!Spec
=============================================================================
