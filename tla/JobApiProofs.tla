---------------------------- MODULE JobApiProofs ----------------------------
(***************************************************************************)
(* JobApi for every number of requests and every bound: how often a ONCE   *)
(* job fires, that it ends disabled, and that the row's options agree.     *)
(***************************************************************************)
EXTENDS JobApi, TLAPS

\* The firing that a ONCE job's next_run holds in store, if it lies in reach.
Due == IF job.nextRun \in {Null, Far} THEN 0 ELSE 1

\* A ONCE job's firings, the one in store among them, and its end.
Spent ==
  job.type = "ONCE" =>
    /\ fired + Due <= 1 + moved
    /\ exists /\ fired > 0 /\ open = {} /\ ~resumed => ~job.enabled

\* What Patch has checked of an update that waits to be written.
Checked(q) ==
  req[q].step = "write" =>
    LET u == req[q].update
        o == req[q].read
    IN  LegalOptions(Merged(job.type, u.type), Merged(o.backfill, u.backfill),
                     Merged(o.catchup, u.catchup))

IInv == TypeOK /\ Spent /\ OptionsAgree /\ \A q \in Requests : Checked(q)

LEMMA MergedType ==
  ASSUME NEW S, NEW old \in S, NEW new \in Maybe(S)
  PROVE  /\ Merged(old, new) \in S
         /\ new = {} => Merged(old, new) = old
         /\ new # {} => \A other \in S : Merged(other, new) = Merged(old, new)
BY DEF Merged, Maybe

LEMMA Initially == Init => IInv
<1> SUFFICES ASSUME Init PROVE IInv
  OBVIOUS
<1> USE JobApiAssumption
<1>1. PICK type \in Types, on \in BOOLEAN, backfill \in BOOLEAN, catchup \in BOOLEAN,
           runAt \in 1 .. MaxTime :
        /\ LegalOptions(type, backfill, catchup)
        /\ job = [type |-> type, enabled |-> on,
                  nextRun |-> IF type = "ONCE" THEN runAt ELSE now + 1,
                  backfill |-> backfill, catchup |-> catchup]
  BY DEF Init
<1>2. TypeOK
  <2>1. now \in Times
    BY <1>1 DEF Init, Times
  <2>2. (IF type = "ONCE" THEN runAt ELSE now + 1) \in Times \cup {Far, Null}
    BY <1>1 DEF Init, Times
  <2>3. job \in Jobs
    BY <1>1, <2>2 DEF Jobs
  <2>4. req \in [Requests -> [step : {"idle"}] \cup [step : {"write"}, update : Updates,
                                                   read : Jobs]]
    BY DEF Init, Idle
  <2>5. open \subseteq 1 .. fired /\ fired \in Nat /\ asked \in 0 .. MaxRequests
    BY DEF Init
  <2>6. /\ exists \in BOOLEAN /\ overlap \in BOOLEAN
        /\ retyped \in BOOLEAN /\ moved \in Nat /\ resumed \in BOOLEAN
    BY DEF Init
  <2> QED BY <2>1, <2>3, <2>4, <2>5, <2>6, Zenon DEF TypeOK
<1>3. Spent /\ OptionsAgree
  BY <1>1 DEF Init, Spent, Due, OptionsAgree, LegalOptions, Types
<1>4. \A q \in Requests : Checked(q)
  BY DEF Init, Checked, Idle
<1> QED BY <1>2, <1>3, <1>4 DEF IInv

LEMMA TickStep == IInv /\ Tick => IInv'
<1> SUFFICES ASSUME IInv, Tick PROVE IInv'
  OBVIOUS
<1> USE JobApiAssumption DEF IInv, Tick, rowVars
<1>1. TypeOK'
  BY DEF TypeOK, Times
<1>2. Spent' /\ OptionsAgree'
  BY DEF Spent, Due, OptionsAgree
<1>3. \A q \in Requests : Checked(q)'
  BY DEF Checked
<1> QED BY <1>1, <1>2, <1>3

LEMMA PollStep == IInv /\ Poll => IInv'
<1> SUFFICES ASSUME IInv, Poll PROVE IInv'
  OBVIOUS
<1>1. PICK next \in Times \cup {Null} :
        /\ Claim(next)
        /\ job.type = "ONCE" => next = Null
  BY DEF Poll
<1> USE JobApiAssumption DEF IInv, Claim
<1>2. /\ job' \in Jobs
      /\ job'.type = job.type /\ job'.nextRun = next
      /\ job'.backfill = job.backfill /\ job'.catchup = job.catchup
  BY <1>1 DEF TypeOK, Jobs
<1>3. job.nextRun \in Times
  BY <1>1 DEF TypeOK, Jobs, Times, Far, Null
<1>4. TypeOK'
  <2>1. fired \in Nat /\ open \subseteq 1 .. fired
    BY DEF TypeOK
  <2>2. fired' \in Nat /\ open' \subseteq 1 .. fired'
    BY <1>1, <2>1
  <2> QED BY <1>1, <1>2, <2>2 DEF TypeOK
<1>5. job.nextRun # Null /\ job.nextRun # Far
  BY <1>1, <1>3 DEF Times, Far, Null
<1>6. Spent'
  <2>1. fired \in Nat /\ moved \in Nat /\ fired' = fired + 1 /\ fired' \in open' /\ moved' = moved
    BY <1>1 DEF TypeOK
  <2>2. Due = 1
    BY <1>5 DEF Due
  <2>3. job.type = "ONCE" => Due' = 0
    BY <1>1, <1>2 DEF Due
  <2> QED BY <1>2, <2>1, <2>2, <2>3 DEF Spent
<1>7. OptionsAgree'
  BY <1>1, <1>2 DEF OptionsAgree
<1>8. \A q \in Requests : Checked(q)'
  BY <1>1, <1>2 DEF Checked
<1> QED BY <1>4, <1>6, <1>7, <1>8

LEMMA ResolveStep == IInv /\ (\E e \in open : Resolve(e)) => IInv'
<1> SUFFICES ASSUME IInv, NEW e \in open, Resolve(e) PROVE IInv'
  OBVIOUS
<1> USE DEF IInv, Resolve
<1>1. /\ job' \in Jobs
      /\ job'.type = job.type /\ job'.nextRun = job.nextRun
      /\ job'.backfill = job.backfill /\ job'.catchup = job.catchup
  BY DEF TypeOK, Jobs
<1>2. TypeOK'
  BY <1>1 DEF TypeOK
<1>3. Spent'
  <2>1. Due' = Due /\ (job.type = "ONCE" => ~job'.enabled)
    BY <1>1 DEF Due, TypeOK, Jobs
  <2> QED BY <1>1, <2>1 DEF Spent
<1>5. OptionsAgree'
  BY <1>1 DEF OptionsAgree
<1>4. \A q \in Requests : Checked(q)'
  BY <1>1 DEF Checked
<1> QED BY <1>2, <1>3, <1>4, <1>5

LEMMA DeleteStep == IInv /\ Delete => IInv'
<1> SUFFICES ASSUME IInv, Delete PROVE IInv'
  OBVIOUS
<1> USE DEF IInv, Delete
<1>1. TypeOK'
  BY DEF TypeOK
<1>2. Spent' /\ OptionsAgree'
  BY DEF Spent, Due, OptionsAgree
<1>3. \A q \in Requests : Checked(q)'
  BY DEF Checked
<1> QED BY <1>1, <1>2, <1>3

LEMMA PatchStep ==
  ASSUME IInv, NEW q \in Requests, NEW u \in Updates, Patch(q, u)
  PROVE  IInv'
<1> USE JobApiAssumption DEF IInv, Patch, Accepted, rowVars
<1>1. job \in Jobs
  BY DEF TypeOK
<1>2. \A r \in Requests :
        req'[r] = IF r = q THEN [step |-> "write", update |-> u, read |-> job] ELSE req[r]
  BY DEF TypeOK
<1>3. TypeOK'
  BY <1>1, <1>2 DEF TypeOK
<1>4. Spent' /\ OptionsAgree'
  BY DEF Spent, Due, OptionsAgree
<1>5. ASSUME NEW r \in Requests PROVE Checked(r)'
  <2>1. CASE r = q
    BY <2>1, <1>2 DEF Checked
  <2>2. CASE r # q
    BY <2>2, <1>2 DEF Checked
  <2> QED BY <2>1, <2>2
<1> QED BY <1>3, <1>4, <1>5

LEMMA StoredShape ==
  ASSUME JobApiAssumption, NEW row \in Jobs, NEW u \in Updates, NEW next \in Stored(row, u)
  PROVE  /\ next \in Times \cup {Far, Null}
         /\ ~Reschedules(u) => next = row.nextRun
<1>1. row.nextRun \in Times \cup {Far, Null}
  BY DEF Jobs
<1>2. CASE ~Reschedules(u)
  BY <1>1, <1>2 DEF Stored
<1>3. CASE Reschedules(u) /\ Merged(row.type, u.type) = "CRON"
  BY <1>3 DEF Stored
<1>4. CASE /\ Reschedules(u) /\ Merged(row.type, u.type) # "CRON"
           /\ u.time = {"run_at"}
  BY <1>4 DEF Stored
<1>5. CASE /\ Reschedules(u) /\ Merged(row.type, u.type) # "CRON"
           /\ u.time # {"run_at"}
  BY <1>5 DEF Stored
<1> QED BY <1>2, <1>3, <1>4, <1>5

LEMMA WriteStep ==
  ASSUME IInv, NEW q \in Requests, Write(q)
  PROVE  IInv'
<1> USE JobApiAssumption
<1> DEFINE u == req[q].update
           o == req[q].read
<1>1. u \in Updates /\ o \in Jobs /\ job \in Jobs
  BY DEF Write, Update, IInv, TypeOK
<1>2. /\ u.enabled \in Maybe(BOOLEAN) /\ u.backfill \in Maybe(BOOLEAN)
      /\ u.catchup \in Maybe(BOOLEAN) /\ u.type \in Maybe(Types)
  BY <1>1 DEF Updates, Maybe
<1>3. /\ job.type \in Types /\ job.enabled \in BOOLEAN
      /\ job.backfill \in BOOLEAN /\ job.catchup \in BOOLEAN
      /\ job.nextRun \in Times \cup {Far, Null}
      /\ o.backfill \in BOOLEAN /\ o.catchup \in BOOLEAN
  BY <1>1 DEF Jobs
<1>4. /\ Merged(job.enabled, u.enabled) \in BOOLEAN
      /\ Merged(job.backfill, u.backfill) \in BOOLEAN
      /\ Merged(job.catchup, u.catchup) \in BOOLEAN
  BY <1>2, <1>3, MergedType
<1>5. PICK next \in Stored(job, u) :
        job' = [job EXCEPT !.enabled = Merged(@, u.enabled),
                           !.backfill = Merged(@, u.backfill),
                           !.catchup = Merged(@, u.catchup),
                           !.nextRun = next]
  BY DEF Write, Update
<1>6. next \in Times \cup {Far, Null} /\ (~Reschedules(u) => next = job.nextRun)
  BY <1>1, <1>5, StoredShape
<1>7. /\ job'.type = job.type
      /\ job'.nextRun = next
      /\ job'.enabled = Merged(job.enabled, u.enabled)
      /\ job'.backfill = Merged(job.backfill, u.backfill)
      /\ job'.catchup = Merged(job.catchup, u.catchup)
      /\ job' \in Jobs
  BY <1>1, <1>4, <1>5, <1>6 DEF Jobs
<1>8. /\ retyped' = (retyped \/ Merged(job.type, u.type) # job.type)
      /\ moved' = IF Reschedules(u) THEN moved + 1 ELSE moved
      /\ resumed' = (resumed \/ (fired > 0 /\ u.enabled = {TRUE}))
      /\ overlap' = (overlap \/ <<job.backfill, job.catchup>> # <<o.backfill, o.catchup>>)
      /\ UNCHANGED <<exists, now, open, fired, asked>>
      /\ req[q].step = "write" /\ req' = [req EXCEPT ![q] = Idle]
  BY DEF Write, Update
<1>9. \A r \in Requests : req'[r] = IF r = q THEN Idle ELSE req[r]
  BY <1>8 DEF IInv, TypeOK
<1> HIDE DEF u, o
<1>10. TypeOK'
  <2>1. \A r \in Requests :
          req'[r] \in [step : {"idle"}] \cup [step : {"write"}, update : Updates, read : Jobs]
    BY <1>9 DEF IInv, TypeOK, Idle
  <2>2. req' \in [Requests -> [step : {"idle"}]
                              \cup [step : {"write"}, update : Updates, read : Jobs]]
    BY <1>8, <2>1 DEF IInv, TypeOK
  <2>3. /\ overlap' \in BOOLEAN /\ retyped' \in BOOLEAN /\ resumed' \in BOOLEAN
        /\ moved' \in Nat
    BY <1>8 DEF IInv, TypeOK
  <2> QED BY <1>7, <1>8, <2>2, <2>3 DEF IInv, TypeOK
<1>11. Spent'
  <2>1. fired \in Nat /\ moved \in Nat /\ fired' = fired
    BY <1>8 DEF IInv, TypeOK
  <2>2. ASSUME job.type = "ONCE" PROVE fired' + Due' <= 1 + moved'
    <3>1. fired + Due <= 1 + moved /\ Due \in {0, 1} /\ Due' \in {0, 1}
      BY <2>2 DEF IInv, Spent, Due
    <3>2. ~Reschedules(u) => Due' = Due
      BY <1>6, <1>7 DEF Due
    <3> QED BY <1>8, <2>1, <3>1, <3>2
  <2>3. ASSUME job.type = "ONCE", exists', fired' > 0, open' = {}, ~resumed'
        PROVE  ~job'.enabled
    <3>1. ~job.enabled /\ u.enabled # {TRUE}
      BY <1>8, <2>3 DEF IInv, Spent
    <3>2. u.enabled \in {{}, {FALSE}}
      BY <1>2, <3>1 DEF Maybe
    <3> QED BY <1>3, <1>7, <3>1, <3>2 DEF Merged
  <2> QED BY <1>7, <2>2, <2>3 DEF Spent
<1>12. OptionsAgree'
  <2>1. LegalOptions(Merged(job.type, u.type), Merged(o.backfill, u.backfill),
                     Merged(o.catchup, u.catchup))
    BY <1>8 DEF IInv, Checked, u, o
  <2>2. ASSUME ~overlap', job'.catchup PROVE job'.backfill
    <3>1. o.backfill = job.backfill /\ o.catchup = job.catchup
      BY <1>8, <2>2
    <3> QED BY <2>1, <2>2, <3>1, <1>7 DEF LegalOptions
  <2>3. ASSUME ~retyped', job'.backfill PROVE job'.type = "CRON"
    <3>1. Merged(job.type, u.type) = job.type /\ ~retyped
      BY <1>8, <2>3
    <3>2. CASE u.backfill = {}
      <4>1. job.backfill
        BY <3>2, <2>3, <1>2, <1>3, <1>7, MergedType
      <4> QED BY <4>1, <3>1, <1>7 DEF IInv, OptionsAgree
    <3>3. CASE u.backfill # {}
      <4>1. Merged(o.backfill, u.backfill) = Merged(job.backfill, u.backfill)
        BY <3>3, <1>2, <1>3, MergedType
      <4> QED BY <4>1, <3>1, <2>1, <2>3, <1>7 DEF LegalOptions
    <3> QED BY <3>2, <3>3
  <2> QED BY <2>2, <2>3 DEF OptionsAgree
<1>13. \A r \in Requests : Checked(r)'
  BY <1>7, <1>9 DEF IInv, Checked, Idle
<1> QED BY <1>10, <1>11, <1>12, <1>13 DEF IInv

LEMMA WriteFailsStep ==
  ASSUME IInv, NEW q \in Requests, WriteFails(q)
  PROVE  IInv'
<1> USE DEF IInv, WriteFails, rowVars
<1>1. \A r \in Requests : req'[r] = IF r = q THEN Idle ELSE req[r]
  BY DEF TypeOK
<1>2. TypeOK'
  BY <1>1 DEF TypeOK, Idle
<1>3. Spent' /\ OptionsAgree'
  BY DEF Spent, Due, OptionsAgree
<1>4. \A r \in Requests : Checked(r)'
  BY <1>1 DEF Checked, Idle
<1> QED BY <1>2, <1>3, <1>4

LEMMA Invariance == Spec => []IInv
<1>1. IInv /\ [Next]_vars => IInv'
  <2> SUFFICES ASSUME IInv, [Next]_vars PROVE IInv'
    OBVIOUS
  <2>1. CASE Tick
    BY <2>1, TickStep
  <2>2. CASE Poll
    BY <2>2, PollStep
  <2>3. CASE Delete
    BY <2>3, DeleteStep
  <2>4. CASE \E e \in open : Resolve(e)
    BY <2>4, ResolveStep
  <2>5. CASE \E q \in Requests : (\E u \in Updates : Patch(q, u)) \/ Write(q) \/ WriteFails(q)
    BY <2>5, PatchStep, WriteStep, WriteFailsStep
  <2>6. CASE UNCHANGED vars
    BY <2>6 DEF IInv, TypeOK, Spent, Due, OptionsAgree, Checked, vars, rowVars
  <2> QED BY <2>1, <2>2, <2>3, <2>4, <2>5, <2>6 DEF Next
<1> QED BY <1>1, Initially, PTL DEF Spec

\* Every variable keeps its type.
THEOREM TypeCorrect == Spec => []TypeOK
<1>1. IInv => TypeOK
  BY DEF IInv
<1> QED BY <1>1, Invariance, PTL

\* Whatever is patched and however many requests overlap: a ONCE job fires once and
\* once more for each PATCH of its schedule, and ends disabled unless resumed.
THEOREM FiresOnce == Spec => []OnceFiresOnce
<1>1. IInv => OnceFiresOnce
  <2> SUFFICES ASSUME IInv, job.type = "ONCE"
               PROVE  fired <= 1 + moved
    BY DEF IInv, Spent, OnceFiresOnce
  <2>1. fired \in Nat /\ moved \in Nat /\ Due \in {0, 1} /\ fired + Due <= 1 + moved
    BY DEF IInv, TypeOK, Spent, Due
  <2> QED BY <2>1
<1> QED BY <1>1, Invariance, PTL

\* The merged check of a PATCH keeps the row's options in agreement.
THEOREM OptionsStayLegal == Spec => []OptionsAgree
<1>1. IInv => OptionsAgree
  BY DEF IInv
<1> QED BY <1>1, Invariance, PTL
=============================================================================
