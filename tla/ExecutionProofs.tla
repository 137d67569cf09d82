-------------------------- MODULE ExecutionProofs --------------------------
(***************************************************************************)
(* Theorems about one execution: about Execution, for any number of        *)
(* workers, attempts, deliveries and faults; and about HttpCall, for any   *)
(* jobs, URLs and answers of the targets.                                  *)
(***************************************************************************)
EXTENDS Execution, HttpCall, WellFoundedInduction, TLAPS

-----------------------------------------------------------------------------
(* The shape of the state.                                                 *)

Entry == [carries : Nat, state : {"new", "pending", "acked"}, deliveries : Nat, retries : Nat]
Steps == {"idle", "begin", "call", "settle", "record", "report", "ack", "handoff", "check",
          "resettle", "rerecord", "rereport", "drop"}

\* Who works has an entry, and who is about to conclude has a final status.
Held ==
  \A a \in Actors :
    /\ pc[a] # "idle" => holds[a] \in 1 .. Len(entries)
    /\ pc[a] = "settle" => out[a] \in {"success", "failed_permanent", "retryable"}
    /\ pc[a] \in {"record", "rerecord", "report", "rereport"} => out[a] \in Final

Shape == TypeOK /\ Held

LEMMA Constants ==
  /\ "recovery" \notin Workers /\ "recovery" \in Actors /\ Workers \subseteq Actors
  /\ MaxAttempts \in Nat \ {0} /\ FirstCarries \subseteq {Missing, 1} /\ MaxFaults \in Nat
BY ExecutionAssumption DEF Actors

\* A step of one actor, seen by all.
LEMMA GotoShape ==
  ASSUME Shape, NEW a \in Actors, NEW place \in Steps, Goto(a, place)
  PROVE  /\ pc' \in [Actors -> Steps] /\ holds' = holds
         /\ \A b \in Actors : pc'[b] = IF b = a THEN place ELSE pc[b]
BY DEF Shape, TypeOK, Goto, Steps

LEMMA LeaveShape ==
  ASSUME Shape, NEW a \in Actors, Leave(a)
  PROVE  /\ pc' \in [Actors -> Steps] /\ holds' \in [Actors -> 0 .. Len(entries)]
         /\ out' \in [Actors -> {"none", "retryable"} \cup Final]
         /\ lock' \in Workers \cup {"none"}
         /\ \A b \in Actors : /\ pc'[b] = IF b = a THEN "idle" ELSE pc[b]
                              /\ holds'[b] = IF b = a THEN 0 ELSE holds[b]
                              /\ out'[b] = IF b = a THEN "none" ELSE out[b]
<1>1. /\ pc \in [Actors -> Steps] /\ holds \in [Actors -> 0 .. Len(entries)]
      /\ out \in [Actors -> {"none", "retryable"} \cup Final]
      /\ lock \in Workers \cup {"none"} /\ Len(entries) \in Nat
  BY DEF Shape, TypeOK, Steps
<1>2. /\ pc' = [pc EXCEPT ![a] = "idle"] /\ holds' = [holds EXCEPT ![a] = 0]
      /\ out' = [out EXCEPT ![a] = "none"] /\ lock' = IF lock = a THEN "none" ELSE lock
  BY DEF Leave
<1>3. "idle" \in Steps /\ 0 \in 0 .. Len(entries)
  BY <1>1 DEF Steps
<1> QED BY <1>1, <1>2, <1>3

\* One entry of the stream is changed.
LEMMA EntryShape ==
  ASSUME NEW E \in Seq(Entry), NEW i \in 1 .. Len(E), NEW e \in Entry, NEW F,
         F = [E EXCEPT ![i] = e]
  PROVE  /\ F \in Seq(Entry) /\ Len(F) = Len(E) /\ DOMAIN F = 1 .. Len(E)
         /\ \A k \in 1 .. Len(E) : F[k] = IF k = i THEN e ELSE E[k]
<1> HIDE DEF Entry
<1> QED OBVIOUS

\* What the actions do to one entry.
LEMMA FieldShape ==
  ASSUME NEW x \in Entry
  PROVE  /\ [x EXCEPT !.retries = @ + 1] \in Entry
         /\ [x EXCEPT !.retries = @ + 1].state = x.state
         /\ [x EXCEPT !.retries = @ + 1].carries = x.carries
         /\ [x EXCEPT !.deliveries = @ + 1] \in Entry
         /\ [x EXCEPT !.deliveries = @ + 1].state = x.state
         /\ [x EXCEPT !.deliveries = @ + 1].carries = x.carries
         /\ [x EXCEPT !.state = "acked"] \in Entry
         /\ [x EXCEPT !.state = "acked"].state = "acked"
         /\ [x EXCEPT !.state = "acked"].carries = x.carries
         /\ [x EXCEPT !.state = "pending", !.deliveries = 1] \in Entry
         /\ [x EXCEPT !.state = "pending", !.deliveries = 1].state = "pending"
         /\ [x EXCEPT !.state = "pending", !.deliveries = 1].carries = x.carries
<1>1. PICK c \in Nat, s \in {"new", "pending", "acked"}, d \in Nat, r \in Nat :
        x = [carries |-> c, state |-> s, deliveries |-> d, retries |-> r]
  BY DEF Entry
<1>2. d + 1 \in Nat /\ r + 1 \in Nat /\ 1 \in Nat
  OBVIOUS
<1> QED BY <1>1, <1>2 DEF Entry

LEMMA EntriesShape ==
  ASSUME Shape
  PROVE  /\ entries \in Seq(Entry) /\ Len(entries) \in Nat /\ DOMAIN entries = 1 .. Len(entries)
         /\ \A i \in 1 .. Len(entries) : entries[i] \in Entry
<1>1. entries \in Seq(Entry)
  BY DEF Shape, TypeOK, Entry
<1> QED BY <1>1

\* A retry only counts.
LEMMA RetryWaitShape ==
  ASSUME Shape, NEW a \in Actors, pc[a] # "idle", RetryWait(a)
  PROVE  /\ entries' \in Seq(Entry) /\ Len(entries') = Len(entries)
         /\ status' = "retry_wait" /\ attempt' = attempt + 1 /\ computes' = computes
         /\ \A k \in 1 .. Len(entries) : /\ entries'[k].state = entries[k].state
                                         /\ entries'[k].carries = entries[k].carries
<1>1. holds[a] \in 1 .. Len(entries) /\ entries \in Seq(Entry)
  BY EntriesShape DEF Shape, Held
<1>2. PICK i \in 1 .. Len(entries) : i = holds[a]
  BY <1>1
<1>3. entries[i] \in Entry
  BY <1>1
<1>4. PICK e \in Entry : /\ e = [entries[i] EXCEPT !.retries = @ + 1]
                       /\ e.state = entries[i].state /\ e.carries = entries[i].carries
  BY <1>3, FieldShape
<1>5. entries' = [entries EXCEPT ![i] = e]
  BY <1>2, <1>4 DEF RetryWait
<1>6. /\ entries' \in Seq(Entry) /\ Len(entries') = Len(entries)
      /\ \A k \in 1 .. Len(entries) : entries'[k] = IF k = i THEN e ELSE entries[k]
  BY <1>1, <1>5, EntryShape
<1> QED BY <1>4, <1>6 DEF RetryWait

\* Taking and claiming make an entry pending, and acknowledging ends it.
LEMMA TakeShape ==
  ASSUME Shape, NEW w \in Workers, NEW i \in DOMAIN entries, Take(w, i)
  PROVE  /\ entries' \in Seq(Entry) /\ Len(entries') = Len(entries)
         /\ \A k \in 1 .. Len(entries) :
              /\ entries'[k].state = IF k = i THEN "pending" ELSE entries[k].state
              /\ entries'[k].carries = entries[k].carries
<1>1. i \in 1 .. Len(entries) /\ entries \in Seq(Entry) /\ entries[i] \in Entry
  BY EntriesShape
<1>2. PICK e \in Entry : /\ e = [entries[i] EXCEPT !.state = "pending", !.deliveries = 1]
                       /\ e.state = "pending" /\ e.carries = entries[i].carries
  BY <1>1, FieldShape
<1>3. entries' = [entries EXCEPT ![i] = e]
  BY <1>1, <1>2 DEF Take
<1>4. /\ entries' \in Seq(Entry) /\ Len(entries') = Len(entries)
      /\ \A k \in 1 .. Len(entries) : entries'[k] = IF k = i THEN e ELSE entries[k]
  BY <1>1, <1>3, EntryShape
<1> QED BY <1>2, <1>4

LEMMA ClaimShape ==
  ASSUME Shape, NEW i \in DOMAIN entries, Claim(i)
  PROVE  /\ entries' \in Seq(Entry) /\ Len(entries') = Len(entries)
         /\ \A k \in 1 .. Len(entries) : /\ entries'[k].state = entries[k].state
                                         /\ entries'[k].carries = entries[k].carries
<1>1. i \in 1 .. Len(entries) /\ entries \in Seq(Entry) /\ entries[i] \in Entry
  BY EntriesShape
<1>2. PICK e \in Entry : /\ e = [entries[i] EXCEPT !.deliveries = @ + 1]
                       /\ e.state = entries[i].state /\ e.carries = entries[i].carries
  BY <1>1, FieldShape
<1>3. entries' = [entries EXCEPT ![i] = e]
  BY <1>2 DEF Claim
<1>4. /\ entries' \in Seq(Entry) /\ Len(entries') = Len(entries)
      /\ \A k \in 1 .. Len(entries) : entries'[k] = IF k = i THEN e ELSE entries[k]
  BY <1>1, <1>3, EntryShape
<1> QED BY <1>2, <1>4

LEMMA AckShape ==
  ASSUME Shape, NEW a \in Actors, Ack(a)
  PROVE  /\ entries' \in Seq(Entry) /\ Len(entries') = Len(entries)
         /\ holds[a] \in 1 .. Len(entries)
         /\ \A k \in 1 .. Len(entries) :
              /\ entries'[k].state = IF k = holds[a] THEN "acked" ELSE entries[k].state
              /\ entries'[k].carries = entries[k].carries
<1>1. holds[a] \in 1 .. Len(entries) /\ entries \in Seq(Entry)
  BY EntriesShape DEF Shape, Held, Ack
<1>2. PICK i \in 1 .. Len(entries) : i = holds[a]
  BY <1>1
<1>3. entries[i] \in Entry
  BY <1>1
<1>4. PICK e \in Entry : /\ e = [entries[i] EXCEPT !.state = "acked"]
                       /\ e.state = "acked" /\ e.carries = entries[i].carries
  BY <1>3, FieldShape
<1>5. entries' = [entries EXCEPT ![i] = e]
  BY <1>2, <1>4 DEF Ack
<1>6. /\ entries' \in Seq(Entry) /\ Len(entries') = Len(entries)
      /\ \A k \in 1 .. Len(entries) : entries'[k] = IF k = i THEN e ELSE entries[k]
  BY <1>1, <1>5, EntryShape
<1> QED BY <1>1, <1>2, <1>4, <1>6

\* A push appends a new entry, for the attempt or, the first, without it.
LEMMA PushShape ==
  ASSUME Shape, NEW n \in due, Push(n)
  PROVE  /\ entries' \in Seq(Entry) /\ Len(entries') = Len(entries) + 1
         /\ \A k \in 1 .. Len(entries) : entries'[k] = entries[k]
         /\ entries'[Len(entries) + 1].state = "new"
         /\ \/ entries'[Len(entries) + 1].carries = n
            \/ n = 1 /\ entries'[Len(entries) + 1].carries = Missing
               /\ Missing \in FirstCarries
<1>1. n \in Nat \ {0} /\ entries \in Seq(Entry)
  BY DEF Shape, TypeOK, Entry
<1>2. PICK c \in (IF n = 1 THEN FirstCarries ELSE {n}) :
        entries' = Append(entries, [carries |-> c, state |-> "new",
                                    deliveries |-> 0, retries |-> 0])
  BY DEF Push
<1>3. c \in Nat /\ (c = n \/ (n = 1 /\ c = Missing /\ Missing \in FirstCarries))
  BY <1>1, <1>2, Constants DEF Missing
<1>4. PICK e \in Entry : e = [carries |-> c, state |-> "new", deliveries |-> 0, retries |-> 0]
  BY <1>3 DEF Entry
<1>5. e.state = "new" /\ e.carries = c
  BY <1>4
<1>6. /\ entries' \in Seq(Entry) /\ Len(entries') = Len(entries) + 1
      /\ \A k \in 1 .. Len(entries) : entries'[k] = entries[k]
      /\ entries'[Len(entries) + 1] = e
  <2>1. entries' = Append(entries, e)
    BY <1>2, <1>4
  <2> HIDE DEF Entry
  <2> QED BY <1>1, <2>1
<1> QED BY <1>3, <1>5, <1>6

\* The part of the shape that is not the actors'.
Plain ==
  /\ computes \in BOOLEAN
  /\ status \in {"queued", "running", "retry_wait"} \cup Final
  /\ attempt \in Nat \ {0}
  /\ enabled \in BOOLEAN
  /\ hash \in {"none", "running"} \cup Final
  /\ due \subseteq Nat \ {0}
  /\ entries \in Seq(Entry)
  /\ results \in Seq({"running"} \cup Final)
  /\ clearing \in BOOLEAN
  /\ calls \in Nat /\ reports \in Nat /\ concluded \in BOOLEAN
  /\ faults \in 0 .. MaxFaults

LEMMA PlainShape == Shape => Plain
BY DEF Shape, TypeOK, Plain, Entry

\* The shape survives a step of one actor that leaves the others alone.
LEMMA ActorStep ==
  ASSUME Shape, Plain', NEW a \in Actors,
         pc' \in [Actors -> Steps], holds' \in [Actors -> 0 .. Len(entries')],
         out' \in [Actors -> {"none", "retryable"} \cup Final],
         lock' \in Workers \cup {"none"}, Len(entries) <= Len(entries'),
         \A b \in Actors : b # a =>
           pc'[b] = pc[b] /\ holds'[b] = holds[b] /\ out'[b] = out[b],
         pc'[a] # "idle" => holds'[a] \in 1 .. Len(entries'),
         pc'[a] = "settle" => out'[a] \in {"success", "failed_permanent", "retryable"},
         pc'[a] \in {"record", "rerecord", "report", "rereport"} => out'[a] \in Final
  PROVE  Shape'
<1>1. TypeOK'
  BY DEF Plain, TypeOK, Entry, Steps
<1>2. Len(entries) \in Nat /\ Len(entries') \in Nat
  BY PlainShape DEF Plain
<1>3. ASSUME NEW b \in Actors
      PROVE  /\ pc'[b] # "idle" => holds'[b] \in 1 .. Len(entries')
             /\ pc'[b] = "settle" => out'[b] \in {"success", "failed_permanent", "retryable"}
             /\ pc'[b] \in {"record", "rerecord", "report", "rereport"} => out'[b] \in Final
  <2>1. CASE b = a
    BY <2>1
  <2>2. CASE b # a
    BY <1>2, <2>2 DEF Shape, Held
  <2> QED BY <2>1, <2>2
<1> QED BY <1>1, <1>3 DEF Shape, Held

LEMMA LeaveKeepsShape ==
  ASSUME Shape, Plain', NEW a \in Actors, Leave(a), Len(entries') = Len(entries)
  PROVE  Shape'
<1>1. /\ pc' \in [Actors -> Steps] /\ holds' \in [Actors -> 0 .. Len(entries)]
      /\ out' \in [Actors -> {"none", "retryable"} \cup Final]
      /\ lock' \in Workers \cup {"none"}
      /\ \A b \in Actors : /\ pc'[b] = IF b = a THEN "idle" ELSE pc[b]
                           /\ holds'[b] = IF b = a THEN 0 ELSE holds[b]
                           /\ out'[b] = IF b = a THEN "none" ELSE out[b]
  BY LeaveShape
<1>2. pc'[a] = "idle" /\ Len(entries) \in Nat
  BY <1>1, PlainShape DEF Plain
<1> QED BY <1>1, <1>2, ActorStep

LEMMA GotoKeepsShape ==
  ASSUME Shape, Plain', NEW a \in Actors, pc[a] # "idle", NEW place \in Steps, Goto(a, place),
         Len(entries') = Len(entries), lock' \in Workers \cup {"none"},
         out' \in [Actors -> {"none", "retryable"} \cup Final],
         \A b \in Actors : b # a => out'[b] = out[b],
         place = "settle" => out'[a] \in {"success", "failed_permanent", "retryable"},
         place \in {"record", "rerecord", "report", "rereport"} => out'[a] \in Final
  PROVE  Shape'
<1>1. /\ pc' \in [Actors -> Steps] /\ holds' = holds
      /\ \A b \in Actors : pc'[b] = IF b = a THEN place ELSE pc[b]
  BY GotoShape
<1>2. holds' \in [Actors -> 0 .. Len(entries')] /\ holds'[a] \in 1 .. Len(entries')
      /\ Len(entries) \in Nat
  BY <1>1, PlainShape DEF Shape, TypeOK, Held, Plain
<1> QED BY <1>1, <1>2, ActorStep

LEMMA RestKeepsShape ==
  ASSUME Shape, Plain', Len(entries) <= Len(entries'), UNCHANGED <<actorVars, lock>>
  PROVE  Shape'
<1>1. Len(entries) \in Nat /\ Len(entries') \in Nat
  BY PlainShape DEF Plain
<1>2. TypeOK'
  BY <1>1 DEF Shape, TypeOK, Plain, Entry, actorVars
<1>3. Held'
  BY <1>1 DEF Shape, Held, actorVars
<1> QED BY <1>2, <1>3 DEF Shape

LEMMA ShapeInit == Init => Shape
<1> SUFFICES ASSUME Init PROVE Shape
  OBVIOUS
<1>1. entries = << >> /\ << >> \in Seq(Entry) /\ Len(entries) = 0
  BY DEF Init
<1>2. computes \in BOOLEAN /\ 0 \in 0 .. MaxFaults
  BY ExecutionAssumption DEF Init
<1>3. TypeOK
  <2>1. Plain
    <3>1. 1 \in Nat \ {0} /\ {1} \subseteq Nat \ {0} /\ << >> \in Seq({"running"} \cup Final)
      OBVIOUS
    <3> HIDE DEF Entry
    <3> QED BY <1>1, <1>2, <3>1 DEF Init, Plain
  <2>2. /\ pc \in [Actors -> Steps] /\ holds \in [Actors -> 0 .. Len(entries)]
        /\ out \in [Actors -> {"none", "retryable"} \cup Final] /\ lock \in Workers \cup {"none"}
    BY <1>1 DEF Init, Steps
  <2> QED BY <2>1, <2>2 DEF Plain, TypeOK, Entry, Steps
<1>4. Held
  BY DEF Init, Held
<1> QED BY <1>3, <1>4 DEF Shape

LEMMA ShapeNext == Shape /\ [Next]_vars => Shape'
<1> SUFFICES ASSUME Shape, [Next]_vars PROVE Shape'
  OBVIOUS
<1>0. /\ Plain /\ Len(entries) \in Nat /\ MaxFaults \in Nat
      /\ Workers \subseteq Actors /\ "recovery" \in Actors
      /\ out \in [Actors -> {"none", "retryable"} \cup Final]
      /\ lock \in Workers \cup {"none"}
      /\ pc \in [Actors -> Steps]
  BY PlainShape, Constants DEF Plain, Shape, TypeOK, Steps
<1>f. Fault \/ UNCHANGED faults => faults' \in 0 .. MaxFaults
  BY <1>0 DEF Plain, Fault
<1>1. CASE RetrySweep
  <2>1. Plain'
    BY <1>0, <1>1 DEF Plain, RetrySweep, history
  <2> QED BY <1>0, <1>1, <2>1, RestKeepsShape DEF RetrySweep
<1>2. ASSUME NEW n \in due, Push(n) PROVE Shape'
  <2>1. entries' \in Seq(Entry) /\ Len(entries') = Len(entries) + 1
    BY <1>2, PushShape
  <2>2. Plain'
    BY <1>0, <1>2, <2>1 DEF Plain, Push, history, rowVars
  <2> QED BY <1>0, <1>2, <2>1, <2>2, RestKeepsShape DEF Push
<1>3. ASSUME NEW w \in Workers, NEW i \in DOMAIN entries, Take(w, i) PROVE Shape'
  <2>1. entries' \in Seq(Entry) /\ Len(entries') = Len(entries) /\ i \in 1 .. Len(entries)
    BY <1>3, TakeShape, EntriesShape
  <2>2. Plain'
    BY <1>0, <1>3, <2>1 DEF Plain, Take, history, rowVars
  <2>3. /\ pc' = [pc EXCEPT ![w] = "begin"] /\ holds' = [holds EXCEPT ![w] = i]
        /\ UNCHANGED <<out, lock>>
    BY <1>3 DEF Take
  <2>4. holds \in [Actors -> 0 .. Len(entries)] /\ "begin" \in Steps
    BY DEF Shape, TypeOK, Steps
  <2> QED BY <1>0, <2>1, <2>2, <2>3, <2>4, ActorStep
<1>4. ASSUME NEW w \in Workers, Begin(w) PROVE Shape'
  <2>1. Plain'
    <3>1. hash' \in {"none", "running"} \cup Final /\ faults' \in 0 .. MaxFaults
      BY <1>0, <1>4, <1>f DEF Plain, Begin
    <3>2. results' \in Seq({"running"} \cup Final)
      BY <1>0, <1>4 DEF Plain, Begin
    <3> QED BY <1>0, <1>4, <3>1, <3>2 DEF Plain, Begin, history, rowVars
  <2>2. pc[w] # "idle" /\ Goto(w, "call") /\ "call" \in Steps /\ UNCHANGED <<out, lock, entries>>
    BY <1>4 DEF Begin, At, Steps
  <2> QED BY <1>0, <2>1, <2>2, GotoKeepsShape
<1>5. ASSUME NEW w \in Workers, BeginFails(w) PROVE Shape'
  <2>1. Plain'
    BY <1>0, <1>5, <1>f DEF Plain, BeginFails, history, rowVars
  <2> QED BY <1>0, <1>5, <2>1, LeaveKeepsShape DEF BeginFails
<1>6. ASSUME NEW w \in Workers, Call(w) PROVE Shape'
  <2>1. Plain'
    BY <1>0, <1>6 DEF Plain, Call, rowVars
  <2>2. /\ pc[w] # "idle" /\ Goto(w, "settle") /\ "settle" \in Steps /\ UNCHANGED <<lock, entries>>
        /\ \E o \in {"success", "failed_permanent", "retryable"} : out' = [out EXCEPT ![w] = o]
    BY <1>6 DEF Call, At, Steps
  <2>3. PICK o \in {"success", "failed_permanent", "retryable"} : out' = [out EXCEPT ![w] = o]
    BY <2>2
  <2>4. o \in {"none", "retryable"} \cup Final
    BY DEF Final
  <2> QED BY <1>0, <2>1, <2>2, <2>3, <2>4, GotoKeepsShape
<1>7. ASSUME NEW w \in Workers, SettleFinal(w) PROVE Shape'
  <2>1. Plain'
    BY <1>0, <1>7, ExecutionAssumption DEF Plain, SettleFinal, DisableOnce, history, rowVars
  <2>2. /\ pc[w] = "settle" /\ Goto(w, "record") /\ "record" \in Steps /\ UNCHANGED <<lock, entries>>
        /\ out' = [out EXCEPT ![w] = IF @ = "retryable" THEN "failed_max_retries" ELSE @]
    BY <1>7 DEF SettleFinal, At, Steps
  <2>3. PICK o \in Final : o = IF out[w] = "retryable" THEN "failed_max_retries" ELSE out[w]
    BY <1>0, <2>2 DEF Shape, Held, Final
  <2>4. out' = [out EXCEPT ![w] = o]
    BY <2>2, <2>3
  <2> QED BY <1>0, <2>1, <2>2, <2>3, <2>4, GotoKeepsShape
<1>8. ASSUME NEW w \in Workers, SettleRetry(w) PROVE Shape'
  <2>1. pc[w] # "idle" /\ Goto(w, "ack") /\ "ack" \in Steps /\ UNCHANGED <<out, lock>> /\ RetryWait(w)
    BY <1>8 DEF SettleRetry, At, Steps
  <2>2. /\ entries' \in Seq(Entry) /\ Len(entries') = Len(entries)
        /\ status' = "retry_wait" /\ attempt' = attempt + 1 /\ computes' = computes
    BY <1>0, <2>1, RetryWaitShape
  <2>3. Plain'
    BY <1>0, <1>8, <2>2 DEF Plain, SettleRetry, history
  <2> QED BY <1>0, <2>1, <2>2, <2>3, GotoKeepsShape
<1>9. ASSUME NEW w \in Workers, SettleFails(w) PROVE Shape'
  <2>1. Plain'
    BY <1>0, <1>9, <1>f DEF Plain, SettleFails, history, rowVars
  <2>2. pc[w] # "idle" /\ Goto(w, "handoff") /\ "handoff" \in Steps /\ UNCHANGED <<out, lock, entries>>
    BY <1>9 DEF SettleFails, At, Steps
  <2> QED BY <1>0, <2>1, <2>2, GotoKeepsShape
<1>10. ASSUME NEW w \in Workers, Handoff(w) PROVE Shape'
  <2>1. Plain'
    BY <1>0, <1>10 DEF Plain, Handoff, history, rowVars
  <2>2. CASE lock = "none"
    <3>1. pc[w] # "idle" /\ Goto(w, "check") /\ "check" \in Steps /\ UNCHANGED <<out, entries>>
          /\ lock' \in Workers \cup {"none"}
      BY <1>10, <2>2 DEF Handoff, At, Steps
    <3> QED BY <1>0, <2>1, <3>1, GotoKeepsShape
  <2>3. CASE lock # "none"
    BY <1>0, <1>10, <2>1, <2>3, LeaveKeepsShape DEF Handoff
  <2> QED BY <2>2, <2>3
<1>11. ASSUME NEW i \in DOMAIN entries, Claim(i) PROVE Shape'
  <2>1. entries' \in Seq(Entry) /\ Len(entries') = Len(entries) /\ i \in 1 .. Len(entries)
    BY <1>11, ClaimShape, EntriesShape
  <2>2. Plain'
    BY <1>0, <1>11, <1>f, <2>1 DEF Plain, Claim, history, rowVars
  <2>3. /\ pc' = [pc EXCEPT !["recovery"] = "check"] /\ holds' = [holds EXCEPT !["recovery"] = i]
        /\ UNCHANGED <<out, lock>>
    BY <1>11 DEF Claim
  <2>4. holds \in [Actors -> 0 .. Len(entries)] /\ "check" \in Steps
    BY DEF Shape, TypeOK, Steps
  <2> QED BY <1>0, <2>1, <2>2, <2>3, <2>4, ActorStep
<1>12. ASSUME NEW a \in Actors, Check(a) PROVE Shape'
  <2>1. Plain'
    BY <1>0, <1>12, <1>f DEF Plain, Check, history, rowVars
  <2>2. /\ pc[a] # "idle" /\ UNCHANGED <<lock, entries>>
        /\ \/ Goto(a, "drop") /\ UNCHANGED out
           \/ Goto(a, "rerecord") /\ out' = [out EXCEPT ![a] = "failed_max_retries"]
           \/ Goto(a, "resettle") /\ UNCHANGED out
    BY <1>12 DEF Check, At
  <2>3. "drop" \in Steps /\ "rerecord" \in Steps /\ "resettle" \in Steps /\ "failed_max_retries" \in Final
    BY DEF Steps, Final
  <2>4. CASE Goto(a, "drop") /\ UNCHANGED out
    BY <1>0, <2>1, <2>2, <2>3, <2>4, GotoKeepsShape
  <2>5. CASE Goto(a, "rerecord") /\ out' = [out EXCEPT ![a] = "failed_max_retries"]
    BY <1>0, <2>1, <2>2, <2>3, <2>5, GotoKeepsShape
  <2>6. CASE Goto(a, "resettle") /\ UNCHANGED out
    BY <1>0, <2>1, <2>2, <2>3, <2>6, GotoKeepsShape
  <2> QED BY <2>2, <2>4, <2>5, <2>6
<1>13. ASSUME NEW a \in Actors, ResettleRetry(a) PROVE Shape'
  <2>1. pc[a] # "idle" /\ Goto(a, "drop") /\ "drop" \in Steps /\ UNCHANGED <<out, lock>> /\ RetryWait(a)
    BY <1>13 DEF ResettleRetry, At, Steps
  <2>2. /\ entries' \in Seq(Entry) /\ Len(entries') = Len(entries)
        /\ status' = "retry_wait" /\ attempt' = attempt + 1 /\ computes' = computes
    BY <2>1, RetryWaitShape
  <2>3. Plain'
    BY <1>0, <1>13, <2>2 DEF Plain, ResettleRetry, history
  <2> QED BY <1>0, <2>1, <2>2, <2>3, GotoKeepsShape
<1>14. ASSUME NEW a \in Actors, ResettleFinal(a) PROVE Shape'
  <2>1. Plain'
    BY <1>0, <1>14, ExecutionAssumption DEF Plain, ResettleFinal, DisableOnce, history, rowVars
  <2>2. /\ pc[a] # "idle" /\ Goto(a, "rerecord") /\ UNCHANGED <<lock, entries>>
        /\ out' = [out EXCEPT ![a] = "failed_max_retries"]
        /\ "rerecord" \in Steps /\ "failed_max_retries" \in Final
    BY <1>14 DEF ResettleFinal, At, Steps, Final
  <2> QED BY <1>0, <2>1, <2>2, GotoKeepsShape
<1>15. ASSUME NEW a \in Actors, ResettleFails(a) PROVE Shape'
  <2>1. Plain'
    BY <1>0, <1>15, <1>f DEF Plain, ResettleFails, history, rowVars
  <2> QED BY <1>0, <1>15, <2>1, LeaveKeepsShape DEF ResettleFails
<1>16. ASSUME NEW a \in Actors, Record(a) PROVE Shape'
  <2>1. out[a] \in Final
    BY <1>16 DEF Record, Shape, Held
  <2>2. Plain'
    BY <1>0, <1>16, <1>f, <2>1 DEF Plain, Record, rowVars
  <2>3. /\ pc[a] # "idle" /\ UNCHANGED <<out, lock, entries>>
        /\ Goto(a, "report") \/ Goto(a, "rereport")
        /\ "report" \in Steps /\ "rereport" \in Steps
    BY <1>16 DEF Record, After, Steps
  <2>4. CASE Goto(a, "report")
    BY <1>0, <2>1, <2>2, <2>3, <2>4, GotoKeepsShape
  <2>5. CASE Goto(a, "rereport")
    BY <1>0, <2>1, <2>2, <2>3, <2>5, GotoKeepsShape
  <2> QED BY <2>3, <2>4, <2>5
<1>17. ASSUME NEW a \in Actors, Report(a) PROVE Shape'
  <2>1. out[a] \in Final
    BY <1>17 DEF Report, Shape, Held
  <2>2. Plain'
    <3>1. results' \in Seq({"running"} \cup Final)
      BY <1>0, <1>17, <2>1 DEF Plain, Report
    <3> QED BY <1>0, <1>17, <3>1 DEF Plain, Report, rowVars
  <2>3. /\ pc[a] # "idle" /\ UNCHANGED <<out, lock, entries>>
        /\ Goto(a, "ack") \/ Goto(a, "drop")
        /\ "ack" \in Steps /\ "drop" \in Steps
    BY <1>17 DEF Report, After, Steps
  <2>4. CASE Goto(a, "ack")
    BY <1>0, <2>1, <2>2, <2>3, <2>4, GotoKeepsShape
  <2>5. CASE Goto(a, "drop")
    BY <1>0, <2>1, <2>2, <2>3, <2>5, GotoKeepsShape
  <2> QED BY <2>3, <2>4, <2>5
<1>18. ASSUME NEW a \in Actors, Ack(a) PROVE Shape'
  <2>1. entries' \in Seq(Entry) /\ Len(entries') = Len(entries)
    BY <1>18, AckShape
  <2>2. Plain'
    BY <1>0, <1>18, <2>1 DEF Plain, Ack, history, rowVars
  <2> QED BY <1>0, <1>18, <2>1, <2>2, LeaveKeepsShape DEF Ack
<1>19. ASSUME NEW a \in Actors, CallFails(a) PROVE Shape'
  <2>1. Plain'
    BY <1>0, <1>19, <1>f DEF Plain, CallFails, history, rowVars
  <2>2. /\ pc[a] # "idle" /\ UNCHANGED entries
        /\ (Goto(a, "handoff") /\ UNCHANGED <<out, lock>>) \/ Leave(a)
    BY <1>19 DEF CallFails
  <2>3. CASE Goto(a, "handoff") /\ UNCHANGED <<out, lock>>
    <3>1. "handoff" \in Steps
      BY DEF Steps
    <3> QED BY <1>0, <2>1, <2>2, <2>3, <3>1, GotoKeepsShape
  <2>4. CASE Leave(a)
    BY <1>0, <2>1, <2>2, <2>4, LeaveKeepsShape
  <2> QED BY <2>2, <2>3, <2>4
<1>20. ASSUME NEW a \in Actors, Crash(a) PROVE Shape'
  <2>1. Plain'
    BY <1>0, <1>20, <1>f DEF Plain, Crash, history, rowVars
  <2> QED BY <1>0, <1>20, <2>1, LeaveKeepsShape DEF Crash
<1>21. CASE Merge
  <2>1. Head(results) \in {"running"} \cup Final /\ Tail(results) \in Seq({"running"} \cup Final)
    BY <1>0, <1>21 DEF Plain, Merge
  <2>2. Plain'
    BY <1>0, <1>21, <2>1 DEF Plain, Merge, history
  <2> QED BY <1>0, <1>21, <2>2, RestKeepsShape DEF Merge
<1>22. CASE MergeClear \/ HashExpires
  <2>1. Plain'
    BY <1>0, <1>22, <1>f DEF Plain, MergeClear, HashExpires, history, rowVars
  <2> QED BY <1>0, <1>22, <2>1, RestKeepsShape DEF MergeClear, HashExpires
<1>23. CASE UNCHANGED vars
  <2>1. Plain' /\ UNCHANGED <<actorVars, lock, entries>>
    BY <1>0, <1>23 DEF Plain, vars, history, rowVars
  <2> QED BY <1>0, <2>1, RestKeepsShape
<1> QED
  BY <1>1, <1>2, <1>3, <1>4, <1>5, <1>6, <1>7, <1>8, <1>9, <1>10, <1>11, <1>12, <1>13, <1>14,
     <1>15, <1>16, <1>17, <1>18, <1>19, <1>20, <1>21, <1>22, <1>23
  DEF Next, WorkerStep, RecoveryStep

LEMMA ShapeAlways == Spec => []Shape
BY ShapeInit, ShapeNext, PTL DEF Spec

-----------------------------------------------------------------------------
(* An execution is never dropped.                                          *)

\* A retry waits, an attempt is on its way, or an entry after i is not
\* acknowledged.  More(0) is InMotion.
More(i) ==
  \/ status = "retry_wait"
  \/ due # {}
  \/ \E k \in 1 .. Len(entries) : k > i /\ entries[k].state # "acked"

\* While nothing is concluded there is no final status to be found, and who
\* acknowledges an entry leaves something behind that comes after it.
Alive ==
  ~concluded =>
    /\ status \notin Final /\ hash \notin Final
    /\ \A i \in 1 .. Len(results) : results[i] = "running"
    /\ \A a \in Actors : pc[a] \in {"ack", "drop"} => More(holds[a])
    /\ More(0)

LEMMA MoreIsMotion == Shape => (More(0) <=> InMotion)
<1> SUFFICES ASSUME Shape PROVE More(0) <=> InMotion
  OBVIOUS
<1>1. DOMAIN entries = 1 .. Len(entries) /\ \A k \in 1 .. Len(entries) : k > 0
  BY EntriesShape
<1> QED BY <1>1 DEF More, InMotion

\* A final status comes with concluded, and concluded stays.
LEMMA StillOpen ==
  ASSUME Shape, Alive, [Next]_vars, ~concluded'
  PROVE  /\ ~concluded /\ status' \notin Final /\ hash' \notin Final
         /\ \A i \in 1 .. Len(results') : results'[i] = "running"
<1>r. results \in Seq({"running"} \cup Final) /\ Len(results) \in Nat
  BY DEF Shape, TypeOK
<1>1. ASSUME NEW a \in Actors, Record(a) \/ Report(a)
      PROVE  ~concluded /\ UNCHANGED <<status, hash, results>>
  <2>1. ~Report(a)
    BY DEF Report
  <2>2. concluded' = concluded /\ UNCHANGED <<status, hash, results>>
    BY <1>1, <2>1 DEF Record, rowVars
  <2> QED BY <2>2
<1>2. ASSUME NEW w \in Workers, Begin(w)
      PROVE  /\ ~concluded /\ hash' \in {hash, "running"} /\ UNCHANGED status
             /\ results' = Append(results, "running")
  BY <1>2 DEF Begin, rowVars, history
<1>3. CASE Merge
  <2>1. ~concluded /\ UNCHANGED hash /\ results # << >> /\ results' = Tail(results)
    BY <1>3 DEF Merge, history
  <2>2. \A i \in 1 .. Len(results) : results[i] = "running"
    BY <2>1 DEF Alive
  <2>3. Head(results) = "running"
    BY <1>r, <2>1, <2>2
  <2>4. status' \notin Final
    BY <1>3, <2>1, <2>3 DEF Merge, Alive, Final
  <2>5. \A i \in 1 .. Len(results') : results'[i] = "running"
    <3>1. Len(results') = Len(results) - 1 /\ \A i \in 1 .. Len(results') : results'[i] = results[i + 1]
      BY <1>r, <2>1
    <3> QED BY <1>r, <2>2, <3>1
  <2> QED BY <2>1, <2>4, <2>5 DEF Alive
<1> DEFINE Other == /\ ~concluded /\ status' \in {status, "retry_wait", "queued"}
                    /\ UNCHANGED results /\ hash' \in {hash, "running", "none"}
<1>4. CASE \/ RetrySweep \/ MergeClear \/ HashExpires \/ UNCHANGED vars
           \/ (\E n \in due : Push(n)) \/ (\E i \in DOMAIN entries : Claim(i))
  <2>1. Other
    BY <1>4 DEF RetrySweep, MergeClear, HashExpires, vars, Push, Claim, rowVars, history
  <2> QED BY <2>1 DEF Alive, Final
<1>7. CASE \E w \in Workers : \/ \E i \in DOMAIN entries : Take(w, i)
                              \/ Call(w) \/ SettleFinal(w) \/ SettleRetry(w) \/ Handoff(w)
                              \/ SettleFails(w) \/ BeginFails(w)
  <2>1. ASSUME NEW w \in Workers, NEW i \in DOMAIN entries, Take(w, i) PROVE Other
    BY <2>1 DEF Take, rowVars, history
  <2>2. ASSUME NEW w \in Workers, SettleRetry(w) PROVE Other
    BY <2>2 DEF SettleRetry, RetryWait, history
  <2>3. ASSUME NEW w \in Workers, BeginFails(w) PROVE Other
    BY <2>3 DEF BeginFails, rowVars, history
  <2>4. ASSUME NEW w \in Workers, Call(w) \/ SettleFinal(w) \/ Handoff(w) \/ SettleFails(w)
        PROVE  Other
    BY <2>4 DEF Call, SettleFinal, Handoff, SettleFails, rowVars, history
  <2>5. Other
    BY <1>7, <2>1, <2>2, <2>3, <2>4
  <2> QED BY <2>5 DEF Alive, Final
<1>8. CASE \E a \in Actors : RecoveryStep(a) \/ Ack(a) \/ CallFails(a) \/ Crash(a)
  <2>1. ASSUME NEW a \in Actors, Check(a) PROVE Other
    BY <2>1 DEF Check, rowVars, history
  <2>2. ASSUME NEW a \in Actors, ResettleRetry(a) PROVE Other
    BY <2>2 DEF ResettleRetry, RetryWait, history
  <2>3. ASSUME NEW a \in Actors,
               ResettleFinal(a) \/ ResettleFails(a) \/ Ack(a) \/ CallFails(a) \/ Crash(a)
        PROVE  Other
    BY <2>3 DEF ResettleFinal, ResettleFails, Ack, CallFails, Crash, rowVars, history
  <2>4. Other
    BY <1>8, <2>1, <2>2, <2>3 DEF RecoveryStep
  <2> QED BY <2>4 DEF Alive, Final
<1>5. CASE \E a \in Actors : Record(a) \/ Report(a)
  BY <1>1, <1>5 DEF Alive
<1>6. CASE \E w \in Workers : Begin(w)
  <2>1. /\ ~concluded /\ hash' \in {hash, "running"} /\ UNCHANGED status
        /\ results' = Append(results, "running")
    BY <1>2, <1>6
  <2>2. \A i \in 1 .. Len(results') : results'[i] = "running"
    BY <1>r, <2>1 DEF Alive
  <2> QED BY <2>1, <2>2 DEF Alive, Final
<1> QED BY <1>3, <1>4, <1>5, <1>6, <1>7, <1>8 DEF Next, WorkerStep

\* What moves the execution after entry i is followed by something after i.
LEMMA MoreStays ==
  ASSUME Shape, Alive, [Next]_vars, ~concluded', NEW i \in Nat, i <= Len(entries), More(i)
  PROVE  More(i)'
<1>n. Len(entries) \in Nat /\ ~concluded
  BY EntriesShape, StillOpen
<1>1. ASSUME status' = "retry_wait" \/ due' # {} PROVE More(i)'
  BY <1>1 DEF More
<1>2. ASSUME Len(entries') = Len(entries), UNCHANGED due,
             status = "retry_wait" => status' = "retry_wait",
             \A k \in 1 .. Len(entries) : entries'[k].state = "acked" => entries[k].state = "acked"
      PROVE  More(i)'
  BY <1>2 DEF More
<1>3. CASE RetrySweep
  BY <1>1, <1>3 DEF RetrySweep
<1>4. ASSUME NEW n \in due, Push(n) PROVE More(i)'
  <2>1. Len(entries') = Len(entries) + 1 /\ entries'[Len(entries) + 1].state = "new"
    BY <1>4, PushShape
  <2>2. Len(entries) + 1 \in 1 .. Len(entries') /\ Len(entries) + 1 > i
    BY <1>n, <2>1
  <2> QED BY <2>1, <2>2 DEF More
<1>5. ASSUME NEW a \in Actors, Ack(a) PROVE More(i)'
  <2>1. /\ Len(entries') = Len(entries) /\ holds[a] \in 1 .. Len(entries)
        /\ \A k \in 1 .. Len(entries) :
             entries'[k].state = IF k = holds[a] THEN "acked" ELSE entries[k].state
    BY <1>5, AckShape
  <2>2. UNCHANGED <<due, status>> /\ More(holds[a])
    BY <1>5, <1>n DEF Ack, Alive, rowVars
  <2>3. CASE \E k \in 1 .. Len(entries) : k > i /\ k # holds[a] /\ entries[k].state # "acked"
    BY <2>1, <2>3 DEF More
  <2>4. CASE status = "retry_wait" \/ due # {}
    BY <1>1, <2>2, <2>4
  <2>5. CASE holds[a] > i /\ \E k \in 1 .. Len(entries) : k > holds[a] /\ entries[k].state # "acked"
    <3>1. PICK k \in 1 .. Len(entries) : k > holds[a] /\ entries[k].state # "acked"
      BY <2>5
    <3>2. k > i /\ k # holds[a]
      BY <1>n, <2>1, <2>5, <3>1
    <3> QED BY <2>3, <3>1, <3>2
  <2>6. \/ status = "retry_wait" \/ due # {}
        \/ \E k \in 1 .. Len(entries) : k > i /\ entries[k].state # "acked"
    BY DEF More
  <2> QED BY <2>2, <2>3, <2>4, <2>5, <2>6 DEF More
<1>6. CASE Merge
  <2>1. status = "retry_wait" => status' = "retry_wait"
    <3>1. /\ results \in Seq({"running"} \cup Final) /\ results # << >>
          /\ \A k \in 1 .. Len(results) : results[k] = "running"
      BY <1>6, <1>n DEF Shape, TypeOK, Merge, Alive
    <3>2. Head(results) = "running"
      BY <3>1
    <3> QED BY <1>6, <3>2 DEF Merge
  <2> QED BY <1>2, <1>6, <2>1 DEF Merge
<1>7. ASSUME NEW w \in Workers, NEW k \in DOMAIN entries, Take(w, k) PROVE More(i)'
  <2>1. UNCHANGED <<due, status>>
    BY <1>7 DEF Take, rowVars
  <2> QED BY <1>2, <1>7, <2>1, TakeShape
<1>8. ASSUME NEW k \in DOMAIN entries, Claim(k) PROVE More(i)'
  <2>1. UNCHANGED <<due, status>>
    BY <1>8 DEF Claim, rowVars
  <2> QED BY <1>2, <1>8, <2>1, ClaimShape
<1>9. ASSUME NEW a \in Actors, SettleRetry(a) \/ ResettleRetry(a) PROVE More(i)'
  BY <1>1, <1>9 DEF SettleRetry, ResettleRetry, RetryWait
<1>10. ASSUME \/ MergeClear \/ HashExpires \/ UNCHANGED vars
              \/ \E w \in Workers : \/ Begin(w) \/ Call(w) \/ SettleFinal(w) \/ Handoff(w)
                                    \/ SettleFails(w) \/ BeginFails(w)
              \/ \E a \in Actors : \/ Check(a) \/ ResettleFinal(a) \/ ResettleFails(a)
                                   \/ Record(a) \/ Report(a) \/ CallFails(a) \/ Crash(a)
       PROVE  More(i)'
  <2>1. UNCHANGED <<status, due, entries>>
    BY <1>10 DEF MergeClear, HashExpires, vars, Begin, Call, SettleFinal, Handoff, SettleFails,
       BeginFails, Check, ResettleFinal, ResettleFails, Record, Report, CallFails, Crash, rowVars
  <2> QED BY <1>2, <2>1
<1> QED
  BY <1>3, <1>4, <1>5, <1>6, <1>7, <1>8, <1>9, <1>10, Constants DEF Next, WorkerStep, RecoveryStep

\* Who comes to acknowledge an entry has left a retry behind.
LEMMA AckHasReason ==
  ASSUME Shape, Alive, [Next]_vars, ~concluded', NEW a \in Actors, pc'[a] \in {"ack", "drop"}
  PROVE  (pc[a] \in {"ack", "drop"} /\ holds'[a] = holds[a]) \/ status' = "retry_wait"
<1>o. ~concluded /\ status \notin Final /\ hash \notin Final
  BY StillOpen DEF Alive
<1>1. ASSUME NEW b \in Actors, NEW place \in Steps, Goto(b, place), place \notin {"ack", "drop"}
      PROVE  pc[a] \in {"ack", "drop"} /\ holds'[a] = holds[a]
  BY <1>1, GotoShape
<1>2. ASSUME NEW b \in Actors, Leave(b)
      PROVE  pc[a] \in {"ack", "drop"} /\ holds'[a] = holds[a]
  BY <1>2, LeaveShape
<1>3. ASSUME UNCHANGED <<pc, holds>>
      PROVE  pc[a] \in {"ack", "drop"} /\ holds'[a] = holds[a]
  BY <1>3
<1>s. Steps = {"idle", "begin", "call", "settle", "record", "report", "ack", "handoff", "check",
               "resettle", "rerecord", "rereport", "drop"}
  BY DEF Steps
<1>4. ASSUME NEW b \in Actors, Check(b)
      PROVE  pc[a] \in {"ack", "drop"} /\ holds'[a] = holds[a]
  <2>1. Goto(b, "rerecord") \/ Goto(b, "resettle")
    BY <1>4, <1>o DEF Check, Final
  <2> QED BY <1>1, <1>s, <2>1
<1>5. ASSUME NEW b \in Actors, Record(b)
      PROVE  pc[a] \in {"ack", "drop"} /\ holds'[a] = holds[a]
  <2>1. Goto(b, "report") \/ Goto(b, "rereport")
    BY <1>5 DEF Record, After
  <2> QED BY <1>1, <1>s, <2>1
<1>6. ASSUME NEW b \in Actors, SettleRetry(b) \/ ResettleRetry(b) PROVE status' = "retry_wait"
  BY <1>6 DEF SettleRetry, ResettleRetry, RetryWait
<1>7. ASSUME NEW w \in Workers,
             Begin(w) \/ Call(w) \/ SettleFinal(w) \/ SettleFails(w) \/ Handoff(w) \/ BeginFails(w)
      PROVE  pc[a] \in {"ack", "drop"} /\ holds'[a] = holds[a]
  <2>1. \/ Goto(w, "call") \/ Goto(w, "settle") \/ Goto(w, "record") \/ Goto(w, "handoff")
        \/ Goto(w, "check") \/ Leave(w)
    BY <1>7 DEF Begin, Call, SettleFinal, SettleFails, Handoff, BeginFails
  <2> QED BY <1>1, <1>2, <1>s, <2>1, Constants
<1>8. ASSUME NEW b \in Actors,
             ResettleFinal(b) \/ ResettleFails(b) \/ Ack(b) \/ CallFails(b) \/ Crash(b)
      PROVE  pc[a] \in {"ack", "drop"} /\ holds'[a] = holds[a]
  <2>1. Goto(b, "rerecord") \/ Goto(b, "handoff") \/ Leave(b)
    BY <1>8 DEF ResettleFinal, ResettleFails, Ack, CallFails, Crash
  <2> QED BY <1>1, <1>2, <1>s, <2>1
<1>9. ASSUME NEW b \in Actors, Report(b) PROVE FALSE
  BY <1>9 DEF Report
<1>10. ASSUME NEW b \in Actors, NEW i, \/ b \in Workers /\ Take(b, i)
                                       \/ b = "recovery" /\ Claim(i)
       PROVE  pc[a] \in {"ack", "drop"} /\ holds'[a] = holds[a]
  <2>1. \E place \in {"begin", "check"} : pc' = [pc EXCEPT ![b] = place]
    BY <1>10 DEF Take, Claim
  <2>2. holds' = [holds EXCEPT ![b] = i]
    BY <1>10 DEF Take, Claim
  <2>3. pc \in [Actors -> Steps] /\ DOMAIN holds = Actors
    BY DEF Shape, TypeOK, Steps
  <2>4. a # b
    BY <2>1, <2>3
  <2> QED BY <2>1, <2>2, <2>3, <2>4
<1>11. CASE \/ RetrySweep \/ Merge \/ MergeClear \/ HashExpires \/ UNCHANGED vars
            \/ \E n \in due : Push(n)
  <2>1. UNCHANGED <<pc, holds>>
    BY <1>11 DEF RetrySweep, Merge, MergeClear, HashExpires, vars, Push, actorVars
  <2> QED BY <1>3, <2>1
<1> QED
  BY <1>4, <1>5, <1>6, <1>7, <1>8, <1>9, <1>10, <1>11, Constants
  DEF Next, WorkerStep, RecoveryStep

LEMMA AliveInit == Init => Alive
BY DEF Init, Alive, More, Final

LEMMA AliveNext == Shape /\ Alive /\ [Next]_vars => Alive'
<1> SUFFICES ASSUME Shape, Alive, [Next]_vars, ~concluded'
             PROVE  /\ status' \notin Final /\ hash' \notin Final
                    /\ \A i \in 1 .. Len(results') : results'[i] = "running"
                    /\ \A a \in Actors : pc'[a] \in {"ack", "drop"} => More(holds[a])'
                    /\ More(0)'
  BY DEF Alive
<1>1. /\ ~concluded /\ status' \notin Final /\ hash' \notin Final
      /\ \A i \in 1 .. Len(results') : results'[i] = "running"
  BY StillOpen
<1>2. More(0)'
  <2>1. 0 \in Nat /\ 0 <= Len(entries) /\ More(0)
    BY <1>1, EntriesShape DEF Alive
  <2> QED BY <2>1, MoreStays
<1>3. ASSUME NEW a \in Actors, pc'[a] \in {"ack", "drop"} PROVE More(holds[a])'
  <2>1. CASE status' = "retry_wait"
    BY <2>1 DEF More
  <2>2. CASE pc[a] \in {"ack", "drop"} /\ holds'[a] = holds[a]
    <3>1. PICK i \in Nat : i = holds[a] /\ i <= Len(entries)
      BY EntriesShape DEF Shape, TypeOK
    <3>2. More(i)
      BY <1>1, <1>3, <2>2, <3>1 DEF Alive
    <3>3. More(i)'
      BY <3>1, <3>2, MoreStays
    <3> QED BY <2>2, <3>1, <3>3 DEF More
  <2> QED BY <1>3, <2>1, <2>2, AckHasReason
<1> QED BY <1>1, <1>2, <1>3

-----------------------------------------------------------------------------
(* Unless something fails, an execution is in one place.                   *)

\* A worker is on an attempt until it has left a retry or reported the end.
Busy(w)    == pc[w] \in {"begin", "call", "settle", "record", "report"}
Fresh(i)   == entries[i].state = "new"
Matches(i) == \/ entries[i].carries = attempt
              \/ entries[i].carries = Missing /\ attempt = 1
NoneBusy   == \A w \in Workers : ~Busy(w)
NoneFresh  == \A i \in 1 .. Len(entries) : ~Fresh(i)
NoneFinal  == \A i \in 1 .. Len(results) : results[i] \notin Final

\* Nobody but the worker that took an entry has it.
Alone ==
  /\ pc["recovery"] = "idle"
  /\ \A w \in Workers :
       /\ pc[w] \in {"idle", "begin", "call", "settle", "record", "report", "ack"}
       /\ pc[w] = "idle" => holds[w] = 0
  /\ \A i \in 1 .. Len(entries) :
       /\ entries[i].state = "pending" => \E w \in Workers : holds[w] = i
       /\ entries[i].carries = Missing => Missing \in FirstCarries

\* The current attempt waits, is on its way, is in the stream or is worked on;
\* or there is a final status, one, and none of these.
OnePlace ==
  /\ status = "retry_wait" => due = {} /\ NoneFresh /\ NoneBusy /\ NoneFinal
  /\ due # {} =>
       due = {attempt} /\ NoneFresh /\ NoneBusy /\ NoneFinal /\ status \notin Final
  /\ \A i \in 1 .. Len(entries) : Fresh(i) =>
       /\ Matches(i) /\ \A k \in 1 .. Len(entries) : Fresh(k) => k = i
       /\ NoneBusy /\ NoneFinal /\ status \notin Final
  /\ \A w \in Workers : Busy(w) =>
       /\ Matches(holds[w]) /\ \A v \in Workers : Busy(v) => v = w
       /\ NoneFinal /\ status \notin Final
  /\ status \in Final => NoneFinal
  /\ \A i, k \in 1 .. Len(results) : results[i] \in Final /\ results[k] \in Final => i = k
  /\ ~enabled => \/ \E w \in Workers : pc[w] \in {"record", "report"}
                 \/ ~NoneFinal \/ status \in Final

Orderly == Calm => Alone /\ OnePlace

\* Only these steps keep calm.
CalmAction ==
  \/ RetrySweep \/ Merge \/ MergeClear \/ UNCHANGED vars
  \/ \E n \in due : Push(n)
  \/ \E w \in Workers : \/ \E i \in DOMAIN entries : Take(w, i)
                        \/ Begin(w) \/ Call(w) \/ SettleFinal(w) \/ SettleRetry(w)
                        \/ Record(w) \/ Report(w) \/ Ack(w)

LEMMA CalmStep ==
  ASSUME Shape, Orderly, [Next]_vars, Calm'
  PROVE  CalmAction /\ Calm /\ Alone /\ OnePlace /\ UNCHANGED <<computes, faults>>
<1>1. faults \in Nat /\ faults' = 0 /\ ~computes'
  BY Constants DEF Shape, TypeOK, Calm
<1>2. ~Fault
  BY <1>1 DEF Fault
<1>3. UNCHANGED computes
  BY DEF Next, WorkerStep, RecoveryStep, vars, rowVars, RetryWait, RetrySweep, Merge, MergeClear,
     HashExpires, Push, Take, Begin, Call, SettleFinal, SettleRetry, Handoff, SettleFails,
     BeginFails, Claim, Check, ResettleRetry, ResettleFinal, ResettleFails, Record, Report, Ack,
     CallFails, Crash
<1>4. UNCHANGED faults
  BY <1>2 DEF Next, WorkerStep, RecoveryStep, vars, RetrySweep, Merge, MergeClear,
     HashExpires, Push, Take, Begin, Call, SettleFinal, SettleRetry, Handoff, SettleFails,
     BeginFails, Claim, Check, ResettleRetry, ResettleFinal, ResettleFails, Record, Report, Ack,
     CallFails, Crash
<1>5. Calm /\ Alone /\ OnePlace
  BY <1>1, <1>3, <1>4 DEF Calm, Orderly
<1>6. \A a \in Actors : pc[a] \in {"idle", "begin", "call", "settle", "record", "report", "ack"}
  BY <1>5 DEF Alone, Actors
<1>7. ASSUME NEW a \in Actors PROVE ~RecoveryStep(a) /\ ~CallFails(a) /\ ~Crash(a)
  BY <1>2, <1>6 DEF RecoveryStep, Check, ResettleRetry, ResettleFinal, ResettleFails, CallFails,
     Crash, At
<1>8. ASSUME NEW w \in Workers PROVE ~Handoff(w) /\ ~BeginFails(w) /\ ~SettleFails(w)
  BY <1>2, <1>5, <1>6, Constants DEF Handoff, BeginFails, SettleFails, At, NoDelay, Calm
<1>9. ASSUME NEW i \in DOMAIN entries PROVE ~Claim(i)
  BY <1>2, <1>5, EntriesShape DEF Claim, Alone
<1>10. ~HashExpires
  BY <1>2 DEF HashExpires
<1>11. \A a \in Actors : Record(a) \/ Report(a) \/ Ack(a) => a \in Workers
  BY <1>5 DEF Alone, Record, Report, Ack, Actors
<1> QED
  BY <1>3, <1>4, <1>5, <1>7, <1>8, <1>9, <1>10, <1>11 DEF Next, WorkerStep, CalmAction

\* Which steps each worker and the recovery process are at afterwards.
LEMMA AloneStays ==
  ASSUME Shape, Orderly, [Next]_vars, Calm'
  PROVE  Alone'
<1>0. CalmAction /\ Alone
  BY CalmStep
<1>c. /\ "recovery" \in Actors /\ "recovery" \notin Workers /\ Workers \subseteq Actors
      /\ Len(entries) \in Nat
  BY Constants, EntriesShape
<1>s. Steps = {"idle", "begin", "call", "settle", "record", "report", "ack", "handoff", "check",
               "resettle", "rerecord", "rereport", "drop"}
  BY DEF Steps
<1>1. ASSUME UNCHANGED <<pc, holds>>, Len(entries') = Len(entries),
             \A k \in 1 .. Len(entries) : /\ entries'[k].state = entries[k].state
                                          /\ entries'[k].carries = entries[k].carries
      PROVE  Alone'
  BY <1>0, <1>1 DEF Alone
<1>2. ASSUME NEW w \in Workers, NEW place \in {"call", "settle", "record", "report", "ack"},
             Goto(w, place), Len(entries') = Len(entries),
             \A k \in 1 .. Len(entries) : /\ entries'[k].state = entries[k].state
                                          /\ entries'[k].carries = entries[k].carries
      PROVE  Alone'
  <2>1. /\ holds' = holds
        /\ \A b \in Actors : pc'[b] = IF b = w THEN place ELSE pc[b]
    BY <1>2, <1>c, <1>s, GotoShape
  <2> QED BY <1>0, <1>2, <1>c, <2>1 DEF Alone
<1>3. CASE RetrySweep \/ Merge \/ MergeClear \/ UNCHANGED vars
  <2>1. UNCHANGED <<pc, holds, entries>>
    BY <1>3 DEF RetrySweep, Merge, MergeClear, vars, actorVars
  <2> QED BY <1>1, <2>1
<1>4. ASSUME NEW n \in due, Push(n) PROVE Alone'
  <2>1. /\ Len(entries') = Len(entries) + 1
        /\ \A k \in 1 .. Len(entries) : entries'[k] = entries[k]
        /\ entries'[Len(entries) + 1].state = "new"
        /\ \/ entries'[Len(entries) + 1].carries = n
           \/ Missing \in FirstCarries
    BY <1>4, PushShape
  <2>2. n # Missing
    BY <1>4 DEF Shape, TypeOK, Missing
  <2>3. UNCHANGED <<pc, holds>>
    BY <1>4 DEF Push, actorVars
  <2>4. \A k \in 1 .. Len(entries') : k \in 1 .. Len(entries) \/ k = Len(entries) + 1
    BY <1>c, <2>1
  <2> QED BY <1>0, <2>1, <2>2, <2>3, <2>4 DEF Alone
<1>5. ASSUME NEW w \in Workers, NEW i \in DOMAIN entries, Take(w, i) PROVE Alone'
  <2>1. /\ Len(entries') = Len(entries) /\ i \in 1 .. Len(entries)
        /\ \A k \in 1 .. Len(entries) :
             /\ entries'[k].state = IF k = i THEN "pending" ELSE entries[k].state
             /\ entries'[k].carries = entries[k].carries
    BY <1>5, TakeShape, EntriesShape
  <2>2. /\ pc[w] = "idle"
        /\ \A b \in Actors : /\ pc'[b] = IF b = w THEN "begin" ELSE pc[b]
                             /\ holds'[b] = IF b = w THEN i ELSE holds[b]
    BY <1>5, <1>c DEF Take, At, Shape, TypeOK
  <2>3. ASSUME NEW k \in 1 .. Len(entries), entries'[k].state = "pending"
        PROVE  \E v \in Workers : holds'[v] = k
    <3>1. CASE k = i
      BY <1>c, <2>2, <3>1
    <3>2. CASE k # i
      <4>1. PICK v \in Workers : holds[v] = k
        BY <1>0, <2>1, <2>3, <3>2 DEF Alone
      <4>2. v # w
        BY <1>0, <1>c, <2>2, <4>1 DEF Alone
      <4> QED BY <1>c, <2>2, <4>1, <4>2
    <3> QED BY <3>1, <3>2
  <2> QED BY <1>0, <1>c, <2>1, <2>2, <2>3 DEF Alone
<1>6. ASSUME NEW w \in Workers, Begin(w) \/ Call(w) \/ SettleFinal(w) \/ Record(w) \/ Report(w)
      PROVE  Alone'
  <2>1. UNCHANGED entries
    BY <1>6 DEF Begin, Call, SettleFinal, Record, Report
  <2>2. pc[w] \notin {"rerecord", "rereport"}
    BY <1>0 DEF Alone
  <2>3. \/ Goto(w, "call") \/ Goto(w, "settle") \/ Goto(w, "record") \/ Goto(w, "report")
        \/ Goto(w, "ack")
    BY <1>6, <2>2 DEF Begin, Call, SettleFinal, Record, Report, After
  <2> QED BY <1>2, <2>1, <2>3
<1>7. ASSUME NEW w \in Workers, SettleRetry(w) PROVE Alone'
  <2>1. /\ Len(entries') = Len(entries)
        /\ \A k \in 1 .. Len(entries) : /\ entries'[k].state = entries[k].state
                                        /\ entries'[k].carries = entries[k].carries
    <3>1. pc[w] # "idle" /\ RetryWait(w) /\ w \in Actors
      BY <1>7, <1>c DEF SettleRetry, At
    <3> QED BY <3>1, RetryWaitShape
  <2>2. Goto(w, "ack")
    BY <1>7 DEF SettleRetry
  <2> QED BY <1>2, <2>1, <2>2
<1>8. ASSUME NEW w \in Workers, Ack(w) PROVE Alone'
  <2>1. /\ Len(entries') = Len(entries)
        /\ \A k \in 1 .. Len(entries) :
             /\ entries'[k].state = IF k = holds[w] THEN "acked" ELSE entries[k].state
             /\ entries'[k].carries = entries[k].carries
    BY <1>8, <1>c, AckShape
  <2>2. \A b \in Actors : /\ pc'[b] = IF b = w THEN "idle" ELSE pc[b]
                          /\ holds'[b] = IF b = w THEN 0 ELSE holds[b]
    BY <1>8, <1>c, LeaveShape DEF Ack
  <2>3. ASSUME NEW k \in 1 .. Len(entries), entries'[k].state = "pending"
        PROVE  \E v \in Workers : holds'[v] = k
    <3>1. k # holds[w] /\ entries[k].state = "pending"
      BY <2>1, <2>3
    <3>2. PICK v \in Workers : holds[v] = k
      BY <1>0, <3>1 DEF Alone
    <3> QED BY <1>c, <2>2, <3>1, <3>2
  <2> QED BY <1>0, <1>c, <2>1, <2>2, <2>3 DEF Alone
<1> QED BY <1>0, <1>3, <1>4, <1>5, <1>6, <1>7, <1>8 DEF CalmAction

LEMMA OnePlaceStays ==
  ASSUME Shape, Orderly, [Next]_vars, Calm'
  PROVE  OnePlace'
<1>0. CalmAction /\ Alone /\ OnePlace
  BY CalmStep
<1>c. /\ Workers \subseteq Actors /\ Len(entries) \in Nat /\ Len(results) \in Nat
      /\ results \in Seq({"running"} \cup Final) /\ enabled \in BOOLEAN
      /\ due \subseteq Nat \ {0} /\ attempt \in Nat \ {0}
  BY Constants, EntriesShape DEF Shape, TypeOK
<1>s. Steps = {"idle", "begin", "call", "settle", "record", "report", "ack", "handoff", "check",
               "resettle", "rerecord", "rereport", "drop"}
  BY DEF Steps
<1> USE DEF NoneBusy, NoneFresh, NoneFinal
<1>1. CASE RetrySweep
  <2>1. /\ status = "retry_wait" /\ status' = "queued" /\ due' = due \cup {attempt}
        /\ UNCHANGED <<attempt, enabled, entries, results, pc, holds>>
    BY <1>1 DEF RetrySweep, actorVars
  <2>2. due = {} /\ NoneFresh /\ NoneBusy /\ NoneFinal
    BY <1>0, <2>1 DEF OnePlace
  <2>3. due' = {attempt'} /\ NoneFresh' /\ NoneBusy' /\ NoneFinal' /\ status' \notin Final
    BY <2>1, <2>2 DEF Fresh, Busy, Final
  <2>4. enabled'
    BY <1>0, <1>c, <2>1, <2>2 DEF OnePlace, Busy, Final
  <2> QED BY <2>1, <2>3, <2>4 DEF OnePlace
<1>2. ASSUME NEW n \in due, Push(n) PROVE OnePlace'
  <2>0. PICK m \in Nat : m = Len(entries) + 1
    BY <1>c
  <2>1. /\ Len(entries') = m
        /\ \A k \in 1 .. Len(entries) : entries'[k] = entries[k]
        /\ entries'[m].state = "new"
        /\ \/ entries'[m].carries = n
           \/ n = 1 /\ entries'[m].carries = Missing
    BY <1>2, <2>0, PushShape
  <2>2. due' = due \ {n} /\ UNCHANGED <<status, attempt, enabled, results, pc, holds>>
    BY <1>2 DEF Push, actorVars, rowVars
  <2>3. due = {attempt} /\ n = attempt /\ NoneFresh /\ NoneBusy /\ NoneFinal
        /\ status \notin Final /\ status # "retry_wait"
    BY <1>0, <1>2 DEF OnePlace
  <2>4. due' = {} /\ NoneBusy' /\ NoneFinal' /\ Matches(m)'
    BY <2>1, <2>2, <2>3 DEF Busy, Matches
  <2>5. \A k \in 1 .. Len(entries') : Fresh(k)' => k = m
    <3>1. \A k \in 1 .. Len(entries') : k \in 1 .. Len(entries) \/ k = m
      BY <1>c, <2>0, <2>1
    <3> QED BY <2>1, <2>3, <3>1 DEF Fresh
  <2>6. enabled'
    BY <1>0, <1>c, <2>2, <2>3 DEF OnePlace, Busy
  <2> QED BY <2>2, <2>3, <2>4, <2>5, <2>6 DEF OnePlace, Fresh
<1>3. ASSUME NEW w \in Workers, NEW i \in DOMAIN entries, Take(w, i) PROVE OnePlace'
  <2>1. /\ Len(entries') = Len(entries) /\ i \in 1 .. Len(entries)
        /\ \A k \in 1 .. Len(entries) :
             /\ entries'[k].state = IF k = i THEN "pending" ELSE entries[k].state
             /\ entries'[k].carries = entries[k].carries
    BY <1>3, TakeShape, EntriesShape
  <2>2. /\ \A b \in Workers : /\ pc'[b] = IF b = w THEN "begin" ELSE pc[b]
                              /\ holds'[b] = IF b = w THEN i ELSE holds[b]
        /\ UNCHANGED <<status, attempt, enabled, results, due>> /\ entries[i].state = "new"
    BY <1>3, <1>c DEF Take, At, Shape, TypeOK, rowVars
  <2>3. /\ Matches(i) /\ \A k \in 1 .. Len(entries) : Fresh(k) => k = i
        /\ NoneBusy /\ NoneFinal /\ status \notin Final
    BY <1>0, <2>1, <2>2 DEF OnePlace, Fresh
  <2>4. status # "retry_wait" /\ due = {}
    BY <1>0, <2>1, <2>2 DEF OnePlace, Fresh
  <2>5. NoneFresh' /\ NoneFinal' /\ status' \notin Final /\ status' # "retry_wait" /\ due' = {}
    BY <2>1, <2>2, <2>3, <2>4 DEF Fresh
  <2>6. \A v \in Workers : Busy(v)' => v = w /\ Matches(holds[v])'
    BY <2>1, <2>2, <2>3 DEF Busy, Matches
  <2>7. enabled'
    BY <1>0, <1>c, <2>2, <2>3 DEF OnePlace, Busy
  <2> QED BY <2>5, <2>6, <2>7 DEF OnePlace
<1>4. ASSUME NEW w \in Workers, Busy(w)
      PROVE  /\ Matches(holds[w]) /\ \A v \in Workers : Busy(v) => v = w
             /\ NoneFinal /\ status \notin Final /\ status # "retry_wait"
             /\ due = {} /\ NoneFresh
             /\ enabled \/ pc[w] \in {"record", "report"}
             /\ holds[w] \in 1 .. Len(entries)
  <2>1. /\ Matches(holds[w]) /\ \A v \in Workers : Busy(v) => v = w
        /\ NoneFinal /\ status \notin Final /\ status # "retry_wait" /\ due = {} /\ NoneFresh
    BY <1>0, <1>4 DEF OnePlace
  <2>2. enabled \/ pc[w] \in {"record", "report"}
    BY <1>0, <2>1 DEF OnePlace, Busy
  <2>3. holds[w] \in 1 .. Len(entries)
    BY <1>4, <1>c DEF Shape, Held, Busy
  <2> QED BY <2>1, <2>2, <2>3
\* A worker goes on with its attempt.
<1>5. ASSUME NEW w \in Workers, Busy(w), NEW place \in {"call", "settle", "record", "report"},
             Goto(w, place), UNCHANGED <<status, attempt, due, entries>>, NoneFinal',
             enabled' \/ place \in {"record", "report"}
      PROVE  OnePlace'
  <2>1. /\ holds' = holds
        /\ \A b \in Workers : pc'[b] = IF b = w THEN place ELSE pc[b]
    BY <1>5, <1>c, <1>s, GotoShape
  <2>2. /\ Matches(holds[w]) /\ \A v \in Workers : Busy(v) => v = w
        /\ status \notin Final /\ status # "retry_wait" /\ due = {} /\ NoneFresh
    BY <1>4, <1>5
  <2>3. \A v \in Workers : Busy(v)' => v = w
    BY <2>1, <2>2 DEF Busy
  <2>4. Matches(holds[w])' /\ NoneFresh' /\ status' \notin Final /\ status' # "retry_wait" /\ due' = {}
    BY <1>5, <2>1, <2>2 DEF Matches, Fresh
  <2>5. ~enabled' => pc'[w] \in {"record", "report"}
    BY <1>5, <2>1
  <2> QED BY <1>5, <2>3, <2>4, <2>5 DEF OnePlace
<1>6. ASSUME NEW w \in Workers, Begin(w) PROVE OnePlace'
  <2>1. /\ Busy(w) /\ pc[w] = "begin" /\ Goto(w, "call") /\ results' = Append(results, "running")
        /\ UNCHANGED <<status, attempt, due, entries, enabled>>
    BY <1>6 DEF Begin, Busy, At, rowVars
  <2>2. NoneFinal'
    <3>1. NoneFinal
      BY <1>4, <2>1
    <3> QED BY <1>c, <2>1, <3>1 DEF Final
  <2> QED BY <1>4, <1>5, <2>1, <2>2
<1>7. ASSUME NEW w \in Workers, Call(w) PROVE OnePlace'
  <2>1. /\ Busy(w) /\ pc[w] = "call" /\ Goto(w, "settle")
        /\ UNCHANGED <<status, attempt, due, entries, enabled, results>>
    BY <1>7 DEF Call, Busy, At, rowVars
  <2> QED BY <1>4, <1>5, <2>1
<1>8. ASSUME NEW w \in Workers, SettleFinal(w) PROVE OnePlace'
  <2>1. /\ Busy(w) /\ Goto(w, "record")
        /\ UNCHANGED <<status, attempt, due, entries, results>>
    BY <1>8 DEF SettleFinal, Busy, At, rowVars
  <2> QED BY <1>4, <1>5, <2>1
<1>9. ASSUME NEW w \in Workers, Record(w) PROVE OnePlace'
  <2>1. /\ Busy(w) /\ Goto(w, "report")
        /\ UNCHANGED <<status, attempt, due, entries, results, enabled>>
    BY <1>0, <1>9 DEF Record, After, Busy, Alone, rowVars
  <2> QED BY <1>4, <1>5, <2>1
<1>10. ASSUME NEW w \in Workers, SettleRetry(w) PROVE OnePlace'
  <2>1. Busy(w) /\ pc[w] = "settle" /\ RetryWait(w) /\ Goto(w, "ack") /\ UNCHANGED <<enabled, due, results>>
    BY <1>10 DEF SettleRetry, Busy, At
  <2>2. /\ Len(entries') = Len(entries) /\ status' = "retry_wait"
        /\ \A k \in 1 .. Len(entries) : entries'[k].state = entries[k].state
    BY <1>c, <2>1, RetryWaitShape
  <2>3. \A b \in Workers : pc'[b] = IF b = w THEN "ack" ELSE pc[b]
    BY <1>c, <1>s, <2>1, GotoShape
  <2>4. /\ \A v \in Workers : Busy(v) => v = w
        /\ NoneFinal /\ due = {} /\ NoneFresh /\ enabled
    BY <1>4, <2>1
  <2>5. due' = {} /\ NoneFresh' /\ NoneBusy' /\ NoneFinal' /\ enabled'
    BY <2>1, <2>2, <2>3, <2>4 DEF Fresh, Busy
  <2> QED BY <2>2, <2>5 DEF OnePlace, Final
<1>11. ASSUME NEW w \in Workers, Report(w) PROVE OnePlace'
  <2>1. /\ Busy(w) /\ Goto(w, "ack") /\ results' = Append(results, out[w])
        /\ UNCHANGED <<status, attempt, due, entries, enabled>>
    BY <1>0, <1>11 DEF Report, After, Busy, Alone, rowVars
  <2>2. out[w] \in Final
    BY <1>11, <1>c DEF Report, Shape, Held
  <2>3. \A b \in Workers : pc'[b] = IF b = w THEN "ack" ELSE pc[b]
    BY <1>c, <1>s, <2>1, GotoShape
  <2>4. /\ \A v \in Workers : Busy(v) => v = w
        /\ NoneFinal /\ status \notin Final /\ status # "retry_wait" /\ due = {} /\ NoneFresh
    BY <1>4, <2>1
  <2>5. NoneBusy' /\ NoneFresh' /\ due' = {} /\ status' \notin Final /\ status' # "retry_wait"
    BY <2>1, <2>3, <2>4 DEF Fresh, Busy
  <2>6. /\ Len(results') = Len(results) + 1 /\ results'[Len(results) + 1] \in Final
        /\ \A i \in 1 .. Len(results') : results'[i] \in Final => i = Len(results) + 1
    <3>1. /\ Len(results') = Len(results) + 1 /\ results'[Len(results) + 1] = out[w]
          /\ \A i \in 1 .. Len(results) : results'[i] = results[i]
      BY <1>c, <2>1, <2>2
    <3>2. \A i \in 1 .. Len(results') : i \in 1 .. Len(results) \/ i = Len(results) + 1
      BY <1>c, <3>1
    <3> QED BY <2>2, <2>4, <3>1, <3>2
  <2>7. Len(results) + 1 \in 1 .. Len(results')
    BY <1>c, <2>6
  <2> QED BY <2>5, <2>6, <2>7 DEF OnePlace
<1>12. ASSUME NEW w \in Workers, Ack(w) PROVE OnePlace'
  <2>1. /\ Len(entries') = Len(entries)
        /\ \A k \in 1 .. Len(entries) : /\ Fresh(k)' => Fresh(k)
                                        /\ entries'[k].carries = entries[k].carries
    BY <1>12, <1>c, AckShape DEF Fresh
  <2>2. pc[w] = "ack" /\ UNCHANGED <<status, attempt, due, results, enabled>>
    BY <1>0, <1>12 DEF Ack, Alone, rowVars
  <2>3. \A b \in Workers : /\ pc'[b] = IF b = w THEN "idle" ELSE pc[b]
                           /\ b # w => holds'[b] = holds[b]
    BY <1>12, <1>c, LeaveShape DEF Ack
  <2>4. \A v \in Workers : (Busy(v)' <=> Busy(v)) /\ (Busy(v) => holds'[v] = holds[v])
                           /\ (pc[v] \in {"record", "report"} => pc'[v] \in {"record", "report"})
    BY <2>2, <2>3 DEF Busy
  <2>5. \A k \in 1 .. Len(entries) : Matches(k) => Matches(k)'
    BY <2>1, <2>2 DEF Matches
  <2>6. \A v \in Workers : Busy(v) => holds[v] \in 1 .. Len(entries) /\ Matches(holds[v])
    BY <1>4
  <2>7. \A v \in Workers : Busy(v)' => Matches(holds[v])'
    BY <2>4, <2>5, <2>6 DEF Matches
  <2> QED BY <1>0, <2>1, <2>2, <2>4, <2>5, <2>7 DEF OnePlace
<1>13. CASE Merge
  <2>1. /\ results # << >> /\ results' = Tail(results)
        /\ UNCHANGED <<attempt, enabled, due, entries, pc, holds>>
        /\ status' = IF Head(results) # "running" THEN Head(results)
                     ELSE IF status = "queued" THEN "running" ELSE status
    BY <1>13 DEF Merge, actorVars
  <2>2. /\ Head(results) = results[1] /\ 1 \in 1 .. Len(results)
        /\ Len(results') = Len(results) - 1
        /\ \A i \in 1 .. Len(results') : results'[i] = results[i + 1] /\ i + 1 \in 1 .. Len(results)
                                         /\ i + 1 # 1
        /\ results[1] \in {"running"} \cup Final
    BY <1>c, <2>1
  <2>3. CASE results[1] = "running"
    <3>1. status' = IF status = "queued" THEN "running" ELSE status
      BY <2>1, <2>2, <2>3
    <3>2. NoneFinal => NoneFinal'
      BY <2>2
    <3>3. \A i \in 1 .. Len(results) : results[i] \in Final => i - 1 \in 1 .. Len(results') /\ i - 1 + 1 = i
      BY <1>c, <2>2, <2>3 DEF Final
    <3>4. ~NoneFinal => ~NoneFinal'
      BY <2>2, <3>3
    <3>5. \A i, k \in 1 .. Len(results') : results'[i] \in Final /\ results'[k] \in Final => i = k
      <4>1. \A i, k \in 1 .. Len(results) : results[i] \in Final /\ results[k] \in Final => i = k
        BY <1>0 DEF OnePlace
      <4>2. ASSUME NEW i \in 1 .. Len(results'), NEW k \in 1 .. Len(results'),
                   results'[i] \in Final, results'[k] \in Final
            PROVE  i = k
        <5>1. i + 1 = k + 1
          BY <2>2, <4>1, <4>2
        <5> QED BY <5>1
      <4> QED BY <4>2
    <3>6. (status' \in Final <=> status \in Final) /\ (status' = "retry_wait" <=> status = "retry_wait")
      BY <3>1 DEF Final
    <3> HIDE DEF NoneFinal
    <3> QED BY <1>0, <2>1, <3>2, <3>4, <3>5, <3>6 DEF OnePlace, Busy, Fresh, Matches
  <2>4. CASE results[1] \in Final
    <3>1. status' = results[1] /\ status' \in Final /\ status' # "retry_wait"
      BY <2>1, <2>2, <2>4 DEF Final
    <3>2. NoneFinal'
      BY <1>0, <2>2, <2>4 DEF OnePlace
    <3>3. ~NoneFinal
      BY <2>2, <2>4
    <3>4. due = {} /\ NoneFresh /\ NoneBusy
      BY <1>0, <3>3 DEF OnePlace
    <3>5. due' = {} /\ NoneFresh' /\ NoneBusy'
      BY <2>1, <3>4 DEF Fresh, Busy
    <3> QED BY <3>1, <3>2, <3>5 DEF OnePlace
  <2> QED BY <2>2, <2>3, <2>4
<1>14. CASE MergeClear \/ UNCHANGED vars
  <2>1. UNCHANGED <<status, attempt, enabled, due, entries, results, pc, holds>>
    BY <1>14 DEF MergeClear, vars, rowVars, actorVars
  <2> QED BY <1>0, <2>1 DEF OnePlace, Busy, Fresh, Matches
<1> QED
  BY <1>0, <1>1, <1>2, <1>3, <1>6, <1>7, <1>8, <1>9, <1>10, <1>11, <1>12, <1>13, <1>14
  DEF CalmAction

LEMMA OrderlyInit == Init => Orderly
<1> SUFFICES ASSUME Init PROVE Alone /\ OnePlace
  BY DEF Orderly
<1>1. /\ Len(entries) = 0 /\ Len(results) = 0 /\ status = "queued" /\ due = {attempt} /\ enabled
      /\ \A a \in Actors : pc[a] = "idle" /\ holds[a] = 0
  BY DEF Init
<1>2. Alone
  BY <1>1, Constants DEF Alone
<1>3. OnePlace
  BY <1>1, Constants DEF OnePlace, NoneBusy, NoneFresh, NoneFinal, Busy, Final
<1> QED BY <1>2, <1>3

-----------------------------------------------------------------------------
(* The theorems.                                                           *)

\* The invariant: the shape, the motion and, unless something fails, the one place.
Inv == Shape /\ Alive /\ Orderly

LEMMA InvAlways == Spec => []Inv
<1>1. Init => Inv
  BY ShapeInit, AliveInit, OrderlyInit DEF Inv
<1>2. Inv /\ [Next]_vars => Inv'
  BY ShapeNext, AliveNext, AloneStays, OnePlaceStays DEF Inv, Orderly
<1> QED BY <1>1, <1>2, PTL DEF Spec

\* The state keeps its shape, whatever fails.
THEOREM TypeCorrect == Spec => []TypeOK
<1>1. Inv => TypeOK
  BY DEF Inv, Shape
<1> QED BY <1>1, InvAlways, PTL

\* Whatever step of a worker or of recovery dies or fails, and however often:
\* an execution without a final status still has something that moves it.
THEOREM ExecutionsAreNeverDropped == Spec => []NeverDropped
<1>1. Inv => NeverDropped
  BY MoreIsMotion DEF Inv, Alive, NeverDropped
<1> QED BY <1>1, InvAlways, PTL

\* Unless something fails: a ONCE job is disabled when nothing is left to run.
THEOREM OnceIsDisabledAtTheEnd == Spec => []DisabledAtTheEnd
<1>1. Inv => DisabledAtTheEnd
  <2> SUFFICES ASSUME Inv, Calm, ~enabled
               PROVE  status # "retry_wait" /\ due = {}
                      /\ \A i \in DOMAIN entries : entries[i].state # "new"
    BY DEF DisabledAtTheEnd
  <2>1. OnePlace /\ DOMAIN entries = 1 .. Len(entries)
    BY EntriesShape DEF Inv, Orderly
  <2>2. \/ ~NoneBusy \/ ~NoneFinal \/ status \in Final
    BY <2>1 DEF OnePlace, NoneBusy, Busy
  <2>3. status # "retry_wait" /\ due = {} /\ NoneFresh
    <3>1. CASE ~NoneFinal \/ ~NoneBusy
      BY <2>1, <3>1 DEF OnePlace, NoneFresh
    <3>2. CASE status \in Final
      BY <2>1, <3>2 DEF OnePlace, NoneFresh, Final
    <3> QED BY <2>2, <3>1, <3>2
  <2> QED BY <2>1, <2>3 DEF NoneFresh, Fresh
<1> QED BY <1>1, InvAlways, PTL

\* Unless something fails, a row goes through the lifecycle and no other way.
\* A first payload without the attempt does not count it: with max_attempts 1
\* such an execution is tried a second time.
THEOREM RowsKeepTheLifecycle ==
  ASSUME MaxAttempts > 1 \/ Missing \notin FirstCarries
  PROVE  Spec => LifecycleSafe
<1> USE DEF Life!Next, Life!Run, Life!Retry, Life!Requeue, Life!Finish, Life!Open, Life!Final
<1>1. Init => Life!Init
  BY DEF Init, Life!Init
<1>2. ASSUME Inv, [Next]_vars, Calm'
      PROVE  Life!Next \/ UNCHANGED <<status, attempt>>
  <2>0. CalmAction /\ Calm /\ Alone /\ OnePlace /\ Shape
    BY <1>2, CalmStep DEF Inv
  <2>1. CASE RetrySweep
    BY <2>1 DEF RetrySweep
  <2>2. ASSUME NEW w \in Workers, SettleRetry(w) PROVE Life!Retry
    <3>1. /\ Busy(w) /\ ~Exhausted(w) /\ status' = "retry_wait" /\ attempt' = attempt + 1
      BY <2>2 DEF SettleRetry, Busy, At, WillRetry, RetryWait
    <3>2. Matches(holds[w]) /\ status \notin Final /\ status # "retry_wait"
      BY <2>0, <3>1 DEF OnePlace, NoneBusy
    <3>3. status \in {"queued", "running"}
      BY <2>0, <3>2 DEF Shape, TypeOK
    <3>4. attempt < MaxAttempts
      <4>1. /\ holds[w] \in 1 .. Len(entries) /\ attempt \in Nat \ {0} /\ MaxAttempts \in Nat \ {0}
        BY <2>0, <3>1, Constants DEF Shape, TypeOK, Held, Busy
      <4>2. CASE entries[holds[w]].carries = attempt
        BY <3>1, <4>1, <4>2 DEF Exhausted, Carried, Missing
      <4>3. CASE entries[holds[w]].carries = Missing /\ attempt = 1
        <5>1. Missing \in FirstCarries
          BY <2>0, <4>1, <4>3 DEF Alone
        <5> QED BY <4>3, <5>1
      <4> QED BY <3>2, <4>2, <4>3 DEF Matches
    <3> QED BY <3>1, <3>3, <3>4
  <2>3. CASE Merge
    <3>1. /\ results # << >> /\ UNCHANGED attempt
          /\ status' = IF Head(results) # "running" THEN Head(results)
                       ELSE IF status = "queued" THEN "running" ELSE status
      BY <2>3 DEF Merge
    <3>2. /\ 1 \in 1 .. Len(results) /\ Head(results) = results[1]
          /\ results[1] \in {"running"} \cup Final
      <4>1. results \in Seq({"running"} \cup Final)
        BY <2>0 DEF Shape, TypeOK
      <4> QED BY <3>1, <4>1
    <3>3. CASE results[1] = "running"
      BY <3>1, <3>2, <3>3
    <3>4. CASE results[1] \in Final
      <4>1. ~NoneFinal
        BY <3>2, <3>4 DEF NoneFinal
      <4>2. status \notin Final /\ status # "retry_wait"
        BY <2>0, <4>1 DEF OnePlace
      <4>3. status \in {"queued", "running"}
        BY <2>0, <4>2 DEF Shape, TypeOK
      <4> QED BY <3>1, <3>2, <3>4, <4>3 DEF Final
    <3> QED BY <3>2, <3>3, <3>4
  <2>4. ASSUME NEW w \in Workers,
               \/ \E i \in DOMAIN entries : Take(w, i)
               \/ Begin(w) \/ Call(w) \/ SettleFinal(w) \/ Record(w) \/ Report(w) \/ Ack(w)
        PROVE  UNCHANGED <<status, attempt>>
    BY <2>4 DEF Take, Begin, Call, SettleFinal, Record, Report, Ack, rowVars
  <2>5. CASE MergeClear \/ (\E n \in due : Push(n)) \/ UNCHANGED vars
    BY <2>5 DEF MergeClear, Push, vars, rowVars
  <2> HIDE DEF Life!Next
  <2>6. Life!Retry => Life!Next
    BY DEF Life!Next
  <2> QED BY <2>0, <2>1, <2>2, <2>3, <2>4, <2>5, <2>6 DEF CalmAction, Life!Next
<1> HIDE DEF Life!Next
<1>3. Inv /\ [Next]_vars => [Calm' => Life!Next]_<<status, attempt>>
  BY <1>2
<1> QED BY <1>1, <1>3, InvAlways, PTL DEF Spec, LifecycleSafe

-----------------------------------------------------------------------------
(* HttpCall: one execution's calls, for any jobs, URLs and targets.        *)

\* An attempt more for each wait, and one to come for who waits.
Tried ==
  /\ Len(waits) = IF step = "waiting" THEN tries ELSE tries - 1
  /\ step \in {"waiting", "stuck"} => tries < MostTries

CallShape == CallTypeOK /\ Tried

\* What redirect r makes of request b, under job j's policy, is request c.
Hop(j, b, r, c) ==
  /\ r.from = b.url /\ r.to = c.url
  /\ Origin(b.url) # Origin(c.url) => j.crossOrigin
  /\ b.url.scheme = "https" /\ c.url.scheme = "http" => j.downgrade
  /\ IF r.status = 303 \/ (r.status \in {301, 302} /\ b.method = "POST")
     THEN c.method = "GET" /\ ~c.body
     ELSE c.method = b.method /\ c.body = b.body

Current == [url |-> url, method |-> method, body |-> hasBody]
Room    == IF job.mode = "follow" THEN job.maxRedirects ELSE 0

\* The request that the loop is about to make, or waits for, continues the
\* chain: this is what the policy was checked for, a step before it is sent.
Continues ==
  /\ step = "visit" =>
       /\ Len(redirects) = Len(sent) /\ Len(sent) <= Room
       /\ IF Len(sent) = 0 THEN url = First
          ELSE Hop(job, sent[Len(sent)], redirects[Len(sent)], Current)
  /\ step = "fetch" =>
       /\ Len(sent) = Len(redirects) + 1
       /\ sent[Len(sent)] = Current

\* The requests sent are a chain, and the visited URLs are theirs.
Chained ==
  /\ Len(sent) <= Len(redirects) + 1 /\ Len(sent) <= Room + 1
  /\ \A i \in 1 .. Len(sent) :
       /\ sent[i].url \in visited \ Refused
       /\ \A k \in 1 .. i - 1 : sent[k].url # sent[i].url
       /\ i = 1 => sent[i].url = First
       /\ i > 1 => Hop(job, sent[i - 1], redirects[i - 1], sent[i])

\* No wait exceeds the job's ceiling.
CeilingKept == \A i \in 1 .. Len(waits), c \in job.cap : waits[i] <= c

\* A wait that the strategy gives before attempt a, or before the second when
\* the first has no number.
Follows(wait, a) ==
  \/ \E x \in StrategyDelays(a) : wait = applyCap(x)
  \/ a = 2 /\ wait = applyCap(0)

\* Until a Retry-After comes, each wait is the strategy's for its attempt.
WaitsFollow == ~named => \A i \in 1 .. Len(waits) : Follows(waits[i], i + 1)

CallInv == CallShape /\ Continues /\ Chained /\ CeilingKept /\ WaitsFollow

LEMMA CallConstants ==
  ASSUME job \in Jobs
  PROVE  /\ First \in Urls /\ Refused \subseteq Urls /\ Delays \subseteq Nat /\ MaxDelay \in Nat
         /\ job.method \in {"GET", "POST", "PUT", "PATCH", "DELETE"}
         /\ job.maxAttempts \in Nat \ {0} /\ job.maxRedirects \in Nat /\ Room \in Nat
         /\ job.cap \subseteq Nat /\ \A c, d \in job.cap : c = d
         /\ MostTries \in Nat \ {0}
BY HttpCallAssumption DEF Room, MostTries

\* Whatever a strategy or a Retry-After gives, applyCap keeps to the ceiling.
LEMMA DelayFits ==
  ASSUME job \in Jobs, NEW a, NEW retryAfter, NEW x \in computeDelaySeconds(a, retryAfter),
         x \in Nat, NEW c \in job.cap
  PROVE  x <= c
<1> HIDE DEF StrategyDelays
<1>1. PICK y : x = applyCap(y)
  BY DEF computeDelaySeconds
<1>2. c \in Nat /\ \A d \in job.cap : d = c
  BY CallConstants
<1>3. CASE \E d \in job.cap : y > d
  <2>1. (CHOOSE d \in job.cap : TRUE) \in job.cap
    OBVIOUS
  <2>2. x = c
    BY <1>1, <1>2, <1>3, <2>1 DEF applyCap
  <2> QED BY <1>2, <2>2
<1>4. CASE ~\E d \in job.cap : y > d
  <2>1. x = y /\ ~(y > c)
    BY <1>1, <1>4 DEF applyCap
  <2> QED BY <1>2, <2>1
<1> QED BY <1>3, <1>4

LEMMA EmptyShape == ASSUME NEW S PROVE << >> \in Seq(S) /\ Len(<< >>) = 0
OBVIOUS

LEMMA AppendShape ==
  ASSUME NEW S, NEW q \in Seq(S), NEW x \in S, NEW r, r = Append(q, x)
  PROVE  /\ r \in Seq(S) /\ Len(r) = Len(q) + 1 /\ Len(q) \in Nat
         /\ \A i \in 1 .. Len(q) : r[i] = q[i]
         /\ r[Len(q) + 1] = x
OBVIOUS

-----------------------------------------------------------------------------
(* The shape.                                                              *)

Sent    == [url : Urls, method : {job.method, "GET"}, body : BOOLEAN]
Results == [success : BOOLEAN, status : Statuses \cup {0},
            reason : PermanentReasons \cup {""}, retryAfter : SUBSET Delays]

LEMMA NoResultShape == NoResult \in Results
BY DEF NoResult, Results

\* The start of an attempt.
LEMMA AttemptShape ==
  ASSUME job \in Jobs
  PROVE  /\ FirstRequest(job).url \in Urls /\ FirstRequest(job).method = job.method
         /\ FirstRequest(job).hasBody \in BOOLEAN
BY CallConstants DEF FirstRequest

LEMMA CallShapeInit == CallInit => CallShape
<1> SUFFICES ASSUME CallInit PROVE CallTypeOK /\ Tried
  BY DEF CallShape
<1>1. job \in Jobs
  BY DEF CallInit
<1>2. Tried /\ tries \in 1 .. MostTries /\ fast \in BOOLEAN
  BY <1>1, CallConstants DEF CallInit, Tried
<1>3. url \in Urls /\ method = job.method /\ hasBody \in BOOLEAN
  BY <1>1, AttemptShape DEF CallInit
<1>4. result \in Results
  BY NoResultShape DEF CallInit
<1>5. waits \in Seq(0 .. MaxDelay) /\ Len(waits) < MostTries
  BY <1>1, CallConstants DEF CallInit
<1>6. sent \in Seq(Sent) /\ redirects \in Seq([status : Redirecting, from : Urls, to : Urls])
  BY EmptyShape DEF CallInit
<1>7. step = "visit" /\ visited = {} /\ timer = "running" /\ named = FALSE
  BY DEF CallInit
<1> QED
  BY <1>1, <1>2, <1>3, <1>4, <1>5, <1>6, <1>7 DEF CallTypeOK, Sent, Results

\* A failure inside the loop.
LEMMA FailsShape ==
  ASSUME CallShape, step \in {"visit", "fetch"}, UNCHANGED <<job, fast, tries, waits, named>>,
         NEW s \in Statuses \cup {0}, NEW r \in PermanentReasons \cup {""}, Fails(s, r)
  PROVE  CallShape'
<1>1. result' \in [success : BOOLEAN, status : Statuses \cup {0},
                   reason : PermanentReasons \cup {""}, retryAfter : SUBSET Delays]
  BY DEF Fails, Return, NoResult
<1>2. /\ step' = "classify"
      /\ UNCHANGED <<job, fast, tries, url, method, hasBody, visited, redirects, timer, sent,
                     waits, named>>
  BY DEF Fails, Return
<1>3. MostTries' = MostTries
  <2>1. job' = job /\ fast' = fast
    OBVIOUS
  <2> QED BY ONLY <2>1 DEF MostTries
<1>4. CallTypeOK'
  BY <1>1, <1>2, <1>3 DEF CallShape, CallTypeOK
<1>5. Tried'
  <2>1. tries' = tries /\ waits' = waits /\ step' = "classify"
    BY <1>2
  <2>2. Len(waits) = tries - 1
    BY DEF CallShape, Tried
  <2> QED BY <2>1, <2>2, <1>3 DEF Tried
<1> QED BY <1>4, <1>5 DEF CallShape

LEMMA VisitShape ==
  ASSUME CallShape, Visit
  PROVE  CallShape'
<1>1. Current \in Sent /\ sent \in Seq(Sent)
  BY DEF CallShape, CallTypeOK, Sent, Current
<1>2. sent' = Append(sent, Current)
  BY DEF Visit, Current
<1>3. sent' \in Seq(Sent)
  BY <1>1, <1>2, AppendShape
<1>4. /\ visited' \subseteq Urls /\ step = "visit" /\ step' = "fetch"
      /\ UNCHANGED <<job, fast, tries, url, method, hasBody, redirects, timer, result, waits, named>>
  BY DEF CallShape, CallTypeOK, Visit
<1> QED BY <1>3, <1>4 DEF CallShape, CallTypeOK, Tried, MostTries, Sent

\* A redirect in the list of those reported.
LEMMA RedirectShape ==
  ASSUME CallShape, NEW s \in Redirecting, NEW to \in Urls,
         redirects' = Append(redirects, Redirect(s, to))
  PROVE  /\ redirects' \in Seq([status : Redirecting, from : Urls, to : Urls])
         /\ Len(redirects') = Len(redirects) + 1
         /\ \A i \in 1 .. Len(redirects) : redirects'[i] = redirects[i]
         /\ redirects'[Len(redirects) + 1] = Redirect(s, to)
<1>1. redirects \in Seq([status : Redirecting, from : Urls, to : Urls])
  BY DEF CallShape, CallTypeOK
<1>2. Redirect(s, to) \in [status : Redirecting, from : Urls, to : Urls]
  BY DEF CallShape, CallTypeOK, Redirect
<1> HIDE DEF Redirect, Redirecting
<1> QED BY <1>1, <1>2

LEMMA RedirectManualShape ==
  ASSUME CallShape, RedirectManual
  PROVE  CallShape'
<1>1. PICK s \in Statuses \cap Redirecting, to \in Urls :
        /\ redirects' = Append(redirects, Redirect(s, to))
        /\ Return([success |-> TRUE, status |-> s, reason |-> ""])
  BY DEF RedirectManual
<1>2. redirects' \in Seq([status : Redirecting, from : Urls, to : Urls])
  BY <1>1, RedirectShape
<1>3. result' \in [success : BOOLEAN, status : Statuses \cup {0},
                   reason : PermanentReasons \cup {""}, retryAfter : SUBSET Delays]
  BY <1>1 DEF Return, NoResult
<1>4. /\ step = "fetch" /\ step' = "classify"
      /\ UNCHANGED <<job, fast, tries, url, method, hasBody, visited, timer, sent, waits, named>>
  BY <1>1 DEF RedirectManual, Return
<1> QED BY <1>2, <1>3, <1>4 DEF CallShape, CallTypeOK, Tried, MostTries

LEMMA RedirectFollowedShape ==
  ASSUME CallShape, RedirectFollowed
  PROVE  CallShape'
<1>1. PICK s \in Statuses \cap Redirecting, to \in Urls :
        /\ redirects' = Append(redirects, Redirect(s, to)) /\ url' = to
        /\ method' = IF Rewrites(s) THEN "GET" ELSE method
        /\ hasBody' = (hasBody /\ ~Rewrites(s))
  BY DEF RedirectFollowed
<1>2. redirects' \in Seq([status : Redirecting, from : Urls, to : Urls])
  BY <1>1, RedirectShape
<1>3. /\ step = "fetch" /\ step' = "visit"
      /\ UNCHANGED <<job, fast, tries, visited, timer, result, waits, named, sent>>
  BY DEF RedirectFollowed
<1>4. method' \in {job.method, "GET"} /\ hasBody' \in BOOLEAN
  BY <1>1 DEF CallShape, CallTypeOK
<1> QED BY <1>1, <1>2, <1>3, <1>4 DEF CallShape, CallTypeOK, Tried, MostTries

LEMMA RetryShape ==
  ASSUME CallShape, step \in {"classify", "stuck"}, tries < MostTries,
         NEW retryAfter, ScheduleRetry(retryAfter)
  PROVE  /\ CallShape'
         /\ \E x \in computeDelaySeconds(tries + 1, retryAfter) :
              x \in Nat /\ waits' = Append(waits, x)
<1> HIDE DEF computeDelaySeconds
<1>1. PICK x \in computeDelaySeconds(tries + 1, retryAfter) :
        /\ x \in 0 .. MaxDelay /\ waits' = Append(waits, x)
        /\ named' = (named \/ (job.honor /\ retryAfter # {}))
  BY DEF ScheduleRetry
<1>2. step' = "waiting" /\ UNCHANGED <<job, fast, tries, chainVars, result>>
  BY DEF ScheduleRetry
<1>3. /\ waits \in Seq(0 .. MaxDelay) /\ job \in Jobs /\ tries \in 1 .. MostTries
      /\ Len(waits) = tries - 1
  BY DEF CallShape, CallTypeOK, Tried, MostTries
<1>4. MostTries \in Nat /\ MaxDelay \in Nat
  BY <1>3, CallConstants
<1>5. waits' \in Seq(0 .. MaxDelay) /\ Len(waits') = tries
  BY <1>1, <1>3, <1>4
<1>6. named' \in BOOLEAN
  BY <1>1
<1>7. CallShape'
  BY <1>2, <1>4, <1>5, <1>6 DEF CallShape, CallTypeOK, Tried, MostTries, chainVars
<1>8. x \in Nat
  BY <1>1, <1>4
<1> QED BY <1>1, <1>7, <1>8

LEMMA NextAttemptShape ==
  ASSUME CallShape, NextAttempt
  PROVE  CallShape'
<1>1. job \in Jobs /\ step = "waiting" /\ tries \in 1 .. MostTries
      /\ tries < MostTries /\ Len(waits) = tries
  BY DEF CallShape, CallTypeOK, Tried, MostTries, NextAttempt
<1>2. tries' \in 1 .. MostTries' /\ tries' - 1 = tries
  BY <1>1, CallConstants DEF NextAttempt, MostTries
<1>3. url' \in Urls /\ method' = job.method /\ hasBody' \in BOOLEAN
  BY <1>1, AttemptShape DEF NextAttempt
<1>4. result' \in Results
  BY NoResultShape DEF NextAttempt
<1>5. sent' \in Seq(Sent) /\ redirects' \in Seq([status : Redirecting, from : Urls, to : Urls])
  BY EmptyShape DEF NextAttempt
<1>6. /\ step' = "visit" /\ visited' = {} /\ timer' = "running"
      /\ UNCHANGED <<job, fast, waits, named>>
  BY DEF NextAttempt
<1>7. Tried'
  BY <1>1, <1>2, <1>6 DEF Tried
<1>8. /\ waits \in Seq(0 .. MaxDelay) /\ Len(waits) < MostTries /\ MostTries' = MostTries
      /\ named \in BOOLEAN /\ fast \in BOOLEAN
  BY <1>6 DEF CallShape, CallTypeOK, MostTries
<1> HIDE DEF Tried, MostTries
<1> QED
  BY <1>1, <1>2, <1>3, <1>4, <1>5, <1>6, <1>7, <1>8 DEF CallShape, CallTypeOK, Sent, Results

\* The other steps of the worker: a verdict on the attempt, or on the retry.
LEMMA ConcludeShape ==
  ASSUME CallShape, NEW s, Conclude(s),
         \/ s \in Outcomes /\ step \in {"classify", "stuck"}
         \/ s = "stuck" /\ step = "classify" /\ tries < MostTries
  PROVE  CallShape'
<1>1. step' = s /\ UNCHANGED <<job, fast, tries, chainVars, result, waits, named>>
  BY DEF Conclude
<1>2. MostTries' = MostTries
  BY <1>1 DEF MostTries
<1>3. s \in Outcomes \cup {"stuck"} /\ s # "waiting" /\ step # "waiting"
  BY DEF Outcomes
<1>4. CallTypeOK'
  BY <1>1, <1>2, <1>3 DEF CallShape, CallTypeOK, chainVars
<1>5. Tried'
  BY <1>1, <1>2, <1>3 DEF CallShape, Tried, Outcomes
<1> QED BY <1>4, <1>5 DEF CallShape

LEMMA NotLastTry == CallShape /\ ~LastTry => tries < MostTries
<1> SUFFICES ASSUME CallShape, ~LastTry PROVE tries < MostTries
  OBVIOUS
<1>1. job \in Jobs /\ fast \in BOOLEAN /\ tries \in 1 .. MostTries
  BY DEF CallShape, CallTypeOK
<1> QED BY <1>1, CallConstants DEF LastTry, Numbered, MostTries

LEMMA AnswerShape ==
  ASSUME CallShape, Answer
  PROVE  CallShape'
<1>1. PICK s \in Statuses \ Redirecting, ra \in {{}} \cup {{d} : d \in Delays} :
        result' = [success |-> s \in 200 .. 299, status |-> s, reason |-> "", retryAfter |-> ra]
  BY DEF Answer
<1>2. ra \in SUBSET Delays /\ (s \in 200 .. 299) \in BOOLEAN /\ "" \in PermanentReasons \cup {""}
  OBVIOUS
<1>3. result' \in Results
  BY <1>1, <1>2 DEF Results
<1>4. step = "fetch" /\ step' = "classify" /\ UNCHANGED <<job, fast, tries, chainVars, waits, named>>
  BY DEF Answer
<1> QED BY <1>3, <1>4 DEF CallShape, CallTypeOK, Tried, MostTries, chainVars, Results

LEMMA RedirectRefusedFails ==
  ASSUME RedirectRefused
  PROVE  \E s \in Statuses \cup {0}, r \in PermanentReasons \cup {""} : Fails(s, r)
<1>1. PICK s \in Statuses \cap Redirecting, to \in Urls \cup {NoLocation, NotAUrl} :
        /\ RefusedFor(to) # "follow"
        /\ Fails(IF RefusedFor(to) = "" THEN 0 ELSE s, RefusedFor(to))
  BY DEF RedirectRefused
<1>2. RefusedFor(to) \in PermanentReasons \cup {"", "follow"}
  BY DEF RefusedFor, PermanentReasons
<1>3. (IF RefusedFor(to) = "" THEN 0 ELSE s) \in Statuses \cup {0}
  OBVIOUS
<1> HIDE DEF Fails, RefusedFor, PermanentReasons
<1> QED BY <1>1, <1>2, <1>3

\* The failures of the loop.
LoopFails ==
  /\ step \in {"visit", "fetch"} /\ UNCHANGED <<job, fast, tries, waits, named>>
  /\ \E s \in Statuses \cup {0}, r \in PermanentReasons \cup {""} : Fails(s, r)

LEMMA Failures ==
  VisitLoop \/ VisitRefused \/ FetchThrows \/ LookupRefused \/ RedirectRefused => LoopFails
<1> HIDE DEF Fails
<1>1. RedirectRefused => LoopFails
  BY RedirectRefusedFails DEF RedirectRefused, LoopFails
<1>2. VisitLoop \/ VisitRefused \/ FetchThrows \/ LookupRefused => LoopFails
  BY DEF VisitLoop, VisitRefused, FetchThrows, LookupRefused, LoopFails, PermanentReasons
<1> QED BY <1>1, <1>2

\* What the worker concludes, and when.
LEMMA Verdicts ==
  ASSUME CallShape, Succeeds \/ FailsForGood \/ FailsAtLast \/ RetryNotScheduled \/ GivenUp
  PROVE  \E s : /\ Conclude(s)
                /\ \/ s \in Outcomes /\ step \in {"classify", "stuck"}
                   \/ s = "stuck" /\ step = "classify" /\ tries < MostTries
BY NotLastTry
DEF Succeeds, FailsForGood, FailsAtLast, RetryNotScheduled, GivenUp, TriesAgain, Outcomes

LEMMA Retries ==
  ASSUME CallShape, RetryScheduled \/ Recovered
  PROVE  /\ step \in {"classify", "stuck"} /\ tries < MostTries
         /\ \E retryAfter : ScheduleRetry(retryAfter)
BY NotLastTry DEF RetryScheduled, Recovered, TriesAgain, CallShape, Tried

LEMMA CallShapeNext ==
  ASSUME CallShape, [CallNext]_callVars
  PROVE  CallShape'
<1>1. CASE LoopFails
  BY <1>1, FailsShape DEF LoopFails
<1>2. CASE Succeeds \/ FailsForGood \/ FailsAtLast \/ RetryNotScheduled \/ GivenUp
  BY <1>2, Verdicts, ConcludeShape
<1>3. CASE RetryScheduled \/ Recovered
  BY <1>3, Retries, RetryShape
<1>4. CASE TimerFires \/ UNCHANGED callVars
  <2>1. /\ timer' \in {"running", "fired"}
        /\ UNCHANGED <<job, fast, tries, step, url, method, hasBody, visited, redirects, sent,
                       result, waits, named>>
    BY <1>4 DEF TimerFires, callVars, chainVars, CallShape, CallTypeOK
  <2>2. MostTries' = MostTries
    BY <2>1 DEF MostTries
  <2> QED BY <2>1, <2>2 DEF CallShape, CallTypeOK, Tried
<1> QED
  BY <1>1, <1>2, <1>3, <1>4, Failures, VisitShape, AnswerShape, RedirectManualShape,
     RedirectFollowedShape, NextAttemptShape
  DEF CallNext, Worker, Target

-----------------------------------------------------------------------------
(* Recursive functions: induction by the first counterexample.             *)

\* A set of natural numbers has a first one.
LEMMA FirstOf ==
  ASSUME NEW T \in SUBSET Nat, T # {}
  PROVE  \E x \in T : \A y \in T : x <= y
<1> DEFINE Less == {p \in Nat \X Nat : p[1] < p[2]}
<1>1. IsWellFoundedOn(Less, Nat)
  BY NatLessThanWellFounded DEF OpToRel
<1>2. PICK x \in T : \A y \in T : ~ (<<y, x>> \in Less)
  <2> HIDE DEF Less
  <2> QED BY <1>1, WFMin
<1>3. ASSUME NEW y \in T PROVE x <= y
  <2>1. x \in Nat /\ y \in Nat /\ ~ (<<y, x>> \in Less)
    BY <1>2
  <2> QED BY <2>1
<1> QED BY <1>3

\* What holds of 0 and with each number of the next one holds of all.
LEMMA Numbers ==
  ASSUME NEW G \in SUBSET Nat, 0 \in G, \A n \in G : n + 1 \in G
  PROVE  G = Nat
<1> SUFFICES ASSUME Nat \ G # {} PROVE FALSE
  OBVIOUS
<1>1. PICK n \in Nat \ G : \A m \in Nat \ G : n <= m
  BY FirstOf
<1>2. n - 1 \in Nat /\ n - 1 + 1 = n /\ ~(n <= n - 1)
  BY <1>1
<1> QED BY <1>1, <1>2

\* Start s and step f determine a function on Nat.
Iterated(S, s, f, g) == g \in [Nat -> S] /\ g[0] = s /\ \A n \in Nat : g[n + 1] = f[g[n]]

LEMMA Iterates ==
  ASSUME NEW S, NEW s \in S, NEW f \in [S -> S]
  PROVE  \E g : Iterated(S, s, f, g)
<1> DEFINE Upto(n, h) == /\ h \in [0 .. n -> S] /\ h[0] = s
                         /\ \A i \in 0 .. n - 1 : h[i + 1] = f[h[i]]
           Built == {n \in Nat : \E h : Upto(n, h)}
           Approx(n) == CHOOSE h : Upto(n, h)
           g == [n \in Nat |-> Approx(n)[n]]
<1>1. 0 \in Built
  <2>1. Upto(0, [i \in 0 .. 0 |-> s])
    OBVIOUS
  <2> HIDE DEF Upto
  <2> QED BY <2>1
<1>2. ASSUME NEW n \in Built PROVE n + 1 \in Built
  <2>1. PICK h : Upto(n, h)
    OBVIOUS
  <2>2. PICK k : k = [i \in 0 .. n + 1 |-> IF i = n + 1 THEN f[h[n]] ELSE h[i]]
    OBVIOUS
  <2>3. n \in Nat /\ n \in 0 .. n /\ h[n] \in S /\ f[h[n]] \in S
    BY <2>1
  <2>4. \A i \in 0 .. n + 1 : i = n + 1 \/ i \in 0 .. n
    BY <2>3
  <2>5. k \in [0 .. n + 1 -> S] /\ k[0] = s
    BY <2>1, <2>2, <2>3, <2>4
  <2>6. ASSUME NEW i \in 0 .. n + 1 - 1 PROVE k[i + 1] = f[k[i]]
    <3>1. i \in 0 .. n /\ i + 1 \in 0 .. n + 1 /\ i \in 0 .. n + 1 /\ i # n + 1
      BY <2>3
    <3>2. k[i] = h[i]
      BY <2>2, <3>1
    <3>3. CASE i = n
      BY <2>2, <3>1, <3>2, <3>3
    <3>4. CASE i # n
      <4>1. i \in 0 .. n - 1 /\ i + 1 # n + 1
        BY <2>3, <3>1, <3>4
      <4> QED BY <2>1, <2>2, <3>1, <3>2, <4>1
    <3> QED BY <3>3, <3>4
  <2>7. Upto(n + 1, k)
    BY <2>5, <2>6
  <2> HIDE DEF Upto
  <2> QED BY <2>3, <2>7
<1>3. Built = Nat
  <2>1. Built \in SUBSET Nat
    OBVIOUS
  <2> HIDE DEF Built
  <2> QED BY <1>1, <1>2, <2>1, Numbers
<1>4. ASSUME NEW n \in Nat PROVE Upto(n, Approx(n))
  <2>1. \E h : Upto(n, h)
    BY <1>3
  <2> HIDE DEF Upto
  <2> QED BY <2>1
<1>5. ASSUME NEW n \in Nat, NEW h, NEW k, Upto(n, h), Upto(n + 1, k)
      PROVE  h[n] = k[n]
  <2> DEFINE Same == {i \in Nat : i <= n => h[i] = k[i]}
  <2>1. 0 \in Same
    BY <1>5
  <2>2. ASSUME NEW i \in Same PROVE i + 1 \in Same
    <3> SUFFICES ASSUME i + 1 <= n PROVE h[i + 1] = k[i + 1]
      OBVIOUS
    <3>1. i \in 0 .. n - 1 /\ i \in 0 .. n + 1 - 1 /\ i <= n
      OBVIOUS
    <3>2. h[i] = k[i]
      BY <3>1
    <3> QED BY <1>5, <3>1, <3>2
  <2>3. Same = Nat
    <3>1. Same \in SUBSET Nat
      OBVIOUS
    <3> HIDE DEF Same
    <3> QED BY <2>1, <2>2, <3>1, Numbers
  <2> QED BY <2>3
<1>6. ASSUME NEW n \in Nat PROVE Approx(n)[n] \in S /\ Approx(n + 1)[n + 1] = f[Approx(n)[n]]
  <2>1. PICK h : h = Approx(n)
    OBVIOUS
  <2>2. PICK k : k = Approx(n + 1)
    OBVIOUS
  <2>3. Upto(n, h) /\ Upto(n + 1, k)
    <3> HIDE DEF Upto, Approx
    <3>1. n + 1 \in Nat
      OBVIOUS
    <3> QED BY <1>4, <2>1, <2>2, <3>1
  <2>4. h[n] = k[n]
    <3> HIDE DEF Upto
    <3> QED BY <1>5, <2>3
  <2>5. n \in 0 .. n /\ n \in 0 .. n + 1 - 1
    OBVIOUS
  <2> HIDE DEF Approx
  <2> QED BY <2>1, <2>2, <2>3, <2>4, <2>5
<1>7. Approx(0)[0] = s
  <2>1. Upto(0, Approx(0))
    BY <1>4
  <2> HIDE DEF Approx
  <2> QED BY <2>1
<1>8. g \in [Nat -> S] /\ g[0] = s /\ \A n \in Nat : g[n + 1] = f[g[n]]
  <2> HIDE DEF Approx
  <2> QED BY <1>6, <1>7
<1> HIDE DEF g
<1> QED BY <1>8 DEF Iterated

LEMMA PowerIs ==
  ASSUME NEW b \in Nat
  PROVE  Power(b, 0) = 1 /\ \A k \in Nat : Power(b, k) \in Nat /\ Power(b, k + 1) = b * Power(b, k)
<1> DEFINE Pow(f) == f = [i \in Nat |-> IF i = 0 THEN 1 ELSE b * f[i - 1]]
           pow == CHOOSE f : Pow(f)
<1>1. PICK times : times = [x \in Nat |-> b * x]
  OBVIOUS
<1>2. 1 \in Nat /\ times \in [Nat -> Nat]
  BY <1>1
<1>3. PICK g : Iterated(Nat, 1, times, g)
  BY <1>2, Iterates
<1> USE DEF Iterated
<1>4. Pow(g)
  <2>1. ASSUME NEW i \in Nat, i # 0 PROVE g[i] = b * g[i - 1]
    <3>1. i - 1 \in Nat /\ i - 1 + 1 = i /\ g[i - 1] \in Nat
      BY <1>3, <2>1
    <3> QED BY <1>1, <1>3, <3>1
  <2> QED BY <1>3, <2>1
<1>5. Pow(pow)
  <2> HIDE DEF Pow
  <2> QED BY <1>4
<1>6. pow[0] = 1 /\ \A k \in Nat : pow[k + 1] = b * pow[k]
  <2> HIDE DEF pow
  <2>1. \A i \in Nat : pow[i] = IF i = 0 THEN 1 ELSE b * pow[i - 1]
    BY <1>5
  <2>2. ASSUME NEW k \in Nat PROVE pow[k + 1] = b * pow[k]
    <3>1. k + 1 \in Nat /\ k + 1 # 0 /\ k + 1 - 1 = k
      OBVIOUS
    <3> QED BY <2>1, <3>1
  <2> QED BY <2>1, <2>2
<1>7. \A k \in Nat : pow[k] \in Nat
  <2> HIDE DEF pow
  <2> DEFINE Good == {k \in Nat : pow[k] \in Nat}
  <2>1. 0 \in Good /\ \A k \in Good : k + 1 \in Good
    BY <1>6
  <2>2. Good = Nat
    <3>1. Good \in SUBSET Nat
      OBVIOUS
    <3> HIDE DEF Good
    <3> QED BY <2>1, <3>1, Numbers
  <2> QED BY <2>2
<1>8. \A k : Power(b, k) = pow[k]
  BY DEF Power
<1> HIDE DEF pow
<1> QED BY <1>6, <1>7, <1>8

LEMMA FibonacciIs ==
  \A n \in Nat : /\ fibonacci[n] \in Nat
                 /\ n > 0 => fibonacci[n + 1] = fibonacci[n] + fibonacci[n - 1]
<1> DEFINE Fib(f) == f = [n \in Nat |-> IF n < 2 THEN n ELSE f[n - 1] + f[n - 2]]
<1>1. \E f : Fib(f)
  <2>1. PICK turn : turn = [p \in Nat \X Nat |-> <<p[2], p[1] + p[2]>>]
    OBVIOUS
  <2>2. PICK S, s : S = Nat \X Nat /\ s = <<0, 1>> /\ s \in S /\ turn \in [S -> S]
    <3>1. <<0, 1>> \in Nat \X Nat /\ turn \in [Nat \X Nat -> Nat \X Nat]
      BY <2>1
    <3> QED BY <3>1, Zenon
  <2>3. PICK g : Iterated(S, s, turn, g)
    <3>1. s \in S /\ turn \in [S -> S]
      BY <2>2
    <3> QED BY <3>1, Iterates
  <2> USE DEF Iterated
  <2>4. ASSUME NEW n \in Nat
        PROVE  /\ g[n + 1][1] = g[n][2] /\ g[n + 1][2] = g[n][1] + g[n][2]
               /\ g[n][1] \in Nat
    <3>0. g[n] \in Nat \X Nat
      BY <2>2, <2>3
    <3>1. PICK a \in Nat, b \in Nat : g[n] = <<a, b>>
      BY <3>0
    <3>2. turn[<<a, b>>] = <<b, a + b>>
      BY <2>1
    <3> QED BY <2>3, <3>1, <3>2
  <2>5. PICK f : f = [n \in Nat |-> g[n][1]]
    OBVIOUS
  <2>6. f[0] = 0 /\ f[1] = 1
    <3>1. g[0 + 1][1] = g[0][2] /\ 0 + 1 = 1
      BY <2>4
    <3> QED BY <2>2, <2>3, <2>5, <3>1
  <2>7. ASSUME NEW n \in Nat, ~(n < 2) PROVE f[n] = f[n - 1] + f[n - 2]
    <3>1. n - 1 \in Nat /\ n - 2 \in Nat /\ n - 1 + 1 = n /\ n - 2 + 1 = n - 1
      BY <2>7
    <3>2. g[n][1] = g[n - 1][2] /\ g[n - 1][2] = g[n - 2][1] + g[n - 2][2]
          /\ g[n - 1][1] = g[n - 2][2]
      BY <2>4, <3>1
    <3>3. g[n - 1][1] \in Nat /\ g[n - 2][1] \in Nat
      BY <2>4, <3>1
    <3> QED BY <2>5, <3>1, <3>2, <3>3
  <2>8. \A n \in Nat : f[n] = IF n < 2 THEN n ELSE f[n - 1] + f[n - 2]
    <3>1. \A n \in Nat : n < 2 => n = 0 \/ n = 1
      OBVIOUS
    <3> QED BY <2>6, <2>7, <3>1
  <2>9. f = [n \in Nat |-> f[n]]
    BY <2>5
  <2>10. Fib(f)
    BY <2>8, <2>9
  <2> HIDE DEF Fib
  <2> QED BY <2>10
<1>2. fibonacci = CHOOSE f : Fib(f)
  BY DEF fibonacci
<1>3. Fib(fibonacci)
  <2> HIDE DEF Fib
  <2> QED BY <1>1, <1>2
<1>4. \A n \in Nat : fibonacci[n] = IF n < 2 THEN n ELSE fibonacci[n - 1] + fibonacci[n - 2]
  BY <1>3
<1>5. \A n \in Nat : n > 0 => fibonacci[n + 1] = fibonacci[n] + fibonacci[n - 1]
  <2> SUFFICES ASSUME NEW n \in Nat, n > 0
               PROVE  fibonacci[n + 1] = fibonacci[n] + fibonacci[n - 1]
    OBVIOUS
  <2>1. n + 1 \in Nat /\ ~(n + 1 < 2) /\ n + 1 - 1 = n /\ n + 1 - 2 = n - 1
    OBVIOUS
  <2> QED BY <1>4, <2>1
<1>6. \A n \in Nat : fibonacci[n] \in Nat
  <2> DEFINE Good == {n \in Nat : fibonacci[n] \in Nat /\ fibonacci[n + 1] \in Nat}
  <2>1. 0 \in Good
    <3>1. fibonacci[0] = 0 /\ fibonacci[1] = 1
      BY <1>4
    <3> QED BY <3>1
  <2>2. ASSUME NEW n \in Good PROVE n + 1 \in Good
    <3>1. n + 1 \in Nat /\ n + 1 > 0 /\ n + 1 - 1 = n
      OBVIOUS
    <3>2. fibonacci[n + 1 + 1] = fibonacci[n + 1] + fibonacci[n]
      BY <1>5, <3>1
    <3> QED BY <3>1, <3>2
  <2>3. Good = Nat
    <3>1. Good \in SUBSET Nat
      OBVIOUS
    <3> HIDE DEF Good
    <3> QED BY <2>1, <2>2, <3>1, Numbers
  <2> QED BY <2>3
<1> QED BY <1>5, <1>6

-----------------------------------------------------------------------------
(* Delays that grow with the attempt.                                      *)

LEMMA Product ==
  ASSUME NEW a \in Nat, NEW b \in Nat, NEW c \in Nat, a <= b
  PROVE  a * c \in Nat /\ b * c \in Nat /\ a * c <= b * c /\ c * a = a * c /\ c * b = b * c
OBVIOUS

\* q * k <= m bounds the quotient from below.
LEMMA Quotient ==
  ASSUME NEW m \in Nat, NEW k \in Nat \ {0}
  PROVE  /\ m \div k \in Nat /\ (m \div k) * k <= m
         /\ \A q \in Nat : q * k <= m => q <= m \div k
<1>1. PICK t \in Nat : t = m \div k /\ t * k <= m /\ m < (t + 1) * k
  OBVIOUS
<1>2. ASSUME NEW q \in Nat, q * k <= m PROVE q <= t
  <2>1. SUFFICES ASSUME t + 1 <= q PROVE FALSE
    OBVIOUS
  <2>2. (t + 1) * k <= q * k /\ q * k \in Nat /\ (t + 1) * k \in Nat
    BY <2>1, Product
  <2> QED BY <1>1, <1>2, <2>2
<1> QED BY <1>1, <1>2

\* With a multiplier of one at least, a rounded fraction does not shrink.
LEMMA RoundedGrows ==
  ASSUME NEW N \in Nat, NEW D \in Nat \ {0}, NEW n \in Nat \ {0}, NEW d \in Nat \ {0}, d <= n
  PROVE  /\ Rounded(N, D) \in Nat /\ Rounded(N * n, D * d) \in Nat
         /\ Rounded(N, D) <= Rounded(N * n, D * d)
<1>1. PICK q \in Nat : q = Rounded(N, D) /\ q * (2 * D) <= 2 * N + D
  <2>1. 2 * N + D \in Nat /\ 2 * D \in Nat \ {0}
    OBVIOUS
  <2> QED BY <2>1, Quotient DEF Rounded
<1>2. /\ N * n \in Nat /\ N * d \in Nat /\ N * d <= N * n
      /\ D * d \in Nat \ {0}
  <2>1. N * n \in Nat /\ N * d \in Nat /\ N * d <= N * n
    BY Product
  <2>2. D * d \in Nat /\ D * d # 0
    OBVIOUS
  <2> QED BY <2>1, <2>2
<1>3. /\ (q * (2 * D)) * d = q * (2 * (D * d))
      /\ (2 * N + D) * d = 2 * (N * d) + D * d
  OBVIOUS
<1>4. (q * (2 * D)) * d <= (2 * N + D) * d
  <2>1. q * (2 * D) \in Nat /\ 2 * N + D \in Nat
    OBVIOUS
  <2> QED BY <1>1, <2>1, Product
<1>5. q * (2 * (D * d)) <= 2 * (N * n) + D * d
  BY <1>2, <1>3, <1>4
<1>6. /\ Rounded(N * n, D * d) \in Nat
      /\ q <= Rounded(N * n, D * d)
  <2>1. PICK m \in Nat, k \in Nat \ {0} : m = 2 * (N * n) + D * d /\ k = 2 * (D * d)
    BY <1>2
  <2>2. Rounded(N * n, D * d) = m \div k
    BY <2>1 DEF Rounded
  <2> QED BY <1>5, <2>1, <2>2, Quotient
<1> QED BY <1>1, <1>6

LEMMA JobFields ==
  ASSUME job \in Jobs
  PROVE  /\ job.base \in Nat /\ job.multiplier.n \in Nat \ {0} /\ job.multiplier.d \in Nat \ {0}
         /\ job.strategy \in {"IMMEDIATE", "FIXED", "LINEAR", "FIBONACCI",
                              "EXPONENTIAL", "EXPONENTIAL_JITTER"}
BY HttpCallAssumption

LEMMA PositivePower ==
  ASSUME NEW b \in Nat \ {0}
  PROVE  \A k \in Nat : Power(b, k) \in Nat \ {0}
<1> DEFINE Good == {k \in Nat : Power(b, k) # 0}
<1>1. 0 \in Good
  BY PowerIs
<1>2. ASSUME NEW k \in Good PROVE k + 1 \in Good
  <2>1. Power(b, k) \in Nat \ {0} /\ Power(b, k + 1) = b * Power(b, k)
    BY PowerIs
  <2> QED BY <2>1
<1>3. Good = Nat
  <2>1. Good \in SUBSET Nat
    OBVIOUS
  <2> HIDE DEF Good
  <2> QED BY <1>1, <1>2, <2>1, Numbers
<1> QED BY <1>3, PowerIs

\* Without jitter, and with a multiplier of one at least, no strategy shortens
\* the delay from one attempt to the next.
LEMMA DelaysGrow ==
  ASSUME job \in Jobs, job.strategy # "EXPONENTIAL_JITTER",
         job.multiplier.n >= job.multiplier.d, NEW a \in Nat \ {0},
         NEW x \in StrategyDelays(a), NEW y \in StrategyDelays(a + 1)
  PROVE  x \in Nat /\ y \in Nat /\ x <= y
<1> HIDE DEF fibonacci, Power, Rounded
<1>0. job.base \in Nat /\ a + 1 \in Nat /\ a - 1 \in Nat
  BY JobFields
<1>1. CASE job.strategy \in {"IMMEDIATE", "FIXED"}
  BY <1>0, <1>1 DEF StrategyDelays
<1>2. CASE job.strategy = "LINEAR"
  <2>1. x = job.base * a /\ y = job.base * (a + 1)
    BY <1>2 DEF StrategyDelays
  <2> QED BY <1>0, <2>1, Product
<1>3. CASE job.strategy = "FIBONACCI"
  <2>1. x = job.base * fibonacci[a] /\ y = job.base * fibonacci[a + 1]
    BY <1>3 DEF StrategyDelays
  <2>2. fibonacci[a] \in Nat /\ fibonacci[a + 1] \in Nat /\ fibonacci[a] <= fibonacci[a + 1]
    <3>1. /\ fibonacci[a] \in Nat /\ fibonacci[a - 1] \in Nat
          /\ fibonacci[a + 1] = fibonacci[a] + fibonacci[a - 1]
      BY <1>0, FibonacciIs
    <3> QED BY <3>1
  <2> QED BY <1>0, <2>1, <2>2, Product
<1>4. CASE job.strategy = "EXPONENTIAL"
  <2>1. PICK n \in Nat \ {0}, d \in Nat \ {0} :
          n = job.multiplier.n /\ d = job.multiplier.d /\ d <= n
    BY JobFields
  <2>2. PICK N \in Nat, D \in Nat \ {0} :
          N = job.base * Power(n, a - 1) /\ D = Power(d, a - 1)
    <3>1. Power(n, a - 1) \in Nat /\ Power(d, a - 1) \in Nat \ {0}
      BY <1>0, PositivePower
    <3> QED BY <1>0, <3>1
  <2>3. job.base * Power(n, a + 1 - 1) = N * n /\ Power(d, a + 1 - 1) = D * d
    <3>1. /\ Power(n, a - 1) \in Nat
          /\ Power(n, a - 1 + 1) = n * Power(n, a - 1) /\ Power(d, a - 1 + 1) = d * Power(d, a - 1)
      BY <1>0, PowerIs
    <3>2. a + 1 - 1 = a - 1 + 1
      OBVIOUS
    <3>3. job.base * (n * Power(n, a - 1)) = (job.base * Power(n, a - 1)) * n
      BY <1>0, <3>1
    <3> QED BY <2>2, <3>1, <3>2, <3>3
  <2>4. x = Rounded(N, D) /\ y = Rounded(N * n, D * d)
    BY <1>4, <2>1, <2>2, <2>3 DEF StrategyDelays, Exponential
  <2>5. /\ Rounded(N, D) \in Nat /\ Rounded(N * n, D * d) \in Nat
        /\ Rounded(N, D) <= Rounded(N * n, D * d)
    BY <2>1, <2>2, RoundedGrows
  <2> QED BY <2>4, <2>5
<1> QED BY <1>1, <1>2, <1>3, <1>4, JobFields

\* A strategy without jitter gives a delay for every attempt.
LEMMA StrategyGives ==
  ASSUME job \in Jobs, job.strategy # "EXPONENTIAL_JITTER", NEW a
  PROVE  \E x : x \in StrategyDelays(a)
<1> HIDE DEF fibonacci, Power, Rounded
<1> QED BY JobFields DEF StrategyDelays

LEMMA CapKeepsOrder ==
  ASSUME job \in Jobs, NEW x \in Nat, NEW y \in Nat, x <= y
  PROVE  applyCap(x) <= applyCap(y)
<1>1. job.cap \subseteq Nat /\ \A c, d \in job.cap : c = d
  BY CallConstants
<1>2. CASE job.cap = {}
  BY <1>2 DEF applyCap
<1>3. CASE job.cap # {}
  <2>1. PICK c \in job.cap : c \in Nat /\ \A d \in job.cap : d = c
    BY <1>1, <1>3
  <2>2. (CHOOSE d \in job.cap : TRUE) = c
    BY <2>1
  <2>3. applyCap(x) = IF x > c THEN c ELSE x
    BY <2>1, <2>2 DEF applyCap
  <2>4. applyCap(y) = IF y > c THEN c ELSE y
    BY <2>1, <2>2 DEF applyCap
  <2> QED BY <2>1, <2>3, <2>4
<1> QED BY <1>2, <1>3

-----------------------------------------------------------------------------
(* The chain of requests.                                                  *)

Chain == Continues /\ Chained

LEMMA ChainConstants ==
  ASSUME CallShape
  PROVE  /\ job \in Jobs /\ job.maxRedirects \in Nat /\ Room \in Nat
         /\ sent \in Seq(Sent) /\ Len(sent) \in Nat
         /\ redirects \in Seq([status : Redirecting, from : Urls, to : Urls])
         /\ Len(redirects) \in Nat
<1>1. /\ job \in Jobs /\ sent \in Seq(Sent)
      /\ redirects \in Seq([status : Redirecting, from : Urls, to : Urls])
  BY DEF CallShape, CallTypeOK, Sent
<1> HIDE DEF Sent, Redirecting
<1> QED BY <1>1, CallConstants

\* An attempt that is over has its chain behind it.
LEMMA ChainKept ==
  ASSUME Chain, UNCHANGED <<job, url, method, hasBody, visited, redirects, sent>>,
         UNCHANGED step \/ step' \notin {"visit", "fetch"}
  PROVE  Chain'
<1> HIDE DEF Hop
<1> QED BY DEF Chain, Continues, Chained, Current, Room

\* The first request of an attempt is the job's.
LEMMA ChainStarts ==
  ASSUME job' \in Jobs, step' = "visit", url' = First, sent' = << >>, redirects' = << >>
  PROVE  Chain'
<1>1. PICK room \in Nat : room = Room'
  BY HttpCallAssumption DEF Room
<1>2. Len(sent') = 0 /\ Len(redirects') = 0
  OBVIOUS
<1> HIDE DEF Room, Hop
<1>3. Continues'
  BY <1>1, <1>2 DEF Continues
<1>4. Chained'
  <2>1. \A i \in 1 .. Len(sent') : FALSE
    BY <1>2
  <2>2. Len(sent') <= Len(redirects') + 1 /\ Len(sent') <= room + 1
    BY <1>2
  <2> QED BY <1>1, <2>1, <2>2 DEF Chained
<1> QED BY <1>3, <1>4 DEF Chain

LEMMA VisitChain ==
  ASSUME CallShape, Chain, Visit
  PROVE  Chain'
<1> HIDE DEF Hop, Current
<1> DEFINE n == Len(sent)
<1>1. /\ step = "visit" /\ url \notin visited /\ url \notin Refused
      /\ visited' = visited \cup {url} /\ sent' = Append(sent, Current) /\ step' = "fetch"
      /\ UNCHANGED <<job, url, method, hasBody, redirects>>
  BY DEF Visit, Current
<1>2. /\ sent \in Seq(Sent) /\ Len(redirects) = n /\ n \in Nat /\ n <= Room /\ Room \in Nat
  BY <1>1, ChainConstants DEF Chain, Continues
<1>3. Current \in Sent /\ Current.url = url
  BY DEF CallShape, CallTypeOK, Sent, Current
<1>4. /\ Len(sent') = n + 1
      /\ \A i \in 1 .. n : sent'[i] = sent[i]
      /\ sent'[n + 1] = Current
  BY <1>1, <1>2, <1>3, AppendShape
<1>5. Current' = Current /\ Room' = Room
  BY <1>1 DEF Current, Room
<1>6. Continues'
  BY <1>1, <1>2, <1>4, <1>5 DEF Continues
<1>7. ASSUME NEW i \in 1 .. n + 1
      PROVE  /\ sent'[i].url \in visited' \ Refused
             /\ \A k \in 1 .. i - 1 : sent'[k].url # sent'[i].url
             /\ i = 1 => sent'[i].url = First
             /\ i > 1 => Hop(job', sent'[i - 1], redirects'[i - 1], sent'[i])
  <2>1. CASE i \in 1 .. n
    <3>1. /\ sent[i].url \in visited \ Refused
          /\ \A k \in 1 .. i - 1 : sent[k].url # sent[i].url
          /\ i = 1 => sent[i].url = First
          /\ i > 1 => Hop(job, sent[i - 1], redirects[i - 1], sent[i])
      BY <2>1 DEF Chain, Chained
    <3>2. /\ \A k \in 1 .. i - 1 : k \in 1 .. n
          /\ i > 1 => i - 1 \in 1 .. n
      BY <1>2, <2>1
    <3> QED BY <1>1, <1>4, <2>1, <3>1, <3>2
  <2>2. CASE i = n + 1
    <3>1. sent'[i] = Current /\ \A k \in 1 .. i - 1 : k \in 1 .. n
      BY <1>2, <1>4, <2>2
    <3>2. \A k \in 1 .. n : sent[k].url \in visited
      BY DEF Chain, Chained
    <3>3. i = 1 => url = First
      BY <1>1, <1>2, <2>2 DEF Chain, Continues
    <3>4. ASSUME i > 1 PROVE Hop(job, sent[n], redirects[n], Current) /\ i - 1 = n /\ n \in 1 .. n
      BY <1>1, <1>2, <2>2, <3>4 DEF Chain, Continues
    <3> QED BY <1>1, <1>3, <1>4, <3>1, <3>2, <3>3, <3>4
  <2> QED BY <1>2, <2>1, <2>2
<1>8. Chained'
  <2>1. Len(sent') <= Len(redirects') + 1 /\ Len(sent') <= Room' + 1
    BY <1>1, <1>2, <1>4, <1>5
  <2> QED BY <1>4, <1>7, <2>1 DEF Chained
<1> QED BY <1>6, <1>8 DEF Chain

\* A redirect is added behind the requests' own.
LEMMA MoreRedirects ==
  ASSUME CallShape, Chain, UNCHANGED <<job, visited, sent>>,
         NEW s \in Redirecting, NEW to \in Urls,
         redirects' = Append(redirects, Redirect(s, to))
  PROVE  Chained'
<1> HIDE DEF Hop
<1>1. /\ Len(redirects') = Len(redirects) + 1 /\ Len(redirects) \in Nat /\ Len(sent) \in Nat
      /\ \A i \in 1 .. Len(redirects) : redirects'[i] = redirects[i]
  BY RedirectShape, ChainConstants
<1>2. Len(sent) <= Len(redirects) + 1
  BY DEF Chain, Chained
<1>3. \A i \in 1 .. Len(sent) : i > 1 => redirects'[i - 1] = redirects[i - 1]
  BY <1>1, <1>2
<1> QED BY <1>1, <1>2, <1>3 DEF Chain, Chained, Room

LEMMA FollowedChain ==
  ASSUME CallShape, Chain, RedirectFollowed
  PROVE  Chain'
<1> DEFINE n == Len(sent)
<1>1. PICK s \in Statuses \cap Redirecting, to \in Urls :
        /\ RefusedFor(to) = "follow"
        /\ redirects' = Append(redirects, Redirect(s, to)) /\ url' = to
        /\ method' = IF Rewrites(s) THEN "GET" ELSE method
        /\ hasBody' = (hasBody /\ ~Rewrites(s))
  BY DEF RedirectFollowed
<1>2. /\ step = "fetch" /\ step' = "visit" /\ job.mode = "follow"
      /\ UNCHANGED <<job, visited, sent>>
  BY DEF RedirectFollowed
<1>3. Chained'
  BY <1>1, <1>2, MoreRedirects
<1>4. /\ n = Len(redirects) + 1 /\ sent[n] = Current /\ n \in Nat /\ Len(redirects) \in Nat
      /\ job.maxRedirects \in Nat
  BY <1>2, ChainConstants DEF Chain, Continues
<1>5. Len(redirects') = n /\ redirects'[n] = Redirect(s, to)
  BY <1>1, <1>4, RedirectShape
<1>6. /\ Len(redirects) < job.maxRedirects
      /\ Origin(to) # Origin(url) => job.crossOrigin
      /\ url.scheme = "https" /\ to.scheme = "http" => job.downgrade
  BY <1>1, <1>4 DEF RefusedFor
<1>7. Rewrites(s) <=> s = 303 \/ (s \in {301, 302} /\ method = "POST")
  <2>1. method # "HEAD"
    BY CallConstants DEF CallShape, CallTypeOK
  <2> QED BY <2>1 DEF Rewrites
<1>8. Hop(job, Current, Redirect(s, to), Current')
  <2>1. /\ Current.url = url /\ Current.method = method /\ Current.body = hasBody
        /\ Current'.url = to /\ Current'.method = method' /\ Current'.body = hasBody'
        /\ Redirect(s, to).from = url /\ Redirect(s, to).to = to /\ Redirect(s, to).status = s
    BY <1>1 DEF Current, Redirect
  <2>2. hasBody \in BOOLEAN
    BY DEF CallShape, CallTypeOK
  <2> HIDE DEF Current, Redirect, Origin, Rewrites
  <2>3. CASE Rewrites(s)
    <3>1. method' = "GET" /\ ~hasBody'
      BY <1>1, <2>3
    <3> QED BY <1>6, <1>7, <2>1, <2>3, <3>1 DEF Hop
  <2>4. CASE ~Rewrites(s)
    <3>1. method' = method /\ hasBody' = hasBody
      BY <1>1, <2>2, <2>4
    <3> QED BY <1>6, <1>7, <2>1, <2>4, <3>1 DEF Hop
  <2> QED BY <2>3, <2>4
<1>9. n <= Room'
  BY <1>2, <1>4, <1>6 DEF Room
<1>10. Continues'
  <2> HIDE DEF Hop, Current, Redirect, Room
  <2> QED BY <1>2, <1>4, <1>5, <1>8, <1>9 DEF Continues
<1> QED BY <1>3, <1>10 DEF Chain

LEMMA ManualChain ==
  ASSUME CallShape, Chain, RedirectManual
  PROVE  Chain'
<1>1. PICK s \in Redirecting, to \in Urls : redirects' = Append(redirects, Redirect(s, to))
  BY DEF RedirectManual
<1>2. UNCHANGED <<job, visited, sent>> /\ step' = "classify"
  BY DEF RedirectManual, Return
<1>3. Chained'
  BY <1>1, <1>2, MoreRedirects
<1> QED BY <1>2, <1>3 DEF Chain, Continues

LEMMA ChainNext ==
  ASSUME CallShape, Chain, [CallNext]_callVars
  PROVE  Chain'
<1> DEFINE Still == /\ UNCHANGED <<job, url, method, hasBody, visited, redirects, sent>>
                    /\ UNCHANGED step \/ step' \notin {"visit", "fetch"}
<1>1. CASE LoopFails
  BY <1>1, ChainKept DEF LoopFails, Fails, Return
<1>2. CASE Answer
  BY <1>2, ChainKept DEF Answer, chainVars
<1>3. CASE Succeeds \/ FailsForGood \/ FailsAtLast \/ RetryNotScheduled \/ GivenUp
  <2>1. PICK s : Conclude(s) /\ (s \in Outcomes \/ s = "stuck")
    BY <1>3, Verdicts
  <2>2. Still
    BY <2>1 DEF Conclude, chainVars, Outcomes
  <2> QED BY <2>2, ChainKept
<1>4. CASE RetryScheduled \/ Recovered
  <2>1. PICK retryAfter : ScheduleRetry(retryAfter)
    BY <1>4, Retries
  <2>2. Still
    BY <2>1 DEF ScheduleRetry, chainVars
  <2> QED BY <2>2, ChainKept
<1>5. CASE TimerFires \/ UNCHANGED callVars
  BY <1>5, ChainKept DEF TimerFires, callVars, chainVars
<1>6. CASE NextAttempt
  <2>1. job' \in Jobs /\ step' = "visit" /\ url' = First /\ sent' = << >> /\ redirects' = << >>
    BY <1>6 DEF NextAttempt, FirstRequest, CallShape, CallTypeOK
  <2> QED BY <2>1, ChainStarts
<1> QED
  BY <1>1, <1>2, <1>3, <1>4, <1>5, <1>6, Failures, VisitChain, FollowedChain, ManualChain
  DEF CallNext, Worker, Target

\* A wait is added, or job and waits stay as they are.
LEMMA WaitsNext ==
  ASSUME CallShape, [CallNext]_callVars
  PROVE  \/ UNCHANGED <<job, waits, named>>
         \/ \E retryAfter : ScheduleRetry(retryAfter) /\ Len(waits) = tries - 1
<1>1. CASE RetryScheduled \/ Recovered
  BY <1>1, Retries DEF CallShape, Tried
<1>2. CASE Succeeds \/ FailsForGood \/ FailsAtLast \/ RetryNotScheduled \/ GivenUp
  BY <1>2, Verdicts DEF Conclude
<1>3. CASE LoopFails \/ Visit \/ Answer \/ RedirectManual \/ RedirectFollowed \/ NextAttempt
           \/ TimerFires \/ UNCHANGED callVars
  BY <1>3
  DEF LoopFails, Visit, Answer, RedirectManual, RedirectFollowed, NextAttempt, TimerFires, callVars
<1> QED BY <1>1, <1>2, <1>3, Failures DEF CallNext, Worker, Target

\* What a retry adds.
LEMMA RetryAdds ==
  ASSUME CallShape, NEW retryAfter, ScheduleRetry(retryAfter)
  PROVE  /\ Len(waits') = Len(waits) + 1 /\ Len(waits) \in Nat /\ job' = job
         /\ \A i \in 1 .. Len(waits') : i \in 1 .. Len(waits) \/ i = Len(waits) + 1
         /\ \A i \in 1 .. Len(waits) : waits'[i] = waits[i]
         /\ waits'[Len(waits) + 1] \in Nat
         /\ waits'[Len(waits) + 1] \in computeDelaySeconds(tries + 1, retryAfter)
<1> HIDE DEF computeDelaySeconds
<1>1. waits \in Seq(0 .. MaxDelay) /\ MaxDelay \in Nat
  BY CallConstants DEF CallShape, CallTypeOK
<1>2. PICK x \in computeDelaySeconds(tries + 1, retryAfter) :
        x \in 0 .. MaxDelay /\ waits' = Append(waits, x) /\ UNCHANGED job
  BY DEF ScheduleRetry
<1> QED BY <1>1, <1>2

LEMMA CeilingNext ==
  ASSUME CallShape, CeilingKept, [CallNext]_callVars
  PROVE  CeilingKept'
<1>1. ASSUME NEW retryAfter, ScheduleRetry(retryAfter) PROVE CeilingKept'
  <2>1. \A c \in job.cap : waits'[Len(waits) + 1] <= c
    <3> HIDE DEF computeDelaySeconds
    <3>1. PICK x \in computeDelaySeconds(tries + 1, retryAfter) : x \in Nat /\ x = waits'[Len(waits) + 1]
      BY <1>1, RetryAdds
    <3>2. job \in Jobs
      BY DEF CallShape, CallTypeOK
    <3>3. \A c \in job.cap : x <= c
      BY <3>1, <3>2, DelayFits
    <3> QED BY <3>1, <3>3
  <2> QED BY <1>1, <2>1, RetryAdds DEF CeilingKept
<1>2. CASE UNCHANGED <<job, waits, named>>
  BY <1>2 DEF CeilingKept
<1> QED BY <1>1, <1>2, WaitsNext

LEMMA WaitsFollowNext ==
  ASSUME CallShape, WaitsFollow, [CallNext]_callVars
  PROVE  WaitsFollow'
<1>1. ASSUME NEW retryAfter, ScheduleRetry(retryAfter), Len(waits) = tries - 1
      PROVE  WaitsFollow'
  <2> SUFFICES ASSUME ~named', NEW i \in 1 .. Len(waits')
               PROVE  Follows(waits[i], i + 1)'
    BY DEF WaitsFollow
  <2>1. ~named /\ ~(job.honor /\ retryAfter # {}) /\ job' = job
    BY <1>1 DEF ScheduleRetry
  <2>2. SUFFICES Follows(waits'[i], i + 1)
    BY <2>1 DEF Follows, StrategyDelays, Exponential, applyCap
  <2>3. CASE i \in 1 .. Len(waits)
    <3> HIDE DEF Follows
    <3> QED BY <1>1, <2>1, <2>3, RetryAdds DEF WaitsFollow
  <2>4. CASE i = Len(waits) + 1
    <3>1. tries \in Nat /\ i = tries /\ waits'[i] \in computeDelaySeconds(i + 1, retryAfter)
      <4>1. tries \in 1 .. MostTries /\ MostTries \in Nat
        BY CallConstants DEF CallShape, CallTypeOK
      <4>2. tries \in Nat /\ i = tries
        BY <1>1, <2>4, <4>1
      <4> HIDE DEF computeDelaySeconds
      <4> QED BY <1>1, <2>4, <4>2, RetryAdds
    <3>2. PICK x \in IF Numbered THEN StrategyDelays(i + 1) ELSE UnnumberedDelays :
            waits'[i] = applyCap(x)
      <4> HIDE DEF StrategyDelays, applyCap, Numbered, UnnumberedDelays
      <4> QED BY <2>1, <3>1 DEF computeDelaySeconds
    <3>3. CASE Numbered
      <4> HIDE DEF StrategyDelays, applyCap, Numbered, UnnumberedDelays
      <4> QED BY <3>2, <3>3 DEF Follows
    <3>4. CASE ~Numbered
      <4>1. i = 1 /\ x \in UnnumberedDelays
        <5>1. tries \in 1 .. MostTries /\ MostTries \in Nat
          BY CallConstants DEF CallShape, CallTypeOK
        <5> QED BY <3>1, <3>2, <3>4, <5>1 DEF Numbered
      <4>2. x \in StrategyDelays(2) \/ x = 0
        BY <4>1 DEF UnnumberedDelays, StrategyDelays
      <4> HIDE DEF StrategyDelays, applyCap
      <4> QED BY <3>2, <4>1, <4>2 DEF Follows
    <3> QED BY <3>3, <3>4
  <2> QED BY <1>1, <2>3, <2>4, RetryAdds
<1>2. CASE UNCHANGED <<job, waits, named>>
  BY <1>2 DEF WaitsFollow, Follows, StrategyDelays, Exponential, applyCap
<1> QED BY <1>1, <1>2, WaitsNext

-----------------------------------------------------------------------------
(* The theorems about the calls.                                           *)

LEMMA CallInvAlways == CallSpec => []CallInv
<1>1. CallInit => CallInv
  <2> SUFFICES ASSUME CallInit PROVE CallInv
    OBVIOUS
  <2>1. CallShape
    BY CallShapeInit
  <2>2. Chain
    <3>1. Len(sent) = 0 /\ Len(redirects) = 0 /\ step = "visit" /\ url = First
      BY DEF CallInit, FirstRequest
    <3> QED BY <2>1, <3>1, ChainConstants DEF Chain, Continues, Chained
  <2>3. CeilingKept
    BY DEF CallInit, CeilingKept
  <2>4. WaitsFollow
    BY DEF CallInit, WaitsFollow
  <2> QED BY <2>1, <2>2, <2>3, <2>4 DEF Chain, CallInv
<1>2. CallInv /\ [CallNext]_callVars => CallInv'
  BY CallShapeNext, ChainNext, CeilingNext, WaitsFollowNext DEF CallInv, Chain
<1> QED BY <1>1, <1>2, PTL DEF CallSpec

\* The shape of a call and of the retries around it, whatever the targets
\* answer and whichever retry policy the job has.
THEOREM CallTypeCorrect == CallSpec => []CallTypeOK
<1>1. CallInv => CallTypeOK
  BY DEF CallInv, CallShape
<1> QED BY <1>1, CallInvAlways, PTL

\* For any URLs and targets: the requests of an attempt are one chain from the
\* job's URL within maxRedirects, none of them twice or to a refused URL, and
\* each hop is one that the job's redirect policy allows (executeHttpJob).
THEOREM ChainsFollowPolicy == CallSpec => []ChainFollowsPolicy
<1>1. CallInv => ChainFollowsPolicy
  <2> SUFFICES ASSUME CallInv PROVE ChainFollowsPolicy
    OBVIOUS
  <2>1. Len(sent) \in Nat /\ Room \in Nat /\ Len(sent) <= Room + 1
    BY ChainConstants DEF CallInv, Chained
  <2>2. Len(sent) <= 1 + IF job.mode = "follow" THEN job.maxRedirects ELSE 0
    BY <2>1 DEF Room
  <2>3. ASSUME NEW i \in 1 .. Len(sent)
        PROVE  /\ sent[i].url \notin Refused
               /\ \A k \in 1 .. i - 1 : sent[k].url # sent[i].url
               /\ i = 1 => sent[i].url = First
               /\ i # 1 => Hop(job, sent[i - 1], redirects[i - 1], sent[i])
    BY <2>1 DEF CallInv, Chained
  <2> QED BY <2>2, <2>3 DEF ChainFollowsPolicy, Hop
<1> QED BY <1>1, CallInvAlways, PTL

\* For any redirects: a request keeps the method and body of the one before,
\* but for the changes to a GET without a body that the fetch standard asks for.
THEOREM BodiesFollowRedirects == CallSpec => []BodyFollowsRedirects
<1>1. CallInv => BodyFollowsRedirects
  <2> SUFFICES ASSUME CallInv PROVE BodyFollowsRedirects
    OBVIOUS
  <2>1. ASSUME NEW i \in 2 .. Len(sent)
        PROVE  Hop(job, sent[i - 1], redirects[i - 1], sent[i])
    <3>1. i \in 1 .. Len(sent) /\ i > 1
      BY ChainConstants DEF CallInv
    <3> QED BY <3>1 DEF CallInv, Chained
  <2> QED BY <2>1 DEF BodyFollowsRedirects, Hop
<1> QED BY <1>1, CallInvAlways, PTL

\* No wait exceeds the ceiling of the job, whatever its strategy computes and
\* whatever a target's Retry-After asks for; without either a Retry-After or
\* jitter, and with a multiplier of one at least, waits never get shorter, for
\* any attempt, base and multiplier (computeDelaySeconds, applyCap).
THEOREM WaitsKeepTheirBounds == CallSpec => []WaitsFit
<1>1. CallInv => WaitsFit
  <2> SUFFICES ASSUME CallInv, ~named, job.strategy # "EXPONENTIAL_JITTER",
                      job.multiplier.n >= job.multiplier.d, NEW i \in 2 .. Len(waits)
               PROVE  waits[i] >= waits[i - 1]
    BY DEF CallInv, CeilingKept, WaitsFit
  <2> HIDE DEF StrategyDelays, applyCap
  <2>0. job \in Jobs /\ waits \in Seq(0 .. MaxDelay)
    BY DEF CallInv, CallShape, CallTypeOK
  <2>1. job \in Jobs /\ Len(waits) \in Nat /\ \A k \in 1 .. Len(waits) : waits[k] \in 0 .. MaxDelay
    <3>1. PICK D : D = 0 .. MaxDelay
      OBVIOUS
    <3>2. waits \in Seq(D)
      BY <2>0, <3>1
    <3>3. Len(waits) \in Nat /\ \A k \in 1 .. Len(waits) : waits[k] \in D
      BY <3>2
    <3> QED BY <2>0, <3>1, <3>3
  <2>2. i \in 1 .. Len(waits) /\ i - 1 \in 1 .. Len(waits) /\ i - 1 + 1 = i /\ i \in Nat \ {0}
    BY <2>1
  <2>3. Follows(waits[i - 1], i) /\ Follows(waits[i], i + 1)
    <3>1. Follows(waits[i - 1], i - 1 + 1) /\ Follows(waits[i], i + 1)
      BY <2>2 DEF CallInv, WaitsFollow
    <3> QED BY <2>2, <3>1
  <2>4. PICK y \in StrategyDelays(i + 1) : waits[i] = applyCap(y)
    BY <2>1, <2>2, <2>3 DEF Follows
  <2>5. PICK x \in Nat : waits[i - 1] = applyCap(x) /\ y \in Nat /\ x <= y
    <3>1. CASE \E x \in StrategyDelays(i) : waits[i - 1] = applyCap(x)
      BY <2>1, <2>2, <2>4, <3>1, DelaysGrow
    <3>2. CASE waits[i - 1] = applyCap(0)
      <4>1. \E z : z \in StrategyDelays(i)
        BY <2>1, StrategyGives
      <4>2. y \in Nat
        BY <2>1, <2>2, <2>4, <4>1, DelaysGrow
      <4> QED BY <3>2, <4>2
    <3> QED BY <2>3, <3>1, <3>2 DEF Follows
  <2>6. applyCap(x) <= applyCap(y)
    BY <2>1, <2>5, CapKeepsOrder
  <2>7. waits[i] \in Nat /\ waits[i - 1] \in Nat
    <3>1. MaxDelay \in Nat
      BY <2>1, CallConstants
    <3> QED BY <2>1, <2>2, <3>1
  <2> QED BY <2>4, <2>5, <2>6, <2>7
<1> QED BY <1>1, CallInvAlways, PTL
=============================================================================
