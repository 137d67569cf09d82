---------------------------- MODULE MergerProofs ----------------------------
(***************************************************************************)
(* Theorems about Merger, for any executions, mergers and batch size, and  *)
(* any number of faults.                                                   *)
(***************************************************************************)
EXTENDS Merger, WellFoundedInduction, TLAPS

Event == [exec : Execs, type : {"running"} \cup Final]

\* The stream's final events of e, as positions.
FinalsOf(e) == {i \in 1 .. Len(stream) : stream[i].exec = e /\ stream[i].type \in Final}

(* The inductive invariant, in named parts. *)

\* No worker is at an execution that waits for its retry.
Paced == \A e \in Execs : emits[e] # "running" => row[e] # "retry_wait"

\* Its worker is done with an execution when its final event is out, and all
\* its final events agree; a final row is theirs.
Reported ==
  \A e \in Execs :
    /\ FinalsOf(e) # {} => emits[e] = "nothing"
    /\ \A i, j \in FinalsOf(e) : stream[i].type = stream[j].type
    /\ row[e] \in Final => \E i \in FinalsOf(e) : stream[i].type = row[e]

\* An outcome that got into the hash stays there until the row has it.
Recorded ==
  \A e \in recorded :
    /\ emits[e] \in Final \cup {"nothing"}
    /\ hash[e] \in Final \/ (hash[e] = "none" /\ row[e] \in Final)

\* Only the hash of what has its result is to be cleared.
ClearsResults == \A m \in Mergers : \A e \in uncleared[m] : row[e] \in Final

Inv ==
  /\ TypeOK
  /\ Paced
  /\ Reported
  /\ Recorded
  /\ ClearsResults

-----------------------------------------------------------------------------
(* What the helpers return.                                                *)

\* A bounded set of numbers that is not empty has a last one.
LEMMA LastOf ==
  ASSUME NEW n \in Nat, NEW S \in SUBSET (1 .. n), S # {}
  PROVE  \E i \in S : \A j \in S : j <= i
<1> DEFINE T == {n - i : i \in S}
           Less == {p \in Nat \X Nat : p[1] < p[2]}
<1>1. T \subseteq Nat /\ T # {}
  <2>1. \A i \in S : i \in Nat /\ n - i \in Nat
    OBVIOUS
  <2> QED BY <2>1
<1>2. IsWellFoundedOn(Less, Nat)
  BY NatLessThanWellFounded DEF OpToRel
<1>3. PICK x \in T : \A y \in T : ~(y < x)
  <2>1. \E x \in T : \A y \in T : ~ (<<y, x>> \in Less)
    <3> HIDE DEF T, Less
    <3> QED BY <1>1, <1>2, WFMin
  <2> QED BY <1>1, <2>1
<1>4. PICK i \in S : x = n - i
  OBVIOUS
<1>5. ASSUME NEW j \in S PROVE j <= i
  <2>1. n - j \in T /\ ~(n - j < n - i)
    BY <1>3, <1>4
  <2>2. i \in Int /\ j \in Int
    OBVIOUS
  <2> HIDE DEF T, Less
  <2> QED BY <2>1, <2>2
<1> QED BY <1>5

\* The outcome of an execution in a batch is the type of a final event of it.
LEMMA OutcomeIsFinal ==
  ASSUME TypeOK, NEW ids \in SUBSET (1 .. delivered), NEW e \in Completed(ids)
  PROVE  e \in Execs /\ \E i \in FinalsOf(e) : Outcome(ids, e) = stream[i].type
<1> DEFINE ofE == {i \in ids : stream[i].exec = e /\ stream[i].type \in Final}
           last == CHOOSE i \in ofE : \A j \in ofE : j <= i
<1>1. /\ Len(stream) \in Nat /\ ids \subseteq 1 .. Len(stream)
      /\ \A i \in 1 .. Len(stream) : stream[i] \in Event
  <2>1. stream \in Seq(Event) /\ delivered \in 0 .. Len(stream)
    BY DEF TypeOK, Event
  <2> QED BY <2>1
<1>2. ofE # {} /\ ofE \subseteq 1 .. Len(stream) /\ ofE \subseteq FinalsOf(e)
  BY <1>1 DEF Completed, FinalsOf
<1>3. \E i \in ofE : \A j \in ofE : j <= i
  BY <1>1, <1>2, LastOf
<1>4. last \in ofE
  <2> HIDE DEF ofE
  <2> QED BY <1>3
<1>5. Outcome(ids, e) = stream[last].type
  BY DEF Outcome
<1>6. e \in Execs
  BY <1>1, <1>2 DEF Event
<1> QED BY <1>2, <1>4, <1>5, <1>6

\* What appending an event adds to the final ones.
LEMMA Appended ==
  ASSUME TypeOK, NEW x \in Event, stream' = Append(stream, x)
  PROVE  /\ stream' \in Seq(Event) /\ Len(stream') = Len(stream) + 1
         /\ \A i \in 1 .. Len(stream) : stream'[i] = stream[i]
         /\ stream'[Len(stream) + 1] = x
         /\ \A e \in Execs :
              FinalsOf(e)' = IF x.exec = e /\ x.type \in Final
                               THEN FinalsOf(e) \cup {Len(stream) + 1}
                               ELSE FinalsOf(e)
<1>1. stream \in Seq(Event) /\ Len(stream) \in Nat
  BY DEF TypeOK, Event
<1>2. /\ stream' \in Seq(Event) /\ Len(stream') = Len(stream) + 1
      /\ \A i \in 1 .. Len(stream) : stream'[i] = stream[i]
      /\ stream'[Len(stream) + 1] = x
  BY <1>1
<1>3. 1 .. Len(stream') = 1 .. Len(stream) \cup {Len(stream) + 1}
  BY <1>1, <1>2
<1>4. ASSUME NEW e \in Execs
      PROVE  FinalsOf(e)' = IF x.exec = e /\ x.type \in Final
                               THEN FinalsOf(e) \cup {Len(stream) + 1}
                               ELSE FinalsOf(e)
  BY <1>1, <1>2, <1>3 DEF FinalsOf
<1> QED BY <1>2, <1>4
-----------------------------------------------------------------------------
LEMMA Initially == Init => Inv
<1> SUFFICES ASSUME Init PROVE Inv
  OBVIOUS
<1>1. stream = << >> /\ stream \in Seq(Event) /\ Len(stream) = 0
  BY DEF Init
<1>2. \A e \in Execs : FinalsOf(e) = {}
  BY <1>1 DEF FinalsOf
<1>3. TypeOK
  <2>1. /\ batch \in [Mergers -> SUBSET (1 .. delivered)] /\ pending \subseteq 1 .. delivered
        /\ delivered \in 0 .. Len(stream)
    BY <1>1 DEF Init
  <2>2. /\ attempt \in [Execs -> 1 .. MaxAttempts] /\ faults \in 0 .. MaxFaults
        /\ stream \in Seq([exec : Execs, type : {"running"} \cup Final])
    BY <1>1, MergerAssumption DEF Init, Event
  <2> QED BY <2>1, <2>2 DEF Init, TypeOK
<1> QED
  BY <1>2, <1>3 DEF Init, Inv, Paced, Reported, Recorded, ClearsResults, Final

\* What the invariant says of the state's shape.
LEMMA Shape ==
  ASSUME TypeOK
  PROVE  /\ row \in [Execs -> {"queued", "running", "retry_wait"} \cup Final]
         /\ tries \in Plans /\ attempt \in [Execs -> 1 .. MaxAttempts]
         /\ \A e \in Execs : tries[e] \in 0 .. MaxAttempts
         /\ hash \in [Execs -> {"none", "running"} \cup Final]
         /\ emits \in [Execs -> {"running", "outcome", "nothing"} \cup Final]
         /\ stream \in Seq(Event) /\ Len(stream) \in Nat
         /\ delivered \in 0 .. Len(stream) /\ pending \subseteq 1 .. delivered
         /\ batch \in [Mergers -> SUBSET (1 .. delivered)]
         /\ uncleared \in [Mergers -> SUBSET Execs] /\ applied \in [Mergers -> BOOLEAN]
         /\ recorded \subseteq Execs /\ faults \in 0 .. MaxFaults
         /\ MaxAttempts \in Nat /\ MaxFaults \in Nat /\ BatchSize \in Nat /\ BatchSize > 0
<1>1. stream \in Seq(Event)
  BY DEF TypeOK, Event
<1>2. \A e \in Execs : tries[e] \in 0 .. MaxAttempts
  BY MergerAssumption DEF TypeOK
<1> QED BY <1>1, <1>2, MergerAssumption DEF TypeOK

LEMMA FaultTyped == ASSUME TypeOK, Fault PROVE faults' \in 0 .. MaxFaults
BY MergerAssumption DEF TypeOK, Fault

LEMMA SameStream ==
  ASSUME UNCHANGED stream, NEW e
  PROVE  FinalsOf(e)' = FinalsOf(e)
BY DEF FinalsOf

(* The worker's writes. *)
LEMMA RunningStep == ASSUME Inv, NEW e \in Execs, Running(e) PROVE Inv'
<1> DEFINE x == [exec |-> e, type |-> "running"]
<1>1. x \in Event /\ stream' = Append(stream, x) /\ x.type \notin Final
  BY DEF Running, Event, Final
<1>2. TypeOK
  BY DEF Inv
<1>3. /\ stream' \in Seq(Event) /\ Len(stream') = Len(stream) + 1
      /\ \A i \in 1 .. Len(stream) : stream'[i] = stream[i]
      /\ \A d \in Execs : FinalsOf(d)' = FinalsOf(d)
  BY <1>1, <1>2, Appended
<1>4. TypeOK'
  <2>1. stream' \in Seq([exec : Execs, type : {"running"} \cup Final])
    BY <1>3 DEF Event
  <2>2. delivered \in 0 .. Len(stream')
    BY <1>2, <1>3, Shape
  <2> QED
    BY <1>2, <2>1, <2>2, Shape DEF Running, TypeOK, groupVars, mergerVars
<1>5. Paced'
  BY <1>2, Shape DEF Inv, Paced, Running
<1>6. Reported'
  <2>1. FinalsOf(e) = {}
    BY DEF Inv, Reported, Running
  <2>2. \A d \in Execs : \A i \in FinalsOf(d) : stream'[i] = stream[i]
    BY <1>3 DEF FinalsOf
  <2>3. \A d \in Execs : row'[d] = row[d] /\ (d # e => emits'[d] = emits[d])
    BY <1>2, Shape DEF Running
  <2> QED BY <1>3, <2>1, <2>2, <2>3 DEF Inv, Reported
<1>7. Recorded'
  <2>1. e \notin recorded
    BY DEF Inv, Recorded, Running, Final
  <2> QED BY <1>2, <2>1, Shape DEF Inv, Recorded, Running
<1>8. ClearsResults'
  BY DEF Inv, ClearsResults, Running, mergerVars
<1> QED BY <1>4, <1>5, <1>6, <1>7, <1>8 DEF Inv

LEMMA RetryStep ==
  ASSUME Inv, NEW e \in Execs, Retry(e)
  PROVE  Inv' /\ row[e] \in {"queued", "running"} /\ attempt[e] < MaxAttempts
<1>1. TypeOK
  BY DEF Inv
<1>2. row[e] \in {"queued", "running"} /\ FinalsOf(e) = {} /\ e \notin recorded
  BY <1>1, Shape DEF Inv, Paced, Reported, Recorded, Retry, Final
<1>3. attempt[e] < MaxAttempts
  BY <1>1, Shape DEF Retry
<1>4. TypeOK'
  <2>1. attempt' \in [Execs -> 1 .. MaxAttempts]
    BY <1>1, <1>3, Shape DEF Retry
  <2> QED BY <1>1, <2>1, Shape DEF Retry, TypeOK, groupVars, mergerVars
<1>5. Paced'
  BY <1>1, Shape DEF Inv, Paced, Retry
<1>6. Reported'
  <2>1. \A d \in Execs : FinalsOf(d)' = FinalsOf(d) /\ stream' = stream
    BY SameStream DEF Retry
  <2>2. /\ \A d \in Execs : d # e => row'[d] = row[d] /\ emits'[d] = emits[d]
        /\ row'[e] \notin Final
    BY <1>1, Shape DEF Retry, Final
  <2> QED BY <1>2, <2>1, <2>2 DEF Inv, Reported
<1>7. Recorded'
  BY <1>1, <1>2, Shape DEF Inv, Recorded, Retry
<1>8. ClearsResults'
  BY <1>1, <1>2, Shape DEF Inv, ClearsResults, Retry, mergerVars, Final
<1> QED BY <1>2, <1>3, <1>4, <1>5, <1>6, <1>7, <1>8 DEF Inv

LEMMA RequeueStep == ASSUME Inv, NEW e \in Execs, Requeue(e) PROVE Inv'
<1>1. TypeOK
  BY DEF Inv
<1>2. TypeOK'
  BY <1>1, Shape DEF Requeue, TypeOK, workerVars, groupVars, mergerVars
<1>3. \A d \in Execs : d # e => row'[d] = row[d]
  BY <1>1, Shape DEF Requeue
<1>4. row[e] = "retry_wait" /\ row'[e] = "queued"
  BY <1>1, Shape DEF Requeue
<1>5. UNCHANGED <<hash, stream, emits, recorded, uncleared>>
  BY DEF Requeue, workerVars, mergerVars
<1>6. Paced'
  BY <1>3, <1>4, <1>5 DEF Inv, Paced
<1>7. Reported'
  BY <1>3, <1>4, <1>5, SameStream DEF Inv, Reported, Final
<1>8. Recorded'
  BY <1>1, <1>3, <1>4, <1>5, Shape DEF Inv, Recorded, Final
<1>9. ClearsResults'
  BY <1>1, <1>3, <1>4, <1>5, Shape DEF Inv, ClearsResults, Final
<1> QED BY <1>2, <1>6, <1>7, <1>8, <1>9 DEF Inv

LEMMA RecordStep == ASSUME Inv, NEW e \in Execs, NEW s \in Final, Record(e, s) PROVE Inv'
<1>1. TypeOK /\ s # "running" /\ s # "outcome" /\ s # "none"
  BY DEF Inv, Final
<1>2. TypeOK'
  <2>1. faults' \in 0 .. MaxFaults
    BY <1>1, FaultTyped, Shape DEF Record
  <2> QED BY <1>1, <2>1, Shape DEF Record, TypeOK, groupVars, mergerVars
<1>3. FinalsOf(e) = {} /\ emits[e] = "outcome" /\ e \notin recorded
  BY DEF Inv, Reported, Recorded, Record, Final
<1>4. /\ emits'[e] = s /\ \A d \in Execs : d # e => emits'[d] = emits[d]
      /\ \A d \in Execs : d # e => hash'[d] = hash[d]
      /\ \/ hash'[e] = s
         \/ recorded' = recorded
      /\ recorded' \subseteq recorded \cup {e}
      /\ UNCHANGED <<row, stream, uncleared>>
  BY <1>1, Shape DEF Record, mergerVars
<1>5. Paced'
  BY <1>3, <1>4 DEF Inv, Paced
<1>6. Reported'
  BY <1>3, <1>4, SameStream DEF Inv, Reported
<1>7. Recorded'
  BY <1>1, <1>3, <1>4, Shape DEF Inv, Recorded
<1>8. ClearsResults'
  BY <1>4 DEF Inv, ClearsResults
<1> QED BY <1>2, <1>5, <1>6, <1>7, <1>8 DEF Inv

LEMMA ReportStep == ASSUME Inv, NEW e \in Execs, Report(e) PROVE Inv'
<1> DEFINE x == [exec |-> e, type |-> emits[e]]
           n == Len(stream) + 1
<1>1. TypeOK /\ emits[e] \in Final /\ x \in Event /\ stream' = Append(stream, x)
  BY DEF Inv, Report, Event
<1>2. /\ stream' \in Seq(Event) /\ Len(stream') = Len(stream) + 1
      /\ \A i \in 1 .. Len(stream) : stream'[i] = stream[i]
      /\ stream'[n] = x
      /\ \A d \in Execs : FinalsOf(d)' = IF d = e THEN FinalsOf(d) \cup {n} ELSE FinalsOf(d)
  BY <1>1, Appended
<1>3. TypeOK'
  <2>1. stream' \in Seq([exec : Execs, type : {"running"} \cup Final])
    BY <1>2 DEF Event
  <2>2. delivered \in 0 .. Len(stream')
    BY <1>1, <1>2, Shape
  <2> QED
    BY <1>1, <2>1, <2>2, Shape DEF Report, TypeOK, groupVars, mergerVars
<1>4. FinalsOf(e) = {} /\ row[e] \notin Final
  BY <1>1 DEF Inv, Reported, Final
<1>5. /\ emits'[e] = "nothing" /\ \A d \in Execs : d # e => emits'[d] = emits[d]
      /\ UNCHANGED <<row, hash, recorded, uncleared>>
  BY <1>1, Shape DEF Report, mergerVars
<1>6. Paced'
  BY <1>1, <1>5 DEF Inv, Paced, Final
<1>7. Reported'
  <2>1. \A d \in Execs : \A i \in FinalsOf(d) : stream'[i] = stream[i]
    BY <1>2 DEF FinalsOf
  <2> QED BY <1>2, <1>4, <1>5, <2>1 DEF Inv, Reported
<1>8. Recorded'
  BY <1>1, <1>5, Shape DEF Inv, Recorded
<1>9. ClearsResults'
  BY <1>5 DEF Inv, ClearsResults
<1> QED BY <1>3, <1>6, <1>7, <1>8, <1>9 DEF Inv

(* The merger. *)

\* A step that leaves the workers, the rows and the hash alone and clears no
\* result but the ones it had keeps the invariant.
LEMMA QuietStep ==
  ASSUME Inv, TypeOK', UNCHANGED <<row, hash, stream, workerVars>>,
         \A m \in Mergers : uncleared'[m] \subseteq uncleared[m]
  PROVE  Inv'
<1>1. UNCHANGED <<row, hash, stream, emits, recorded>>
  BY DEF workerVars
<1> QED
  BY <1>1, SameStream DEF Inv, Paced, Reported, Recorded, ClearsResults

LEMMA DropStep ==
  ASSUME Inv, NEW m \in Mergers, Drop(m), UNCHANGED <<row, hash, stream, workerVars>>,
         faults' \in 0 .. MaxFaults, UNCHANGED delivered, pending' \subseteq pending
  PROVE  Inv'
<1>1. TypeOK /\ UNCHANGED <<tries, attempt, emits, recorded>>
  BY DEF Inv, workerVars
<1>2. /\ batch' \in [Mergers -> SUBSET (1 .. delivered)]
      /\ uncleared' \in [Mergers -> SUBSET Execs] /\ applied' \in [Mergers -> BOOLEAN]
      /\ \A n \in Mergers : uncleared'[n] \subseteq uncleared[n]
  BY <1>1, Shape DEF Drop
<1>3. TypeOK'
  BY <1>1, <1>2, Shape DEF TypeOK
<1> QED BY <1>2, <1>3, QuietStep

LEMMA ReadStep == ASSUME Inv, NEW m \in Mergers, Read(m) PROVE Inv'
<1> DEFINE count == IF Len(stream) - delivered < BatchSize THEN Len(stream) - delivered
                                                          ELSE BatchSize
           fresh == (delivered + 1) .. (delivered + count)
<1>1. TypeOK /\ UNCHANGED <<row, hash, stream, workerVars, tries, attempt, emits, recorded>>
  BY DEF Inv, Read, workerVars
<1>2. count \in Nat /\ delivered \in Nat /\ delivered + count \in 0 .. Len(stream)
  BY <1>1, Shape DEF Read
<1>3. /\ delivered' = delivered + count /\ pending' = pending \cup fresh
      /\ batch' = [batch EXCEPT ![m] = fresh] /\ UNCHANGED <<uncleared, applied, faults>>
  BY DEF Read, Hold
<1>4. 1 .. delivered \subseteq 1 .. delivered' /\ fresh \subseteq 1 .. delivered'
  BY <1>2, <1>3
<1>5. TypeOK'
  <2>1. delivered' \in 0 .. Len(stream')
    BY <1>1, <1>2, <1>3
  <2>2. /\ pending' \subseteq 1 .. delivered'
        /\ batch' \in [Mergers -> SUBSET (1 .. delivered')]
    <3> HIDE DEF fresh
    <3> QED BY <1>1, <1>3, <1>4, Shape
  <2> QED BY <1>1, <1>3, <2>1, <2>2, Shape DEF TypeOK
<1> QED BY <1>1, <1>3, <1>5, QuietStep

LEMMA ReclaimStep == ASSUME Inv, NEW m \in Mergers, Reclaim(m) PROVE Inv'
<1>1. TypeOK /\ UNCHANGED <<row, hash, stream, workerVars, groupVars, uncleared, applied, faults>>
  BY DEF Inv, Reclaim, Hold
<1>2. batch' \in [Mergers -> SUBSET (1 .. delivered)]
  BY <1>1, Shape DEF Reclaim, Hold
<1>3. TypeOK'
  BY <1>1, <1>2, Shape DEF TypeOK, workerVars, groupVars
<1> QED BY <1>1, <1>3, QuietStep

\* What a flush makes of the rows: a row without a result gets one that the
\* stream has for it, and then it was not waiting; or it starts to run.
LEMMA FlushedRows ==
  ASSUME Inv, NEW m \in Mergers, Flush(m), NEW e \in Execs
  PROVE  /\ row'[e] # row[e] =>
              \/ row[e] = "queued" /\ row'[e] = "running"
              \/ row[e] \in {"queued", "running"} /\ row'[e] \in Final
         /\ row'[e] \in Final => \E i \in FinalsOf(e) : stream[i].type = row'[e]
         /\ e \in Completed(batch[m]) => row'[e] \in Final
<1>1. TypeOK /\ batch[m] \in SUBSET (1 .. delivered)
  BY Shape DEF Inv
<1>2. CASE e \in Completed(batch[m])
  <2>1. PICK i \in FinalsOf(e) : row'[e] = stream[i].type
    BY <1>1, <1>2, OutcomeIsFinal DEF Flush
  <2>2. row'[e] \in Final
    BY <2>1 DEF FinalsOf
  <2>3. emits[e] = "nothing" /\ row[e] # "retry_wait"
    BY <2>1 DEF Inv, Reported, Paced
  <2>4. row[e] \in Final => row[e] = row'[e]
    BY <2>1 DEF Inv, Reported
  <2>5. row[e] \in {"queued", "running"} \cup Final
    BY <1>1, <2>3, Shape
  <2> QED BY <2>1, <2>2, <2>4, <2>5
<1>3. CASE e \notin Completed(batch[m])
  <2>1. \/ row[e] = "queued" /\ row'[e] = "running"
        \/ row'[e] = row[e]
    BY <1>3 DEF Flush
  <2> QED BY <1>3, <2>1 DEF Inv, Reported, Final
<1> QED BY <1>2, <1>3

LEMMA FlushStep == ASSUME Inv, NEW m \in Mergers, Flush(m) PROVE Inv'
<1>1. /\ TypeOK
      /\ UNCHANGED <<hash, stream, tries, attempt, emits, recorded, groupVars, batch, faults>>
  BY DEF Inv, Flush, workerVars
<1>2. \A e \in Execs : /\ row'[e] = row[e] \/ row'[e] = "running" \/ row'[e] \in Final
                       /\ row[e] \in Final => row'[e] \in Final
  BY FlushedRows DEF Final
<1>3. /\ uncleared' = [uncleared EXCEPT ![m] = Completed(batch[m])]
      /\ applied' = [applied EXCEPT ![m] = TRUE]
  BY DEF Flush
<1>4. Completed(batch[m]) \subseteq Execs
  BY <1>1, Shape, OutcomeIsFinal
<1>5. TypeOK'
  <2>1. row' \in [Execs -> {"queued", "running", "retry_wait"} \cup Final]
    <3>1. row' = [e \in Execs |-> row'[e]]
      BY DEF Flush
    <3> QED BY <1>1, <1>2, <3>1, Shape
  <2>2. uncleared' \in [Mergers -> SUBSET Execs] /\ applied' \in [Mergers -> BOOLEAN]
    BY <1>1, <1>3, <1>4, Shape
  <2> QED BY <1>1, <2>1, <2>2, Shape DEF TypeOK, groupVars
<1>6. Paced'
  BY <1>1, <1>2 DEF Inv, Paced, Final
<1>7. Reported'
  BY <1>1, SameStream, FlushedRows DEF Inv, Reported
<1>8. Recorded'
  BY <1>1, <1>2, Shape DEF Inv, Recorded
<1>9. ClearsResults'
  <2>1. \A n \in Mergers : n # m => uncleared'[n] = uncleared[n]
    BY <1>1, <1>3, Shape
  <2>2. uncleared'[m] = Completed(batch[m])
    BY <1>1, <1>3, Shape
  <2>3. \A e \in Completed(batch[m]) : row'[e] \in Final
    BY <1>4, FlushedRows
  <2> QED BY <1>1, <1>2, <2>1, <2>2, <2>3, Shape DEF Inv, ClearsResults
<1> QED BY <1>5, <1>6, <1>7, <1>8, <1>9 DEF Inv

LEMMA ClearStep == ASSUME Inv, NEW m \in Mergers, NEW e \in Execs, Clear(m, e) PROVE Inv'
<1>1. /\ TypeOK /\ row[e] \in Final
      /\ UNCHANGED <<row, stream, tries, attempt, emits, recorded, groupVars, batch, applied>>
  BY DEF Inv, ClearsResults, Clear, workerVars
<1>2. /\ uncleared' \in [Mergers -> SUBSET Execs]
      /\ \A n \in Mergers : uncleared'[n] \subseteq uncleared[n]
  BY <1>1, Shape DEF Clear
<1>3. /\ hash' \in [Execs -> {"none", "running"} \cup Final]
      /\ \A d \in Execs : d # e => hash'[d] = hash[d]
      /\ hash'[e] = hash[e] \/ hash'[e] = "none"
  BY <1>1, Shape DEF Clear
<1>4. faults' \in 0 .. MaxFaults
  BY <1>1, Shape, FaultTyped DEF Clear
<1>5. TypeOK'
  BY <1>1, <1>2, <1>3, <1>4, Shape DEF TypeOK, groupVars
<1>6. Paced' /\ Reported'
  BY <1>1, SameStream DEF Inv, Paced, Reported
<1>7. Recorded'
  BY <1>1, <1>3, Shape DEF Inv, Recorded
<1>8. ClearsResults'
  BY <1>1, <1>2 DEF Inv, ClearsResults
<1> QED BY <1>5, <1>6, <1>7, <1>8 DEF Inv

LEMMA ExpireStep == ASSUME Inv, NEW e \in Execs, Expire(e) PROVE Inv'
<1>1. /\ TypeOK /\ row[e] \in Final
      /\ UNCHANGED <<row, stream, tries, attempt, emits, recorded, groupVars, mergerVars, faults>>
  BY DEF Inv, Expire, workerVars
<1>2. /\ hash' \in [Execs -> {"none", "running"} \cup Final]
      /\ \A d \in Execs : d # e => hash'[d] = hash[d]
      /\ hash'[e] = "none"
  BY <1>1, Shape DEF Expire
<1>3. TypeOK'
  BY <1>1, <1>2, Shape DEF TypeOK, groupVars, mergerVars
<1>4. Paced' /\ Reported' /\ ClearsResults'
  BY <1>1, SameStream DEF Inv, Paced, Reported, ClearsResults, mergerVars
<1>5. Recorded'
  BY <1>1, <1>2, Shape DEF Inv, Recorded
<1> QED BY <1>3, <1>4, <1>5 DEF Inv

-----------------------------------------------------------------------------
LEMMA InvStep == Inv /\ [Next]_vars => Inv'
<1> SUFFICES ASSUME Inv, [Next]_vars PROVE Inv'
  OBVIOUS
<1>1. ASSUME NEW e \in Execs, WorkerStep(e) \/ Expire(e) PROVE Inv'
  BY <1>1, RunningStep, RetryStep, RequeueStep, RecordStep, ReportStep, ExpireStep
  DEF WorkerStep
<1>2. ASSUME NEW m \in Mergers, NEW e \in Execs, Clear(m, e) PROVE Inv'
  BY <1>2, ClearStep
<1>3. ASSUME NEW m \in Mergers, Read(m) \/ Reclaim(m) \/ Flush(m) PROVE Inv'
  BY <1>3, ReadStep, ReclaimStep, FlushStep
<1>4. ASSUME NEW m \in Mergers, FlushFails(m) \/ Abandon(m) PROVE Inv'
  <2>1. /\ Drop(m) /\ UNCHANGED <<row, hash, stream, workerVars, delivered, pending>>
        /\ Fault \/ UNCHANGED faults
    BY <1>4 DEF FlushFails, Abandon, groupVars
  <2>2. faults' \in 0 .. MaxFaults
    BY <2>1, FaultTyped, Shape DEF Inv
  <2> QED BY <2>1, <2>2, DropStep
<1>5. ASSUME NEW m \in Mergers, Ack(m) PROVE Inv'
  <2>1. /\ Drop(m) /\ UNCHANGED <<row, hash, stream, workerVars, delivered, faults>>
        /\ pending' \subseteq pending
    BY <1>5 DEF Ack
  <2>2. faults' \in 0 .. MaxFaults
    BY <2>1, Shape DEF Inv
  <2> QED BY <2>1, <2>2, DropStep
<1>6. CASE UNCHANGED vars
  <2>1. UNCHANGED <<row, hash, stream, workerVars, uncleared>>
    BY <1>6 DEF vars, mergerVars
  <2>2. TypeOK'
    BY <1>6, Shape DEF vars, workerVars, groupVars, mergerVars, Inv, TypeOK
  <2> QED BY <2>1, <2>2, QuietStep
<1> QED BY <1>1, <1>2, <1>3, <1>4, <1>5, <1>6 DEF Next, MergerStep

LEMMA Invariant == Spec => []Inv
BY Initially, InvStep, PTL DEF Spec

\* Every variable has its shape: among the rest, a merger holds and
\* acknowledges entries only that the group has delivered.
THEOREM TypeCorrect == Spec => []TypeOK
<1>1. Inv => TypeOK
  BY DEF Inv
<1> QED BY <1>1, Invariant, PTL

\* Between the flush, the clearing and the acknowledgement there is no moment
\* at which recovery finds a recorded outcome neither in the hash nor in the row.
THEOREM OutcomesStayKnown == Spec => []StaysKnown
<1>1. Inv => StaysKnown
  BY DEF Inv, Recorded, StaysKnown, Final
<1> QED BY <1>1, Invariant, PTL

\* However batches are repeated, delayed and reordered, a row moves as its
\* lifecycle allows.
THEOREM RowsKeepTheirLifecycle == Spec => RowLifecycle
<1>1. ASSUME Inv, [Next]_vars
      PROVE  [\A e \in Execs : Life(e)!Next \/ UNCHANGED <<row[e], attempt[e]>>]_<<row, attempt>>
  <2> USE DEF Life!Next, Life!Run, Life!Retry, Life!Requeue, Life!Finish, Life!Open, Life!Final
  <2>0. TypeOK
    BY <1>1 DEF Inv
  <2>1. ASSUME NEW m \in Mergers, Flush(m), NEW e \in Execs
        PROVE  Life(e)!Next \/ UNCHANGED <<row[e], attempt[e]>>
    BY <1>1, <2>1, FlushedRows DEF Flush, workerVars, Final
  <2>2. ASSUME NEW d \in Execs, Retry(d), NEW e \in Execs
        PROVE  Life(e)!Next \/ UNCHANGED <<row[e], attempt[e]>>
    <3>1. /\ row' = [row EXCEPT ![d] = "retry_wait"]
          /\ attempt' = [attempt EXCEPT ![d] = @ + 1]
      BY <2>2 DEF Retry
    <3> QED BY <1>1, <2>0, <2>2, <3>1, RetryStep, Shape
  <2>3. ASSUME NEW d \in Execs, Requeue(d), NEW e \in Execs
        PROVE  Life(e)!Next \/ UNCHANGED <<row[e], attempt[e]>>
    BY <2>0, <2>3, Shape DEF Requeue, workerVars
  <2>4. ASSUME NEW d \in Execs,
               Running(d) \/ Report(d) \/ Expire(d) \/ \E s \in Final : Record(d, s)
        PROVE  UNCHANGED <<row, attempt>>
    BY <2>4 DEF Running, Report, Expire, Record, workerVars
  <2>5. ASSUME NEW m \in Mergers,
               \/ Read(m) \/ Reclaim(m) \/ FlushFails(m) \/ Ack(m) \/ Abandon(m)
               \/ \E e \in Execs : Clear(m, e)
        PROVE  UNCHANGED <<row, attempt>>
    BY <2>5 DEF Read, Reclaim, FlushFails, Ack, Abandon, Clear, workerVars
  <2>6. CASE UNCHANGED vars
    BY <2>6 DEF vars, workerVars
  <2> HIDE DEF Life!Next
  <2> QED
    BY <1>1, <2>1, <2>2, <2>3, <2>4, <2>5, <2>6 DEF Next, WorkerStep, MergerStep
<1> QED BY <1>1, Invariant, PTL DEF Spec, RowLifecycle
=============================================================================
