--------------------------- MODULE SessionsProofs ---------------------------
(***************************************************************************)
(* Sessions for any number of requests in progress and of attempts: who    *)
(* holds a session, which codes are pending, how many guesses there are.   *)
(***************************************************************************)
EXTENDS Sessions, FiniteSetTheorems, TLAPS

-----------------------------------------------------------------------------
(* Sessions.                                                               *)

\* Tokens are numbered as they are issued, and go back to some login.
TokenShape ==
  /\ req = [q \in Requests |-> req[q]]
  /\ password \in Nat /\ logins \in Nat
  /\ \E n \in Nat : DOMAIN token = 1 .. n
  /\ token = [t \in DOMAIN token |-> token[t]]
  /\ \A t \in DOMAIN token :
       /\ token[t] = [status |-> token[t].status, login |-> token[t].login,
                      password |-> token[t].password]
       /\ token[t].login \in 1 .. logins

\* A session of an earlier password that the property admits.
Excused(t) == t \in slipped \/ token[t].login \in outlived

\* What a refresh has read stands for a session in use, and, as long as no reset
\* has come since, for the password in force.
Rotating(q) ==
  req[q].step = "rotate" =>
    /\ req[q].token \in DOMAIN token
    /\ req[q].found.status = "active"
    /\ req[q].seen \in 0 .. password
    /\ req[q].seen = password =>
         token[req[q].token].password = password \/ Excused(req[q].token)

SessionInv ==
  /\ TokenShape
  /\ \A q \in Requests : Rotating(q)
  /\ OneSessionPerLogin
  /\ ResetEndsSessions

LEMMA NewTokenIsNew ==
  ASSUME TokenShape
  PROVE  /\ NewToken \notin DOMAIN token
         /\ \E n \in Nat : DOMAIN token \cup {NewToken} = 1 .. n
<1>1. PICK n \in Nat : DOMAIN token = 1 .. n
  BY DEF TokenShape
<1>2. Cardinality(1 .. n) = n
  <2>1. Cardinality(1 .. n) = IF 1 > n THEN 0 ELSE n - 1 + 1
    BY FS_Interval
  <2> QED BY <2>1
<1>3. NewToken = n + 1
  BY <1>1, <1>2 DEF NewToken
<1>4. DOMAIN token \cup {n + 1} = 1 .. n + 1
  BY <1>1
<1> QED BY <1>1, <1>3, <1>4

\* Revoking touches nothing of a token but its status.
LEMMA RevokedEffect ==
  ASSUME TokenShape, NEW S
  PROVE  /\ DOMAIN Revoked(S) = DOMAIN token
         /\ Revoked(S) = [t \in DOMAIN token |-> Revoked(S)[t]]
         /\ \A t \in DOMAIN token :
              /\ Revoked(S)[t].login = token[t].login
              /\ Revoked(S)[t].password = token[t].password
              /\ Revoked(S)[t].status = IF t \in S THEN "revoked" ELSE token[t].status
              /\ Revoked(S)[t] = [status |-> Revoked(S)[t].status,
                                  login |-> Revoked(S)[t].login,
                                  password |-> Revoked(S)[t].password]
<1>1. ASSUME NEW t \in DOMAIN token
      PROVE  Revoked(S)[t] = IF t \in S
                               THEN [status |-> "revoked", login |-> token[t].login,
                                     password |-> token[t].password]
                               ELSE token[t]
  BY <1>1 DEF Revoked, TokenShape
<1>2. DOMAIN Revoked(S) = DOMAIN token /\ Revoked(S) = [t \in DOMAIN token |-> Revoked(S)[t]]
  BY DEF Revoked
<1> QED BY <1>1, <1>2 DEF TokenShape

\* A request that goes on, or ends, while tokens change.
LEMMA StillRotating ==
  ASSUME NEW q, Rotating(q), req'[q] = req[q] \/ req'[q].step # "rotate",
         DOMAIN token \subseteq DOMAIN token', slipped \subseteq slipped',
         outlived \subseteq outlived', password' = password,
         \A t \in DOMAIN token : /\ token'[t].password = token[t].password
                                /\ token'[t].login = token[t].login
  PROVE  Rotating(q)'
BY DEF Rotating, Excused

\* The steps that leave all tokens as they are.
LEMMA SessionsKept ==
  ASSUME SessionInv, NEW p \in Requests,
         UNCHANGED <<password, token, logins, slipped, outlived, forked>>,
         req' = [req EXCEPT ![p] = req'[p]], Rotating(p)'
  PROVE  SessionInv'
<1> USE DEF SessionInv
<1>1. \A q \in Requests : q # p => req'[q] = req[q]
  BY DEF TokenShape
<1>2. TokenShape'
  BY DEF TokenShape
<1>3. \A q \in Requests : Rotating(q)'
  BY <1>1 DEF Rotating, Excused
<1>4. OneSessionPerLogin' /\ ResetEndsSessions'
  BY DEF OneSessionPerLogin, ResetEndsSessions, Active
<1> QED BY <1>2, <1>3, <1>4

\* The steps that only revoke.
LEMMA SessionsRevoked ==
  ASSUME SessionInv, NEW p \in Requests, NEW S,
         token' = Revoked(S), req' = [req EXCEPT ![p] = Idle],
         UNCHANGED <<password, logins, slipped, outlived, forked>>
  PROVE  SessionInv'
<1> USE DEF SessionInv
<1>0. /\ DOMAIN token' = DOMAIN token
      /\ token' = [t \in DOMAIN token' |-> token'[t]]
      /\ \A t \in DOMAIN token :
           /\ token'[t].login = token[t].login
           /\ token'[t].password = token[t].password
           /\ token'[t].status = IF t \in S THEN "revoked" ELSE token[t].status
           /\ token'[t] = [status |-> token'[t].status, login |-> token'[t].login,
                           password |-> token'[t].password]
  BY RevokedEffect
<1>1. \A q \in Requests : req'[q] = IF q = p THEN Idle ELSE req[q]
  BY DEF TokenShape
<1>2. TokenShape'
  <2>1. req' = [q \in Requests |-> req'[q]]
    BY DEF TokenShape
  <2> QED BY <2>1, <1>0 DEF TokenShape
<1>3. \A q \in Requests : Rotating(q)'
  BY <1>1, <1>0, StillRotating DEF Idle
<1>4. Active' = Active \ S
  BY <1>0 DEF Active
<1>5. OneSessionPerLogin'
  BY <1>4, <1>0 DEF OneSessionPerLogin, Active
<1>6. ResetEndsSessions'
  BY <1>4, <1>0 DEF ResetEndsSessions, Active
<1> QED BY <1>2, <1>3, <1>5, <1>6

\* The steps that open a session of a new login.
LEMMA SessionOpened ==
  ASSUME SessionInv, NEW p \in Requests, NEW seen, NEW pw,
         token' = Extended(token, NewToken, Fresh(logins + 1, pw)),
         logins' = logins + 1, req' = [req EXCEPT ![p] = Idle],
         slipped' = slipped \cup (IF seen = password THEN {} ELSE {NewToken}),
         outlived' = outlived \cup (IF seen = pw THEN {} ELSE {logins'}),
         UNCHANGED <<password, forked>>
  PROVE  SessionInv'
<1> USE DEF SessionInv
<1> DEFINE new == NewToken
<1>0. new \notin DOMAIN token /\ \E n \in Nat : DOMAIN token \cup {new} = 1 .. n
  BY NewTokenIsNew
<1> HIDE DEF new
<1>1. \A q \in Requests : req'[q] = IF q = p THEN Idle ELSE req[q]
  BY DEF TokenShape
<1>2. /\ DOMAIN token' = DOMAIN token \cup {new}
      /\ token' = [t \in DOMAIN token' |-> token'[t]]
      /\ token'[new] = [status |-> "active", login |-> logins + 1, password |-> pw]
      /\ \A t \in DOMAIN token : token'[t] = token[t]
  BY <1>0 DEF Extended, Fresh, new
<1>3. logins \in Nat /\ \A t \in DOMAIN token : token[t].login \in 1 .. logins
  BY DEF TokenShape
<1>4. TokenShape'
  <2>1. req' = [q \in Requests |-> req'[q]]
    BY DEF TokenShape
  <2>2. \A t \in DOMAIN token' : token'[t].login \in 1 .. logins'
    BY <1>2, <1>3
  <2>3. \A t \in DOMAIN token' :
          token'[t] = [status |-> token'[t].status, login |-> token'[t].login,
                       password |-> token'[t].password]
    BY <1>2 DEF TokenShape
  <2>4. (\E n \in Nat : DOMAIN token = 1 .. n)' /\ logins' \in Nat /\ password' \in Nat
    <3>1. PICK n \in Nat : DOMAIN token \cup {new} = 1 .. n
      BY <1>0
    <3>2. DOMAIN token' = 1 .. n
      BY <3>1, <1>2
    <3> QED BY <3>2 DEF TokenShape
  <2> QED BY <1>2, <2>1, <2>2, <2>3, <2>4 DEF TokenShape
<1>5. \A q \in Requests : Rotating(q)'
  BY <1>1, <1>2, StillRotating DEF Idle
<1>6. Active' = Active \cup {new}
  BY <1>2 DEF Active
<1>7. OneSessionPerLogin'
  BY <1>2, <1>3, <1>6 DEF OneSessionPerLogin, Active
<1>8. ResetEndsSessions'
  BY <1>0, <1>2, <1>6 DEF ResetEndsSessions, Active, new
<1> QED BY <1>4, <1>5, <1>7, <1>8

\* A refresh: the old token's login goes on with the new one.
LEMMA SessionRotated ==
  ASSUME SessionInv, NEW p \in Requests, Rotate(p)
  PROVE  SessionInv'
<1> USE DEF SessionInv
<1> DEFINE new == NewToken
           old == req[p].token
<1>0. new \notin DOMAIN token /\ \E n \in Nat : DOMAIN token \cup {new} = 1 .. n
  BY NewTokenIsNew
<1>1. \A q \in Requests : req'[q] = IF q = p THEN Idle ELSE req[q]
  BY DEF TokenShape, Rotate, Finish
<1>2. /\ old \in DOMAIN token
      /\ req[p].found.status = "active"
      /\ req[p].seen = password => token[old].password = password \/ Excused(old)
  BY DEF Rotate, Rotating
<1>3. /\ token' = Extended(Revoked({old}), new, Fresh(token[old].login, token[old].password))
      /\ slipped' = slipped \cup (IF req[p].seen # password \/ old \in slipped
                                    THEN {new} ELSE {})
      /\ forked' = forked \cup (IF token[old] = req[p].found THEN {} ELSE {token[old].login})
      /\ UNCHANGED <<password, logins, outlived>>
  BY DEF Rotate, userVars
<1> HIDE DEF new, old
<1>4. /\ DOMAIN token' = DOMAIN token \cup {new}
      /\ token' = [t \in DOMAIN token' |-> token'[t]]
      /\ token'[new] = [status |-> "active", login |-> token[old].login,
                        password |-> token[old].password]
      /\ \A t \in DOMAIN token :
           /\ token'[t].login = token[t].login
           /\ token'[t].password = token[t].password
           /\ token'[t].status = IF t = old THEN "revoked" ELSE token[t].status
           /\ token'[t] = [status |-> token'[t].status, login |-> token'[t].login,
                           password |-> token'[t].password]
  <2> DEFINE rest == Revoked({old})
  <2>1. DOMAIN rest = DOMAIN token
    BY RevokedEffect
  <2>2. \A t \in DOMAIN token :
          /\ rest[t].login = token[t].login
          /\ rest[t].password = token[t].password
          /\ rest[t].status = IF t \in {old} THEN "revoked" ELSE token[t].status
          /\ rest[t] = [status |-> rest[t].status, login |-> rest[t].login,
                        password |-> rest[t].password]
    BY RevokedEffect
  <2>3. token' = Extended(rest, new, Fresh(token[old].login, token[old].password))
    BY <1>3
  <2> HIDE DEF rest
  <2>4. /\ DOMAIN token' = DOMAIN token \cup {new}
        /\ token' = [t \in DOMAIN token' |-> token'[t]]
        /\ token'[new] = [status |-> "active", login |-> token[old].login,
                          password |-> token[old].password]
        /\ \A t \in DOMAIN token : token'[t] = rest[t]
    BY <1>0, <2>1, <2>3 DEF Extended, Fresh
  <2> QED BY <2>2, <2>4
<1>5. TokenShape'
  <2>1. req' = [q \in Requests |-> req'[q]]
    BY DEF TokenShape, Rotate, Finish
  <2>2. ASSUME NEW t \in DOMAIN token' PROVE token'[t].login \in 1 .. logins'
    <3>1. \A u \in DOMAIN token : token[u].login \in 1 .. logins
      BY DEF TokenShape
    <3>2. token'[t].login = token[old].login \/ t \in DOMAIN token
      BY <1>4
    <3> QED BY <3>1, <3>2, <1>2, <1>3, <1>4
  <2>3. \A t \in DOMAIN token' :
          token'[t] = [status |-> token'[t].status, login |-> token'[t].login,
                       password |-> token'[t].password]
    BY <1>4
  <2> QED BY <1>0, <1>3, <1>4, <2>1, <2>2, <2>3 DEF TokenShape
<1>6. ASSUME NEW q \in Requests PROVE Rotating(q)'
  <2>1. req'[q] = req[q] \/ req'[q].step # "rotate"
    BY <1>1 DEF Idle
  <2>2. DOMAIN token \subseteq DOMAIN token' /\ slipped \subseteq slipped'
    BY <1>3, <1>4
  <2>3. \A t \in DOMAIN token : /\ token'[t].password = token[t].password
                                /\ token'[t].login = token[t].login
    BY <1>4
  <2> QED BY <1>3, <2>1, <2>2, <2>3, StillRotating
<1>7. Active' = (Active \ {old}) \cup {new}
  BY <1>0, <1>2, <1>4 DEF Active
<1>8. OneSessionPerLogin'
  <2> SUFFICES ASSUME NEW s \in Active', NEW t \in Active',
                      token'[s].login = token'[t].login, token'[s].login \notin forked'
               PROVE  s = t
    BY DEF OneSessionPerLogin
  <2>1. \A u \in Active \ {old} : u \in DOMAIN token /\ token'[u].login = token[u].login
    BY <1>4 DEF Active
  <2>2. CASE s # new /\ t # new
    BY <2>1, <2>2, <1>3, <1>7 DEF OneSessionPerLogin
  <2>3. ASSUME NEW u \in Active \ {old}, token'[u].login = token[old].login,
               token[old].login \notin forked'
        PROVE  FALSE
    <3>1. token[old] = req[p].found
      BY <2>3, <1>3
    <3>2. old \in Active
      BY <3>1, <1>2 DEF Active
    <3> QED BY <2>1, <2>3, <3>2, <1>3 DEF OneSessionPerLogin
  <2> QED BY <2>2, <2>3, <1>4, <1>7
<1>9. ResetEndsSessions'
  <2> SUFFICES ASSUME NEW t \in Active'
               PROVE  \/ token'[t].password = password' \/ t \in slipped'
                      \/ token'[t].login \in outlived'
    BY DEF ResetEndsSessions
  <2>1. CASE t = new
    BY <2>1, <1>2, <1>3, <1>4 DEF Excused
  <2>2. CASE t # new
    BY <2>2, <1>3, <1>4, <1>7 DEF ResetEndsSessions, Active
  <2> QED BY <2>1, <2>2
<1> QED BY <1>5, <1>6, <1>8, <1>9

\* The COMMIT of a reset.
LEMMA SessionsReset ==
  ASSUME SessionInv, NEW p \in Requests, CommitReset(p)
  PROVE  SessionInv'
<1> DEFINE S == Active \cap req[p].issued
<1>0. /\ token' = Revoked(S) /\ req' = [req EXCEPT ![p] = Idle]
      /\ password' = password + 1
      /\ slipped' = DOMAIN token \ req[p].issued
      /\ UNCHANGED <<logins, forked>>
  BY DEF CommitReset, CommitResetBut, Finish
<1> HIDE DEF S
<1>1. TokenShape
  BY DEF SessionInv
<1>2. /\ DOMAIN Revoked(S) = DOMAIN token
      /\ Revoked(S) = [t \in DOMAIN token |-> Revoked(S)[t]]
      /\ \A t \in DOMAIN token :
           /\ Revoked(S)[t].login = token[t].login
           /\ Revoked(S)[t].password = token[t].password
           /\ Revoked(S)[t].status = IF t \in S THEN "revoked" ELSE token[t].status
           /\ Revoked(S)[t] = [status |-> Revoked(S)[t].status,
                               login |-> Revoked(S)[t].login,
                               password |-> Revoked(S)[t].password]
  BY <1>1, RevokedEffect
<1>3. /\ DOMAIN token' = DOMAIN token
      /\ token' = [t \in DOMAIN token' |-> token'[t]]
      /\ \A t \in DOMAIN token :
           /\ token'[t].login = token[t].login
           /\ token'[t].password = token[t].password
           /\ token'[t].status = IF t \in S THEN "revoked" ELSE token[t].status
           /\ token'[t] = [status |-> token'[t].status, login |-> token'[t].login,
                           password |-> token'[t].password]
  BY <1>0, <1>2
<1>4. password \in Nat /\ req = [q \in Requests |-> req[q]]
  BY <1>1 DEF TokenShape
<1>5. /\ req' = [q \in Requests |-> req'[q]]
      /\ \A q \in Requests : req'[q] = IF q = p THEN Idle ELSE req[q]
  BY <1>0, <1>4
<1>6. TokenShape'
  BY <1>0, <1>1, <1>3, <1>4, <1>5 DEF TokenShape
<1>7. ASSUME NEW q \in Requests PROVE Rotating(q)'
  <2> SUFFICES ASSUME req'[q].step = "rotate" PROVE Rotating(q)'
    BY DEF Rotating
  <2>1. req'[q] = req[q]
    BY <1>5 DEF Idle
  <2>2. /\ req[q].token \in DOMAIN token /\ req[q].found.status = "active"
        /\ req[q].seen \in 0 .. password
    BY <2>1 DEF SessionInv, Rotating
  <2>3. req'[q].seen \in 0 .. password' /\ req'[q].seen # password'
    BY <1>0, <1>4, <2>1, <2>2
  <2> QED BY <1>3, <2>1, <2>2, <2>3 DEF Rotating
<1>8. Active' = Active \ S
  BY <1>3 DEF Active
<1>9. OneSessionPerLogin'
  BY <1>0, <1>3, <1>8 DEF SessionInv, OneSessionPerLogin, Active
<1>10. ResetEndsSessions'
  BY <1>0, <1>8 DEF ResetEndsSessions, Active, S
<1> QED BY <1>6, <1>7, <1>9, <1>10 DEF SessionInv

-----------------------------------------------------------------------------
(* Codes.                                                                  *)

Coding == {"exhaust", "wrong", "use", "commit"}

\* Codes are numbered as they are issued; a request holds one of them.
CodeShape ==
  /\ req = [q \in Requests |-> req[q]]
  /\ \E n \in Nat : DOMAIN code = 1 .. n
  /\ code = [c \in DOMAIN code |-> code[c]]
  /\ uses = [c \in DOMAIN code |-> uses[c]]
  /\ \A c \in DOMAIN code :
       /\ code[c] = [kind |-> code[c].kind, status |-> code[c].status,
                     attempts |-> code[c].attempts, password |-> code[c].password]
       /\ code[c].attempts \in Nat /\ uses[c] \in Nat
  /\ \A q \in Requests : req[q].step \in Coding => req[q].code \in DOMAIN code

\* A request that is about to create a code consumes all that are pending,
\* and is the only one of its kind, or else its kind is crowded.
Creating(q) ==
  req[q].step = "create" /\ req[q].kind \notin crowded =>
    /\ Pending(req[q].kind) \subseteq req[q].old
    /\ \A p \in Requests \ {q} : req[p].step = "create" => req[p].kind # req[q].kind

OnePending == \A kind \in Kinds \ crowded : \A c, d \in Pending(kind) : c = d

ConsumedWhenUsed ==
  \A c \in DOMAIN code \ overtaken :
    uses[c] = 0 \/ (uses[c] = 1 /\ code[c].status = "consumed")

\* The requests whose wrong code has not been counted yet.
Uncounted(c) == {q \in Requests : req[q].step = "wrong" /\ req[q].code = c}

CountedOnce ==
  \A c \in DOMAIN code :
    code[c].attempts + Cardinality(Uncounted(c)) <= MaxAttempts + Cardinality(Requests) - 1

CodeInv ==
  /\ CodeShape
  /\ \A q \in Requests : Creating(q)
  /\ OnePending
  /\ ConsumedWhenUsed
  /\ CountedOnce

LEMMA UncountedFinite ==
  ASSUME NEW c
  PROVE  /\ IsFiniteSet(Uncounted(c)) /\ Cardinality(Uncounted(c)) \in Nat
         /\ Cardinality(Uncounted(c)) <= Cardinality(Requests)
         /\ Cardinality(Requests) \in Nat
<1>1. Uncounted(c) \subseteq Requests /\ IsFiniteSet(Requests)
  BY SessionsAssumption DEF Uncounted
<1>2. /\ IsFiniteSet(Uncounted(c))
      /\ Cardinality(Uncounted(c)) <= Cardinality(Requests)
  BY <1>1, FS_Subset
<1> QED BY <1>1, <1>2, FS_CardinalityType

\* What a step must leave for the count: no code gets more attempts, and no
\* other request is about to count one.
LEMMA StillCounted ==
  ASSUME CodeInv, NEW c \in DOMAIN code,
         Uncounted(c)' \subseteq Uncounted(c), code'[c].attempts = code[c].attempts
  PROVE  code'[c].attempts + Cardinality(Uncounted(c)')
           <= MaxAttempts + Cardinality(Requests) - 1
<1>1. /\ Cardinality(Uncounted(c)') <= Cardinality(Uncounted(c))
      /\ IsFiniteSet(Uncounted(c)')
  BY UncountedFinite, FS_Subset
<1>2. Cardinality(Uncounted(c)') \in Nat /\ Cardinality(Uncounted(c)) \in Nat
  BY <1>1, UncountedFinite, FS_CardinalityType
<1>3. Cardinality(Requests) \in Nat
  BY UncountedFinite
<1>4. code[c].attempts + Cardinality(Uncounted(c)) <= MaxAttempts + Cardinality(Requests) - 1
  BY DEF CodeInv, CountedOnce
<1> QED BY <1>1, <1>2, <1>3, <1>4, SessionsAssumption DEF CodeInv, CodeShape

\* The steps that leave all codes as they are.
LEMMA CodesKept ==
  ASSUME CodeInv, NEW p \in Requests, UNCHANGED <<code, uses, crowded, overtaken>>,
         req' = [req EXCEPT ![p] = req'[p]], req'[p].step \notin {"create", "wrong"},
         req'[p].step \in Coding => req'[p].code \in DOMAIN code
  PROVE  CodeInv'
<1> USE DEF CodeInv
<1>1. \A q \in Requests : q # p => req'[q] = req[q]
  BY DEF CodeShape
<1>2. CodeShape'
  BY <1>1 DEF CodeShape
<1>3. \A q \in Requests : Creating(q)'
  BY <1>1 DEF Creating, Pending
<1>4. OnePending' /\ ConsumedWhenUsed'
  BY DEF OnePending, ConsumedWhenUsed, Pending
<1>5. \A c \in DOMAIN code : Uncounted(c)' \subseteq Uncounted(c)
  BY <1>1 DEF Uncounted
<1>6. CountedOnce'
  BY <1>5, StillCounted DEF CountedOnce
<1> QED BY <1>2, <1>3, <1>4, <1>6

LEMMA ConsumedEffect ==
  ASSUME CodeShape, NEW S
  PROVE  /\ DOMAIN Consumed(S) = DOMAIN code
         /\ Consumed(S) = [c \in DOMAIN code |-> Consumed(S)[c]]
         /\ \A c \in DOMAIN code :
              /\ Consumed(S)[c].kind = code[c].kind
              /\ Consumed(S)[c].attempts = code[c].attempts
              /\ Consumed(S)[c].password = code[c].password
              /\ Consumed(S)[c].status = IF c \in S THEN "consumed" ELSE code[c].status
              /\ Consumed(S)[c] = [kind |-> Consumed(S)[c].kind,
                                   status |-> Consumed(S)[c].status,
                                   attempts |-> Consumed(S)[c].attempts,
                                   password |-> Consumed(S)[c].password]
<1>1. ASSUME NEW c \in DOMAIN code
      PROVE  Consumed(S)[c] = IF c \in S
                                THEN [kind |-> code[c].kind, status |-> "consumed",
                                      attempts |-> code[c].attempts, password |-> code[c].password]
                                ELSE code[c]
  BY <1>1 DEF Consumed, CodeShape
<1>2. DOMAIN Consumed(S) = DOMAIN code /\ Consumed(S) = [c \in DOMAIN code |-> Consumed(S)[c]]
  BY DEF Consumed
<1> QED BY <1>1, <1>2 DEF CodeShape

LEMMA NewCodeIsNew ==
  ASSUME CodeShape
  PROVE  /\ NewCode \notin DOMAIN code
         /\ \E n \in Nat : DOMAIN code \cup {NewCode} = 1 .. n
<1>1. PICK n \in Nat : DOMAIN code = 1 .. n
  BY DEF CodeShape
<1>2. Cardinality(1 .. n) = n
  <2>1. Cardinality(1 .. n) = IF 1 > n THEN 0 ELSE n - 1 + 1
    BY FS_Interval
  <2> QED BY <2>1
<1>3. NewCode = n + 1
  BY <1>1, <1>2 DEF NewCode
<1>4. DOMAIN code \cup {n + 1} = 1 .. n + 1
  BY <1>1
<1> QED BY <1>1, <1>3, <1>4

LEMMA SupersedeStep ==
  ASSUME CodeInv, NEW p \in Requests, Supersede(p)
  PROVE  CodeInv'
<1> USE DEF CodeInv
<1> DEFINE k == req[p].kind
           old == Pending(k)
<1>1. /\ req[p].step = "issue"
      /\ req' = [req EXCEPT ![p] = [step |-> "create", kind |-> k, seen |-> req[p].seen,
                                   old |-> old]]
      /\ crowded' = crowded \cup
           {j \in {k} : \E q \in Requests : req[q].step = "create" /\ req[q].kind = j}
      /\ UNCHANGED <<code, uses, overtaken>>
  BY DEF Supersede
<1>2. \A q \in Requests :
        req'[q] = IF q = p
                    THEN [step |-> "create", kind |-> k, seen |-> req[p].seen, old |-> old]
                    ELSE req[q]
  BY <1>1 DEF CodeShape
<1>3. \A j : Pending(j)' = Pending(j)
  BY <1>1 DEF Pending
<1> HIDE DEF k, old
<1>4. CodeShape'
  BY <1>1, <1>2 DEF CodeShape, Coding
<1>5. ASSUME NEW q \in Requests PROVE Creating(q)'
  <2> SUFFICES ASSUME req'[q].step = "create", req'[q].kind \notin crowded'
               PROVE  /\ \A c \in DOMAIN code' :
                           code'[c].kind = req'[q].kind /\ code'[c].status = "pending"
                             => c \in req'[q].old
                      /\ \A r \in Requests \ {q} :
                           req'[r].step = "create" => req'[r].kind # req'[q].kind
    BY DEF Creating, Pending
  <2>1. CASE q = p
    BY <2>1, <1>1, <1>2 DEF old, Pending
  <2>2. CASE q # p
    <3>1. req'[q] = req[q] /\ req[q].kind # k /\ req[q].kind \notin crowded
      BY <2>2, <1>1, <1>2
    <3> QED BY <3>1, <1>1, <1>2, <2>2 DEF Creating, Pending
  <2> QED BY <2>1, <2>2
<1>6. OnePending' /\ ConsumedWhenUsed'
  BY <1>1, <1>3 DEF OnePending, ConsumedWhenUsed
<1>7. \A c \in DOMAIN code : Uncounted(c)' \subseteq Uncounted(c)
  BY <1>2 DEF Uncounted
<1>8. CountedOnce'
  BY <1>1, <1>7, StillCounted DEF CountedOnce
<1> QED BY <1>4, <1>5, <1>6, <1>8

LEMMA CreateCodeStep ==
  ASSUME CodeInv, NEW p \in Requests, CreateCode(p)
  PROVE  CodeInv'
<1> USE DEF CodeInv
<1> DEFINE k == req[p].kind
           old == req[p].old
           new == NewCode
           rest == Consumed(old)
           seen == req[p].seen
<1>0. new \notin DOMAIN code /\ \E n \in Nat : DOMAIN code \cup {new} = 1 .. n
  BY NewCodeIsNew
<1>1. /\ req[p].step = "create"
      /\ code' = Extended(rest, new, NewCodeOf(k, seen))
      /\ uses' = Extended(uses, new, 0)
      /\ UNCHANGED <<crowded, overtaken>>
  BY DEF CreateCode
<1>2. \A q \in Requests : req'[q] = IF q = p THEN Idle ELSE req[q]
  BY DEF CreateCode, Finish, CodeShape
<1>3. /\ DOMAIN rest = DOMAIN code
      /\ \A c \in DOMAIN code :
           /\ rest[c].kind = code[c].kind /\ rest[c].attempts = code[c].attempts
           /\ rest[c].status = IF c \in old THEN "consumed" ELSE code[c].status
           /\ rest[c] = [kind |-> rest[c].kind, status |-> rest[c].status,
                         attempts |-> rest[c].attempts, password |-> rest[c].password]
  <2> HIDE DEF old
  <2>1. /\ DOMAIN Consumed(old) = DOMAIN code
        /\ \A c \in DOMAIN code :
             /\ Consumed(old)[c].kind = code[c].kind
             /\ Consumed(old)[c].attempts = code[c].attempts
             /\ Consumed(old)[c].password = code[c].password
             /\ Consumed(old)[c].status = IF c \in old THEN "consumed" ELSE code[c].status
             /\ Consumed(old)[c] = [kind |-> Consumed(old)[c].kind,
                                   status |-> Consumed(old)[c].status,
                                   attempts |-> Consumed(old)[c].attempts,
                                   password |-> Consumed(old)[c].password]
    BY ConsumedEffect
  <2> QED BY <2>1
<1> HIDE DEF k, old, new, rest, seen
<1>4. /\ DOMAIN code' = DOMAIN code \cup {new}
      /\ code' = [c \in DOMAIN code' |-> code'[c]]
      /\ code'[new] = [kind |-> k, status |-> "pending", attempts |-> 0, password |-> seen]
      /\ \A c \in DOMAIN code : code'[c] = rest[c]
  BY <1>0, <1>1, <1>3 DEF Extended, NewCodeOf
<1>5. /\ uses' = [c \in DOMAIN code' |-> uses'[c]]
      /\ uses'[new] = 0
      /\ \A c \in DOMAIN code : uses'[c] = uses[c]
  BY <1>0, <1>1, <1>4 DEF Extended, CodeShape
<1>6. CodeShape'
  <2>1. req' = [q \in Requests |-> req'[q]]
    BY DEF CreateCode, Finish, CodeShape
  <2>2. (\E n \in Nat : DOMAIN code = 1 .. n)'
    <3>1. PICK n \in Nat : DOMAIN code \cup {new} = 1 .. n
      BY <1>0
    <3>2. DOMAIN code' = 1 .. n
      BY <3>1, <1>4
    <3> QED BY <3>2
  <2>3. ASSUME NEW c \in DOMAIN code'
        PROVE  /\ code'[c] = [kind |-> code'[c].kind, status |-> code'[c].status,
                              attempts |-> code'[c].attempts, password |-> code'[c].password]
               /\ code'[c].attempts \in Nat /\ uses'[c] \in Nat
    <3>1. CASE c = new
      BY <3>1, <1>4, <1>5
    <3>2. CASE c \in DOMAIN code
      BY <3>2, <1>3, <1>4, <1>5 DEF CodeShape
    <3> QED BY <3>1, <3>2, <1>4
  <2>4. \A q \in Requests : req'[q].step \in Coding => req'[q].code \in DOMAIN code'
    BY <1>2, <1>4 DEF CodeShape, Coding, Idle
  <2> QED BY <1>4, <1>5, <2>1, <2>2, <2>3, <2>4 DEF CodeShape
<1>7. \A c \in DOMAIN code' : code'[c].status = "pending" /\ c # new =>
        /\ c \in DOMAIN code \ old /\ code[c].status = "pending"
        /\ code'[c].kind = code[c].kind
  BY <1>3, <1>4
<1>8. ASSUME NEW q \in Requests PROVE Creating(q)'
  <2> SUFFICES ASSUME req'[q].step = "create", req'[q].kind \notin crowded'
               PROVE  /\ \A c \in DOMAIN code' :
                           code'[c].kind = req'[q].kind /\ code'[c].status = "pending"
                             => c \in req'[q].old
                      /\ \A r \in Requests \ {q} :
                           req'[r].step = "create" => req'[r].kind # req'[q].kind
    BY DEF Creating, Pending
  <2>1. q # p /\ req'[q] = req[q]
    BY <1>2 DEF Idle
  <2>2. /\ \A c \in DOMAIN code :
             code[c].kind = req[q].kind /\ code[c].status = "pending" => c \in req[q].old
        /\ \A r \in Requests \ {q} : req[r].step = "create" => req[r].kind # req[q].kind
    BY <1>1, <2>1 DEF Creating, Pending
  <2>3. req[q].kind # k
    BY <1>1, <2>1, <2>2 DEF k
  <2>4. \A r \in Requests \ {q} : req'[r].step = "create" => req'[r].kind # req'[q].kind
    BY <1>2, <2>1, <2>2 DEF Idle
  <2> QED BY <1>4, <1>7, <2>1, <2>2, <2>3, <2>4
<1>9. OnePending'
  <2> SUFFICES ASSUME NEW j \in Kinds \ crowded,
                      NEW c \in DOMAIN code', code'[c].kind = j, code'[c].status = "pending",
                      NEW d \in DOMAIN code', code'[d].kind = j, code'[d].status = "pending"
               PROVE  c = d
    BY <1>1 DEF OnePending, Pending
  <2>1. CASE c # new /\ d # new
    BY <2>1, <1>7 DEF OnePending, Pending
  <2>2. CASE j = k
    <3>1. \A e \in DOMAIN code : code[e].kind = k /\ code[e].status = "pending" => e \in old
      BY <2>2, <1>1 DEF Creating, Pending, k, old
    <3> QED BY <3>1, <2>2, <1>7
  <2> QED BY <2>1, <2>2, <1>4
<1>10. ConsumedWhenUsed'
  BY <1>1, <1>3, <1>4, <1>5 DEF ConsumedWhenUsed
<1>11. CountedOnce'
  <2> SUFFICES ASSUME NEW c \in DOMAIN code'
               PROVE  code'[c].attempts + Cardinality(Uncounted(c)')
                        <= MaxAttempts + Cardinality(Requests) - 1
    BY DEF CountedOnce
  <2>1. CASE c = new
    <3>1. Uncounted(c)' = {}
      BY <2>1, <1>0, <1>2 DEF Uncounted, CodeShape, Coding, Idle
    <3>2. Cardinality(Uncounted(c)') = 0
      BY <3>1, FS_EmptySet
    <3> QED BY <2>1, <3>2, <1>4, UncountedFinite, SessionsAssumption
  <2>2. CASE c \in DOMAIN code
    <3>1. Uncounted(c)' \subseteq Uncounted(c)
      BY <1>2 DEF Uncounted, Idle
    <3> QED BY <2>2, <3>1, <1>3, <1>4, StillCounted
  <2> QED BY <2>1, <2>2, <1>4
<1> QED BY <1>6, <1>8, <1>9, <1>10, <1>11

\* The steps that consume a code, and perhaps use it.
LEMMA ConsumeStep ==
  ASSUME CodeInv, NEW p \in Requests, NEW d \in DOMAIN code,
         code' = Consumed({d}), crowded' = crowded, req' = [req EXCEPT ![p] = Idle],
         \/ UNCHANGED <<uses, overtaken>>
         \/ /\ uses' = [uses EXCEPT ![d] = @ + 1]
            /\ overtaken' = overtaken \cup (IF code[d].status = "pending" THEN {} ELSE {d})
  PROVE  CodeInv'
<1> USE DEF CodeInv
<1>1. /\ DOMAIN Consumed({d}) = DOMAIN code
      /\ \A c \in DOMAIN code :
           /\ Consumed({d})[c].kind = code[c].kind
           /\ Consumed({d})[c].attempts = code[c].attempts
           /\ Consumed({d})[c].password = code[c].password
           /\ Consumed({d})[c].status = IF c \in {d} THEN "consumed" ELSE code[c].status
           /\ Consumed({d})[c] = [kind |-> Consumed({d})[c].kind,
                                  status |-> Consumed({d})[c].status,
                                  attempts |-> Consumed({d})[c].attempts,
                                  password |-> Consumed({d})[c].password]
  BY ConsumedEffect
<1>2. /\ DOMAIN code' = DOMAIN code
      /\ code' = [c \in DOMAIN code' |-> code'[c]]
      /\ \A c \in DOMAIN code :
           /\ code'[c].kind = code[c].kind
           /\ code'[c].attempts = code[c].attempts
           /\ code'[c].status = IF c = d THEN "consumed" ELSE code[c].status
           /\ code'[c] = [kind |-> code'[c].kind, status |-> code'[c].status,
                          attempts |-> code'[c].attempts, password |-> code'[c].password]
  BY <1>1 DEF Consumed
<1>3. \A q \in Requests : req'[q] = IF q = p THEN Idle ELSE req[q]
  BY DEF CodeShape
<1>4. /\ uses' = [c \in DOMAIN code' |-> uses'[c]]
      /\ \A c \in DOMAIN code : uses'[c] \in Nat
      /\ \A c \in DOMAIN code \ {d} : uses'[c] = uses[c]
      /\ \/ uses'[d] = uses[d] /\ overtaken' = overtaken
         \/ uses'[d] = uses[d] + 1 /\ (d \in overtaken' \/ code[d].status = "pending")
      /\ overtaken \subseteq overtaken'
  <2>1. CASE UNCHANGED <<uses, overtaken>>
    BY <2>1, <1>2 DEF CodeShape
  <2>2. CASE /\ uses' = [uses EXCEPT ![d] = @ + 1]
             /\ overtaken' = overtaken \cup (IF code[d].status = "pending" THEN {} ELSE {d})
    <3>1. \A c \in DOMAIN code : uses'[c] = IF c = d THEN uses[c] + 1 ELSE uses[c]
      BY <2>2 DEF CodeShape
    <3>2. uses' = [c \in DOMAIN code' |-> uses'[c]]
      BY <2>2, <1>2 DEF CodeShape
    <3>3. \A c \in DOMAIN code : uses[c] \in Nat
      BY DEF CodeShape
    <3>4. /\ overtaken \subseteq overtaken'
          /\ d \in overtaken' \/ code[d].status = "pending"
      BY <2>2
    <3>5. \A c \in DOMAIN code : uses'[c] \in Nat
      BY <3>1, <3>3
    <3> QED BY <3>1, <3>2, <3>4, <3>5
  <2> QED BY <2>1, <2>2
<1>5. CodeShape'
  <2>1. req' = [q \in Requests |-> req'[q]]
    BY DEF CodeShape
  <2>2. (\E n \in Nat : DOMAIN code = 1 .. n)'
    BY <1>2 DEF CodeShape
  <2>3. \A c \in DOMAIN code' : code'[c].attempts \in Nat
    BY <1>2 DEF CodeShape
  <2>4. \A q \in Requests : req'[q].step \in Coding => req'[q].code \in DOMAIN code'
    BY <1>2, <1>3 DEF CodeShape, Coding, Idle
  <2> QED BY <1>2, <1>4, <2>1, <2>2, <2>3, <2>4 DEF CodeShape
<1>6. ASSUME NEW q \in Requests PROVE Creating(q)'
  <2> SUFFICES ASSUME req'[q].step = "create", req'[q].kind \notin crowded'
               PROVE  /\ \A c \in DOMAIN code' :
                           code'[c].kind = req'[q].kind /\ code'[c].status = "pending"
                             => c \in req'[q].old
                      /\ \A r \in Requests \ {q} :
                           req'[r].step = "create" => req'[r].kind # req'[q].kind
    BY DEF Creating, Pending
  <2>1. req'[q] = req[q]
    BY <1>3 DEF Idle
  <2>2. \A c \in DOMAIN code :
          code[c].kind = req[q].kind /\ code[c].status = "pending" => c \in req[q].old
    BY <2>1 DEF Creating, Pending
  <2>3. \A r \in Requests \ {q} : req'[r].step = "create" => req'[r].kind # req'[q].kind
    BY <1>3, <2>1 DEF Creating, Idle
  <2> QED BY <1>2, <2>1, <2>2, <2>3
<1>7. OnePending'
  <2> SUFFICES ASSUME NEW j \in Kinds \ crowded,
                      NEW c \in DOMAIN code', code'[c].kind = j, code'[c].status = "pending",
                      NEW e \in DOMAIN code', code'[e].kind = j, code'[e].status = "pending"
               PROVE  c = e
    BY DEF OnePending, Pending
  <2>1. /\ c \in DOMAIN code /\ code[c].kind = j /\ code[c].status = "pending"
        /\ e \in DOMAIN code /\ code[e].kind = j /\ code[e].status = "pending"
    BY <1>2
  <2> QED BY <2>1 DEF OnePending, Pending
<1>8. ConsumedWhenUsed'
  <2> SUFFICES ASSUME NEW c \in DOMAIN code, c \notin overtaken'
               PROVE  uses'[c] = 0 \/ (uses'[c] = 1 /\ code'[c].status = "consumed")
    BY <1>2 DEF ConsumedWhenUsed
  <2>1. uses[c] = 0 \/ (uses[c] = 1 /\ code[c].status = "consumed")
    BY <1>4 DEF ConsumedWhenUsed
  <2>2. CASE c = d
    <3>1. code'[c].status = "consumed"
      BY <2>2, <1>2
    <3>2. CASE uses'[d] = uses[d]
      BY <2>1, <2>2, <3>1, <3>2
    <3>3. CASE uses'[d] = uses[d] + 1 /\ code[d].status = "pending"
      <4>1. uses[c] = 0
        BY <2>1, <2>2, <3>3
      <4> QED BY <4>1, <2>2, <3>1, <3>3
    <3> QED BY <2>2, <3>2, <3>3, <1>4
  <2>3. CASE c # d
    BY <2>1, <2>3, <1>2, <1>4
  <2> QED BY <2>2, <2>3
<1>9. CountedOnce'
  <2>1. \A c \in DOMAIN code : Uncounted(c)' \subseteq Uncounted(c)
    BY <1>3 DEF Uncounted, Idle
  <2> QED BY <2>1, <1>2, StillCounted DEF CountedOnce
<1> QED BY <1>5, <1>6, <1>7, <1>8, <1>9

\* A wrong code is counted, and the request that read it is done.
LEMMA CountWrongStep ==
  ASSUME CodeInv, NEW p \in Requests, CountWrong(p)
  PROVE  CodeInv'
<1> USE DEF CodeInv
<1> DEFINE d == req[p].code
<1>1. /\ req[p].step = "wrong"
      /\ d \in DOMAIN code
      /\ UNCHANGED <<uses, overtaken, crowded>>
  BY DEF CountWrong, CodeShape, Coding, history
<1>2. \A q \in Requests : req'[q] = IF q = p THEN Idle ELSE req[q]
  BY DEF CountWrong, Finish, CodeShape
<1>3. /\ DOMAIN code' = DOMAIN code
      /\ code' = [c \in DOMAIN code' |-> code'[c]]
      /\ \A c \in DOMAIN code :
           /\ code'[c].kind = code[c].kind /\ code'[c].status = code[c].status
           /\ code'[c].attempts = IF c = d THEN code[c].attempts + 1 ELSE code[c].attempts
           /\ code'[c] = [kind |-> code'[c].kind, status |-> code'[c].status,
                          attempts |-> code'[c].attempts, password |-> code'[c].password]
  <2>1. code' = [code EXCEPT ![d].attempts = @ + 1]
    BY DEF CountWrong
  <2>2. \A c \in DOMAIN code :
          code[c] = [kind |-> code[c].kind, status |-> code[c].status,
                     attempts |-> code[c].attempts, password |-> code[c].password]
    BY DEF CodeShape
  <2>3. DOMAIN code' = DOMAIN code /\ code' = [c \in DOMAIN code' |-> code'[c]]
    BY <2>1
  <2>4. ASSUME NEW c \in DOMAIN code
        PROVE  code'[c] = IF c = d THEN [kind |-> code[c].kind, status |-> code[c].status,
                                         attempts |-> code[c].attempts + 1,
                                         password |-> code[c].password]
                                   ELSE code[c]
    BY <2>1, <2>2, <1>1
  <2> HIDE DEF d
  <2> QED BY <2>2, <2>3, <2>4
<1> HIDE DEF d
<1>4. CodeShape'
  <2>1. req' = [q \in Requests |-> req'[q]]
    BY DEF CountWrong, Finish, CodeShape
  <2>2. (\E n \in Nat : DOMAIN code = 1 .. n)'
    BY <1>3 DEF CodeShape
  <2>3. \A c \in DOMAIN code' : code'[c].attempts \in Nat /\ uses'[c] \in Nat
    BY <1>1, <1>3 DEF CodeShape
  <2>4. \A q \in Requests : req'[q].step \in Coding => req'[q].code \in DOMAIN code'
    BY <1>2, <1>3 DEF CodeShape, Coding, Idle
  <2>5. uses' = [c \in DOMAIN code' |-> uses'[c]]
    BY <1>1, <1>3 DEF CodeShape
  <2> QED BY <1>3, <2>1, <2>2, <2>3, <2>4, <2>5 DEF CodeShape
<1>5. ASSUME NEW q \in Requests PROVE Creating(q)'
  <2>1. req'[q].step = "create" => req'[q] = req[q]
    BY <1>2 DEF Idle
  <2>2. Creating(q)
    OBVIOUS
  <2>3. \A r \in Requests : req'[r].step = "create" => req[r] = req'[r]
    BY <1>2 DEF Idle
  <2>4. \A c \in DOMAIN code : code'[c].kind = code[c].kind /\ code'[c].status = code[c].status
    BY <1>3
  <2> QED BY <2>1, <2>2, <2>3, <2>4, <1>1, <1>3 DEF Creating, Pending
<1>6. OnePending' /\ ConsumedWhenUsed'
  BY <1>1, <1>3 DEF OnePending, ConsumedWhenUsed, Pending
<1>7. CountedOnce'
  <2> SUFFICES ASSUME NEW c \in DOMAIN code
               PROVE  code'[c].attempts + Cardinality(Uncounted(c)')
                        <= MaxAttempts + Cardinality(Requests) - 1
    BY <1>3 DEF CountedOnce
  <2>1. CASE c = d
    <3>1. Uncounted(c)' = Uncounted(c) \ {p} /\ p \in Uncounted(c)
      BY <2>1, <1>1, <1>2 DEF Uncounted, Idle, d
    <3>2. Cardinality(Uncounted(c)') = Cardinality(Uncounted(c)) - 1
      BY <3>1, UncountedFinite, FS_RemoveElement
    <3>3. Cardinality(Uncounted(c)) \in Nat /\ Cardinality(Requests) \in Nat
      BY UncountedFinite
    <3>4. code[c].attempts + Cardinality(Uncounted(c)) <= MaxAttempts + Cardinality(Requests) - 1
      BY DEF CountedOnce
    <3>5. code'[c].attempts = code[c].attempts + 1 /\ code[c].attempts \in Nat
      BY <2>1, <1>3 DEF CodeShape
    <3> QED BY <3>2, <3>3, <3>4, <3>5, SessionsAssumption
  <2>2. CASE c # d
    <3>1. Uncounted(c)' \subseteq Uncounted(c)
      BY <1>2 DEF Uncounted, Idle
    <3> QED BY <2>2, <3>1, <1>3, StillCounted
  <2> QED BY <2>1, <2>2
<1> QED BY <1>4, <1>5, <1>6, <1>7

\* A code is presented: it is found spent, or it is wrong, or it is right.
LEMMA PresentStep ==
  ASSUME CodeInv, NEW p \in Requests, NEW d \in DOMAIN code, Present(p, d)
  PROVE  CodeInv'
<1> USE DEF CodeInv
<1>1. UNCHANGED <<code, uses, crowded, overtaken>>
  BY DEF Present, PresentWithin, history
<1>2. CASE Start(p, [step |-> "exhaust", code |-> d])
  <2>1. req' = [req EXCEPT ![p] = req'[p]] /\ req'[p] = [step |-> "exhaust", code |-> d]
    BY <1>2 DEF Start, CodeShape
  <2> QED BY <1>1, <2>1, CodesKept DEF Coding
<1>3. CASE Start(p, [step |-> "use", code |-> d, seen |-> password])
  <2>1. /\ req' = [req EXCEPT ![p] = req'[p]]
        /\ req'[p] = [step |-> "use", code |-> d, seen |-> password]
    BY <1>3 DEF Start, CodeShape
  <2> QED BY <1>1, <2>1, CodesKept DEF Coding
<1>4. CASE /\ Start(p, [step |-> "wrong", code |-> d])
           /\ ~(code[d].attempts >= MaxAttempts)
  <2>1. /\ req' = [req EXCEPT ![p] = req'[p]]
        /\ \A q \in Requests :
             req'[q] = IF q = p THEN [step |-> "wrong", code |-> d] ELSE req[q]
    BY <1>4 DEF Start, CodeShape
  <2>2. CodeShape'
    <3>1. req' = [q \in Requests |-> req'[q]]
      BY <2>1 DEF CodeShape
    <3>2. \A q \in Requests : req'[q].step \in Coding => req'[q].code \in DOMAIN code'
      BY <2>1, <1>1 DEF CodeShape, Coding
    <3> QED BY <3>1, <3>2, <1>1 DEF CodeShape
  <2>3. \A q \in Requests : Creating(q)'
    BY <2>1, <1>1 DEF Creating, Pending
  <2>4. OnePending' /\ ConsumedWhenUsed'
    BY <1>1 DEF OnePending, ConsumedWhenUsed, Pending
  <2>5. ASSUME NEW c \in DOMAIN code
        PROVE  code'[c].attempts + Cardinality(Uncounted(c)')
                 <= MaxAttempts + Cardinality(Requests) - 1
    <3>1. CASE c = d
      <4>1. Uncounted(c)' \subseteq Requests
        BY DEF Uncounted
      <4>2. /\ Cardinality(Uncounted(c)') <= Cardinality(Requests)
            /\ IsFiniteSet(Uncounted(c)')
        BY <4>1, FS_Subset, SessionsAssumption
      <4>3. Cardinality(Uncounted(c)') \in Nat /\ Cardinality(Requests) \in Nat
        BY <4>2, UncountedFinite, FS_CardinalityType
      <4>4. code'[c].attempts <= MaxAttempts - 1 /\ code'[c].attempts \in Nat
        BY <3>1, <1>1, <1>4, SessionsAssumption DEF CodeShape
      <4> QED BY <4>2, <4>3, <4>4, SessionsAssumption
    <3>2. CASE c # d
      <4>1. Uncounted(c)' \subseteq Uncounted(c)
        BY <3>2, <2>1 DEF Uncounted
      <4> QED BY <4>1, <1>1, StillCounted
    <3> QED BY <3>1, <3>2
  <2>6. CountedOnce'
    BY <2>5, <1>1 DEF CountedOnce
  <2> QED BY <2>2, <2>3, <2>4, <2>6
<1> QED BY <1>2, <1>3, <1>4 DEF Present, PresentWithin

-----------------------------------------------------------------------------
(* Every step.                                                             *)

\* What starts a request, or ends it, sets that request only.
LEMMA RequestSet ==
  ASSUME NEW q \in Requests, req = [r \in Requests |-> req[r]], NEW record,
         Start(q, record) \/ (Finish(q) /\ record = Idle)
  PROVE  req' = [req EXCEPT ![q] = req'[q]] /\ req'[q] = record
BY DEF Start, Finish

LEMMA SessionStep ==
  ASSUME SessionInv, [Next]_vars
  PROVE  SessionInv'
<1>0. req = [r \in Requests |-> req[r]]
  BY DEF SessionInv, TokenShape
<1>1. CASE UNCHANGED vars
  <2>1. /\ TokenShape' /\ \A q \in Requests : Rotating(q)'
    BY <1>1 DEF SessionInv, TokenShape, Rotating, Excused, vars, userVars, history
  <2>2. OneSessionPerLogin' /\ ResetEndsSessions'
    BY <1>1 DEF SessionInv, OneSessionPerLogin, ResetEndsSessions, Active, vars, userVars,
                history
  <2> QED BY <2>1, <2>2 DEF SessionInv
<1>2. CASE DisableTwoFactor
  <2>1. /\ TokenShape' /\ \A q \in Requests : Rotating(q)'
    BY <1>2 DEF SessionInv, TokenShape, Rotating, Excused, DisableTwoFactor, history
  <2>2. OneSessionPerLogin' /\ ResetEndsSessions'
    BY <1>2 DEF SessionInv, OneSessionPerLogin, ResetEndsSessions, Active,
                DisableTwoFactor, history
  <2> QED BY <2>1, <2>2 DEF SessionInv
<1>3. ASSUME NEW q \in Requests, Login(q)
      PROVE  SessionInv'
  <2>1. UNCHANGED <<password, token, logins, slipped, outlived, forked>>
    BY <1>3 DEF Login, userVars, history
  <2>2. CASE Start(q, [step |-> "issue", kind |-> "login", seen |-> password])
    <3>1. /\ req' = [req EXCEPT ![q] = req'[q]]
          /\ req'[q] = [step |-> "issue", kind |-> "login", seen |-> password]
      BY <2>2, <1>0, RequestSet
    <3> QED BY <2>1, <3>1, SessionsKept DEF Rotating
  <2>3. CASE Start(q, [step |-> "open", seen |-> password])
    <3>1. /\ req' = [req EXCEPT ![q] = req'[q]]
          /\ req'[q] = [step |-> "open", seen |-> password]
      BY <2>3, <1>0, RequestSet
    <3> QED BY <2>1, <3>1, SessionsKept DEF Rotating
  <2> QED BY <2>2, <2>3, <1>3 DEF Login
<1>4. ASSUME NEW q \in Requests, OpenSession(q)
      PROVE  SessionInv'
  <2>1. /\ token' = Extended(token, NewToken, Fresh(logins + 1, req[q].seen))
        /\ logins' = logins + 1 /\ req' = [req EXCEPT ![q] = Idle]
        /\ slipped' = slipped \cup (IF req[q].seen = password THEN {} ELSE {NewToken})
        /\ UNCHANGED <<password, forked, outlived>>
    BY <1>4 DEF OpenSession, userVars, Finish
  <2>2. outlived' = outlived \cup (IF req[q].seen = req[q].seen THEN {} ELSE {logins'})
    BY <2>1
  <2> QED BY <2>1, <2>2, SessionOpened
<1>5. ASSUME NEW q \in Requests, RevokeAll(q)
      PROVE  SessionInv'
  BY <1>5, SessionsRevoked DEF RevokeAll, userVars, Finish, history
<1>6. ASSUME NEW q \in Requests, Rotate(q)
      PROVE  SessionInv'
  BY <1>6, SessionRotated
<1>7. ASSUME NEW q \in Requests, LogoutWrite(q)
      PROVE  SessionInv'
  BY <1>7, SessionsRevoked DEF LogoutWrite, userVars, Finish, history
<1>8. ASSUME NEW q \in Requests, NEW t \in DOMAIN token, Refresh(q, t)
      PROVE  SessionInv'
  <2>1. UNCHANGED <<password, token, logins, slipped, outlived, forked>>
    BY <1>8 DEF Refresh, userVars, history
  <2>2. /\ req' = [req EXCEPT ![q] = req'[q]]
        /\ req'[q] = [step |-> IF t \in Active THEN "rotate" ELSE "revokeAll",
                      token |-> t, found |-> token[t], seen |-> password]
    BY <1>8, <1>0, RequestSet DEF Refresh
  <2>3. Rotating(q)'
    <3>1. CASE t \in Active
      <4>1. /\ token[t].status = "active" /\ password \in Nat
            /\ token[t].password = password \/ Excused(t)
        BY <3>1 DEF SessionInv, TokenShape, ResetEndsSessions, Active, Excused
      <4>2. Excused(t)' <=> Excused(t)
        BY <2>1 DEF Excused
      <4> QED BY <3>1, <2>1, <2>2, <4>1, <4>2 DEF Rotating
    <3>2. CASE t \notin Active
      BY <3>2, <2>2 DEF Rotating
    <3> QED BY <3>1, <3>2
  <2> QED BY <2>1, <2>2, <2>3, SessionsKept
<1>9. ASSUME NEW q \in Requests, NEW t \in DOMAIN token, Logout(q, t)
      PROVE  SessionInv'
  <2>1. UNCHANGED <<password, token, logins, slipped, outlived, forked>>
    BY <1>9 DEF Logout, userVars, history
  <2>2. /\ req' = [req EXCEPT ![q] = req'[q]]
        /\ req'[q] = [step |-> "logout", token |-> t]
    BY <1>9, <1>0, RequestSet DEF Logout
  <2> QED BY <2>1, <2>2, SessionsKept DEF Rotating
<1>10. ASSUME NEW q \in Requests, NEW kind \in Kinds, Request(q, kind)
       PROVE  SessionInv'
  <2>1. UNCHANGED <<password, token, logins, slipped, outlived, forked>>
    BY <1>10 DEF Request, userVars, history
  <2>2. /\ req' = [req EXCEPT ![q] = req'[q]]
        /\ req'[q] = [step |-> "issue", kind |-> kind, seen |-> password]
    BY <1>10, <1>0, RequestSet DEF Request
  <2> QED BY <2>1, <2>2, SessionsKept DEF Rotating
<1>11. ASSUME NEW q \in Requests, Supersede(q)
       PROVE  SessionInv'
  <2>1. UNCHANGED <<password, token, logins, slipped, outlived, forked>>
    BY <1>11 DEF Supersede, userVars
  <2>2. /\ req' = [req EXCEPT ![q] = req'[q]]
        /\ req'[q].step = "create"
    BY <1>11, <1>0 DEF Supersede
  <2> QED BY <2>1, <2>2, SessionsKept DEF Rotating
<1>12. ASSUME NEW q \in Requests,
              CreateCode(q) \/ Exhaust(q) \/ CountWrong(q) \/ Die(q)
       PROVE  SessionInv'
  <2>1. UNCHANGED <<password, token, logins, slipped, outlived, forked>>
    BY <1>12 DEF CreateCode, Exhaust, CountWrong, Die, userVars, history
  <2>2. req' = [req EXCEPT ![q] = req'[q]] /\ req'[q] = Idle
    BY <1>12, <1>0, RequestSet DEF CreateCode, Exhaust, CountWrong, Die
  <2> QED BY <2>1, <2>2, SessionsKept DEF Rotating, Idle
<1>13. ASSUME NEW q \in Requests, NEW c \in DOMAIN code, Present(q, c)
       PROVE  SessionInv'
  <2>1. UNCHANGED <<password, token, logins, slipped, outlived, forked>>
    BY <1>13 DEF Present, PresentWithin, userVars, history
  <2>2. /\ req' = [req EXCEPT ![q] = req'[q]]
        /\ req'[q].step # "rotate"
    BY <1>13, <1>0 DEF Present, PresentWithin, Start
  <2> QED BY <2>1, <2>2, SessionsKept DEF Rotating
<1>14. ASSUME NEW q \in Requests, Use(q)
       PROVE  SessionInv'
  <2> DEFINE pw == code[req[q].code].password
  <2>1. Finish(q) /\ UNCHANGED <<password, forked>>
    BY <1>14 DEF Use, UseWith
  <2>2. req' = [req EXCEPT ![q] = Idle]
    BY <2>1 DEF Finish
  <2>3. req' = [req EXCEPT ![q] = req'[q]] /\ req'[q] = Idle
    BY <2>1, <1>0, RequestSet
  <2>4. CASE UNCHANGED <<token, logins, slipped, outlived>>
    BY <2>1, <2>3, <2>4, SessionsKept DEF Rotating, Idle
  <2>5. CASE /\ token' = Extended(token, NewToken, Fresh(logins + 1, pw))
             /\ logins' = logins + 1
             /\ slipped' = slipped \cup (IF req[q].seen = password THEN {} ELSE {NewToken})
             /\ outlived' = outlived \cup (IF req[q].seen = pw THEN {} ELSE {logins'})
    BY <2>1, <2>2, <2>5, SessionOpened
  <2> QED BY <2>4, <2>5, <1>14 DEF Use, UseWith
<1>15. ASSUME NEW q \in Requests, Reset(q)
       PROVE  SessionInv'
  <2>1. UNCHANGED <<password, token, logins, slipped, outlived, forked>>
    BY <1>15 DEF Reset, userVars, history
  <2>2. /\ req' = [req EXCEPT ![q] = req'[q]]
        /\ req'[q].step = "commit"
    BY <1>15, <1>0 DEF Reset
  <2> QED BY <2>1, <2>2, SessionsKept DEF Rotating
<1>16. ASSUME NEW q \in Requests, CommitReset(q)
       PROVE  SessionInv'
  BY <1>16, SessionsReset
<1> QED
  BY <1>1, <1>2, <1>3, <1>4, <1>5, <1>6, <1>7, <1>8, <1>9, <1>10, <1>11, <1>12, <1>13,
     <1>14, <1>15, <1>16 DEF Next

LEMMA CodeStep ==
  ASSUME CodeInv, [Next]_vars
  PROVE  CodeInv'
<1>0. req = [r \in Requests |-> req[r]]
  BY DEF CodeInv, CodeShape
<1>1. CASE UNCHANGED <<req, code, uses, crowded, overtaken>>
  <2>1. CodeShape' /\ (\A q \in Requests : Creating(q)') /\ OnePending' /\ ConsumedWhenUsed'
    BY <1>1 DEF CodeInv, CodeShape, Creating, OnePending, ConsumedWhenUsed, Pending
  <2>2. \A c \in DOMAIN code : Uncounted(c)' = Uncounted(c)
    BY <1>1 DEF Uncounted
  <2>3. CountedOnce'
    BY <1>1, <2>2 DEF CodeInv, CountedOnce
  <2> QED BY <2>1, <2>3 DEF CodeInv
<1>2. ASSUME NEW q \in Requests, Login(q)
      PROVE  CodeInv'
  <2>1. UNCHANGED <<code, uses, crowded, overtaken>>
    BY <1>2 DEF Login, history
  <2>2. CASE Start(q, [step |-> "issue", kind |-> "login", seen |-> password])
    <3>1. /\ req' = [req EXCEPT ![q] = req'[q]]
          /\ req'[q] = [step |-> "issue", kind |-> "login", seen |-> password]
      BY <2>2, <1>0, RequestSet
    <3> QED BY <2>1, <3>1, CodesKept DEF Coding
  <2>3. CASE Start(q, [step |-> "open", seen |-> password])
    <3>1. /\ req' = [req EXCEPT ![q] = req'[q]]
          /\ req'[q] = [step |-> "open", seen |-> password]
      BY <2>3, <1>0, RequestSet
    <3> QED BY <2>1, <3>1, CodesKept DEF Coding
  <2> QED BY <2>2, <2>3, <1>2 DEF Login
<1>3. ASSUME NEW q \in Requests,
             OpenSession(q) \/ RevokeAll(q) \/ Rotate(q) \/ LogoutWrite(q) \/ Die(q)
      PROVE  CodeInv'
  <2>1. UNCHANGED <<code, uses, crowded, overtaken>>
    BY <1>3 DEF OpenSession, RevokeAll, Rotate, LogoutWrite, Die, history
  <2>2. req' = [req EXCEPT ![q] = req'[q]] /\ req'[q] = Idle
    BY <1>3, <1>0, RequestSet DEF OpenSession, RevokeAll, Rotate, LogoutWrite, Die
  <2> QED BY <2>1, <2>2, CodesKept DEF Idle, Coding
<1>4. ASSUME NEW q \in Requests, NEW t \in DOMAIN token, Refresh(q, t) \/ Logout(q, t)
      PROVE  CodeInv'
  <2>1. UNCHANGED <<code, uses, crowded, overtaken>>
    BY <1>4 DEF Refresh, Logout, history
  <2>2. /\ req' = [req EXCEPT ![q] = req'[q]]
        /\ req'[q].step \in {"rotate", "revokeAll", "logout"}
    BY <1>4, <1>0 DEF Refresh, Logout, Start
  <2> QED BY <2>1, <2>2, CodesKept DEF Coding
<1>5. ASSUME NEW q \in Requests, NEW kind \in Kinds, Request(q, kind)
      PROVE  CodeInv'
  <2>1. UNCHANGED <<code, uses, crowded, overtaken>>
    BY <1>5 DEF Request, history
  <2>2. /\ req' = [req EXCEPT ![q] = req'[q]]
        /\ req'[q] = [step |-> "issue", kind |-> kind, seen |-> password]
    BY <1>5, <1>0, RequestSet DEF Request
  <2> QED BY <2>1, <2>2, CodesKept DEF Coding
<1>6. ASSUME NEW q \in Requests, Exhaust(q) \/ Use(q) \/ CommitReset(q)
      PROVE  CodeInv'
  <2>1. req[q].code \in DOMAIN code
    BY <1>6 DEF Exhaust, Use, UseWith, CommitReset, CommitResetBut, CodeInv, CodeShape, Coding
  <2>2. /\ code' = Consumed({req[q].code})
        /\ crowded' = crowded
        /\ req' = [req EXCEPT ![q] = Idle]
    BY <1>6 DEF Exhaust, Use, UseWith, CommitReset, CommitResetBut, Finish, history
  <2>3. \/ UNCHANGED <<uses, overtaken>>
        \/ /\ uses' = [uses EXCEPT ![req[q].code] = @ + 1]
           /\ overtaken' = overtaken \cup (IF code[req[q].code].status = "pending"
                                             THEN {} ELSE {req[q].code})
    BY <1>6 DEF Exhaust, Use, UseWith, CommitReset, CommitResetBut, Used, history
  <2> QED BY <2>1, <2>2, <2>3, ConsumeStep
<1>10. ASSUME NEW q \in Requests, Reset(q)
       PROVE  CodeInv'
  <2>1. UNCHANGED <<code, uses, crowded, overtaken>>
    BY <1>10 DEF Reset, history
  <2>2. req[q].code \in DOMAIN code
    BY <1>10 DEF Reset, CodeInv, CodeShape, Coding
  <2>3. /\ req' = [req EXCEPT ![q] = req'[q]]
        /\ req'[q] = [step |-> "commit", code |-> req[q].code, issued |-> DOMAIN token]
    BY <1>10, <1>0 DEF Reset
  <2> QED BY <2>1, <2>2, <2>3, CodesKept DEF Coding
<1>7. ASSUME NEW q \in Requests, NEW c \in DOMAIN code, Present(q, c)
      PROVE  CodeInv'
  BY <1>7, PresentStep
<1>8. ASSUME NEW q \in Requests, Supersede(q) \/ CreateCode(q) \/ CountWrong(q)
      PROVE  CodeInv'
  BY <1>8, SupersedeStep, CreateCodeStep, CountWrongStep
<1>9. UNCHANGED vars \/ DisableTwoFactor => UNCHANGED <<req, code, uses, crowded, overtaken>>
  BY DEF vars, history, DisableTwoFactor
<1> QED
  BY <1>1, <1>2, <1>3, <1>4, <1>5, <1>6, <1>7, <1>8, <1>9, <1>10 DEF Next

-----------------------------------------------------------------------------
(* The theorems.                                                           *)

LEMMA SessionInit ==
  ASSUME Init
  PROVE  SessionInv
<1>1. /\ token = [t \in {1} |-> [status |-> "active", login |-> 1, password |-> 0]]
      /\ logins = 1 /\ password = 0
      /\ \A q \in Requests : req[q].step = "idle"
  BY DEF Init, Fresh, Idle
<1>2. \E n \in Nat : DOMAIN token = 1 .. n
  <2>1. DOMAIN token = 1 .. 1
    BY <1>1
  <2> QED BY <2>1
<1>3. TokenShape
  BY <1>1, <1>2 DEF Init, TokenShape
<1>4. \A q \in Requests : Rotating(q)
  BY <1>1 DEF Rotating
<1>5. OneSessionPerLogin /\ ResetEndsSessions
  BY <1>1 DEF OneSessionPerLogin, ResetEndsSessions, Active
<1> QED BY <1>3, <1>4, <1>5 DEF SessionInv

LEMMA CodeInit ==
  ASSUME Init
  PROVE  CodeInv
<1>1. /\ DOMAIN code = {1} /\ code = [c \in DOMAIN code |-> code[c]]
      /\ code[1] = [kind |-> "verify", status |-> "pending", attempts |-> 0, password |-> 0]
      /\ uses = [c \in DOMAIN code |-> uses[c]] /\ uses[1] = 0
      /\ \A q \in Requests : req[q].step = "idle"
      /\ req = [q \in Requests |-> req[q]]
  BY DEF Init, Idle, NewCodeOf
<1>2. \E n \in Nat : DOMAIN code = 1 .. n
  <2>1. DOMAIN code = 1 .. 1
    BY <1>1
  <2> QED BY <2>1
<1>3. CodeShape
  BY <1>1, <1>2 DEF CodeShape, Coding
<1>4. \A q \in Requests : Creating(q)
  BY <1>1 DEF Creating
<1>5. OnePending /\ ConsumedWhenUsed
  BY <1>1 DEF OnePending, ConsumedWhenUsed, Pending
<1>6. CountedOnce
  <2>1. Uncounted(1) = {}
    BY <1>1 DEF Uncounted
  <2>2. Cardinality(Uncounted(1)) = 0 /\ Cardinality(Requests) \in Nat
    BY <2>1, FS_EmptySet, UncountedFinite
  <2> QED BY <1>1, <2>2, SessionsAssumption DEF CountedOnce
<1> QED BY <1>3, <1>4, <1>5, <1>6 DEF CodeInv

\* However logins, refreshes, logouts and resets interleave, a login holds one
\* session, unless a token was rotated that was no longer in use (refreshService).
THEOREM OneSession == Spec => []OneSessionPerLogin
<1>1. Init => SessionInv
  BY SessionInit
<1>2. SessionInv /\ [Next]_vars => SessionInv'
  BY SessionStep
<1>3. SessionInv => OneSessionPerLogin
  BY DEF SessionInv
<1> QED BY <1>1, <1>2, <1>3, PTL DEF Spec

\* No session of an earlier password outlives a reset, but those of a login or
\* a refresh that overlapped it, and of a challenge that the reset left alive
\* (resetPasswordService, twoFactorLoginVerifyService).
THEOREM ResetEnds == Spec => []ResetEndsSessions
<1>1. Init => SessionInv
  BY SessionInit
<1>2. SessionInv /\ [Next]_vars => SessionInv'
  BY SessionStep
<1>3. SessionInv => ResetEndsSessions
  BY DEF SessionInv
<1> QED BY <1>1, <1>2, <1>3, PTL DEF Spec

LEMMA LatestCode ==
  ASSUME CodeInv
  PROVE  LatestCodeOnce
<1>1. ASSUME NEW kind \in Kinds \ crowded
      PROVE  Cardinality(Pending(kind)) <= 1
  <2>1. CASE Pending(kind) = {}
    BY <2>1, FS_EmptySet
  <2>2. ASSUME NEW c \in Pending(kind)
        PROVE  Cardinality(Pending(kind)) = 1
    <3>1. Pending(kind) = {c}
      BY <2>2 DEF CodeInv, OnePending
    <3> QED BY <3>1, FS_Singleton
  <2>3. CASE Pending(kind) # {}
    <3>1. PICK c : c \in Pending(kind)
      BY <2>3
    <3> QED BY <3>1, <2>2
  <2> QED BY <2>1, <2>3
<1>2. ASSUME NEW c \in DOMAIN uses \ overtaken
      PROVE  uses[c] <= 1
  <2>1. c \in DOMAIN code \ overtaken
    BY DEF CodeInv, CodeShape
  <2> QED BY <2>1 DEF CodeInv, ConsumedWhenUsed
<1> QED BY <1>1, <1>2 DEF LatestCodeOnce

\* Only the code sent last is pending, unless two were issued at once, and a
\* code has its effect once, unless another use or a newer code came between
\* its being read and its effect (the consume... and invalidate... statements).
THEOREM CodesOnce == Spec => []LatestCodeOnce
<1>1. Init => CodeInv
  BY CodeInit
<1>2. CodeInv /\ [Next]_vars => CodeInv'
  BY CodeStep
<1>3. CodeInv => LatestCodeOnce
  BY LatestCode
<1> QED BY <1>1, <1>2, <1>3, PTL DEF Spec

LEMMA CountBounded ==
  ASSUME CodeInv
  PROVE  WrongCodesBounded
<1> SUFFICES ASSUME NEW c \in DOMAIN code
             PROVE  code[c].attempts <= MaxAttempts + Cardinality(Requests) - 1
  BY DEF WrongCodesBounded
<1>1. code[c].attempts + Cardinality(Uncounted(c)) <= MaxAttempts + Cardinality(Requests) - 1
  BY DEF CodeInv, CountedOnce
<1>2. /\ Cardinality(Uncounted(c)) \in Nat /\ Cardinality(Requests) \in Nat
      /\ code[c].attempts \in Nat
  BY UncountedFinite DEF CodeInv, CodeShape
<1> QED BY <1>1, <1>2, SessionsAssumption

\* However many requests guess at once, a challenge takes no more wrong codes
\* than its limit and the requests that overlap (twoFactorLoginVerifyService).
THEOREM GuessesBounded == Spec => []WrongCodesBounded
<1>1. Init => CodeInv
  BY CodeInit
<1>2. CodeInv /\ [Next]_vars => CodeInv'
  BY CodeStep
<1>3. CodeInv => WrongCodesBounded
  BY CountBounded
<1> QED BY <1>1, <1>2, <1>3, PTL DEF Spec

-----------------------------------------------------------------------------
(* The shape of the state.  That Tokens and Codes hold all that are issued *)
(* takes a count: signup issues one of each, a request one token and one   *)
(* code at most, and it is in progress until it has.                       *)

Busy == {q \in Requests : req[q] # Idle}

Counted ==
  /\ asked \in 0 .. MaxRequests
  /\ Cardinality(DOMAIN token) + Cardinality(Busy) <= asked + 1
  /\ Cardinality(DOMAIN code) + Cardinality(Busy) <= asked + 1

\* What a request carries from one of its steps to the next.
Carried(r) ==
  /\ r.step \in {"idle", "open", "rotate", "revokeAll", "logout", "issue",
                 "create", "exhaust", "wrong", "use", "commit"}
  /\ r.step \in {"open", "issue", "create", "use"} => r.seen \in Nat
  /\ r.step \in {"issue", "create"} => r.kind \in Kinds

Typed(r) ==
  r.kind \in Kinds /\ r.status \in {"pending", "consumed"} /\ r.password \in Nat

Values ==
  /\ verified \in BOOLEAN /\ twoFactor \in BOOLEAN
  /\ \A t \in DOMAIN token : token[t].status \in {"active", "revoked"} /\ token[t].password \in Nat
  /\ \A c \in DOMAIN code : Typed(code[c])
  /\ slipped \subseteq DOMAIN token /\ outlived \subseteq 1 .. logins
  /\ forked \subseteq 1 .. logins /\ crowded \subseteq Kinds /\ overtaken \subseteq DOMAIN code

TypeInv ==
  /\ SessionInv /\ CodeInv
  /\ Counted /\ Values
  /\ \A q \in Requests : Carried(req[q])

LEMMA CountsFinite ==
  ASSUME SessionInv, CodeInv
  PROVE  /\ IsFiniteSet(DOMAIN token) /\ Cardinality(DOMAIN token) \in Nat
         /\ IsFiniteSet(DOMAIN code) /\ Cardinality(DOMAIN code) \in Nat
         /\ IsFiniteSet(Busy) /\ Cardinality(Busy) \in Nat
<1>1. IsFiniteSet(DOMAIN token)
  <2>1. PICK n \in Nat : DOMAIN token = 1 .. n
    BY DEF SessionInv, TokenShape
  <2>2. IsFiniteSet(1 .. n)
    BY FS_Interval
  <2> QED BY <2>1, <2>2
<1>2. IsFiniteSet(DOMAIN code)
  <2>1. PICK n \in Nat : DOMAIN code = 1 .. n
    BY DEF CodeInv, CodeShape
  <2>2. IsFiniteSet(1 .. n)
    BY FS_Interval
  <2> QED BY <2>1, <2>2
<1>3. IsFiniteSet(Busy)
  <2>1. Busy \subseteq Requests
    BY DEF Busy
  <2> QED BY <2>1, FS_Subset, SessionsAssumption
<1> QED BY <1>1, <1>2, <1>3, FS_CardinalityType

LEMMA OneMore ==
  ASSUME NEW S, IsFiniteSet(S), NEW x, NEW T, T \subseteq S \cup {x}
  PROVE  Cardinality(T) \in Nat /\ Cardinality(T) <= Cardinality(S) + 1
<1>1. /\ IsFiniteSet(S \cup {x}) /\ Cardinality(S) \in Nat
      /\ Cardinality(S \cup {x}) = IF x \in S THEN Cardinality(S) ELSE Cardinality(S) + 1
  BY FS_AddElement, FS_CardinalityType
<1>2. IsFiniteSet(T) /\ Cardinality(T) <= Cardinality(S \cup {x})
  BY <1>1, FS_Subset
<1>3. Cardinality(T) \in Nat
  BY <1>2, FS_CardinalityType
<1> QED BY <1>1, <1>2, <1>3

\* A request starts.
LEMMA StartStep ==
  ASSUME TypeInv, SessionInv', CodeInv', NEW q \in Requests, NEW record,
         Start(q, record), record.step # "idle", Carried(record),
         UNCHANGED <<userVars, token, code, history>>
  PROVE  TypeInv'
<1>1. /\ req[q] = Idle /\ asked < MaxRequests /\ asked' = asked + 1
      /\ req' = [req EXCEPT ![q] = record]
  BY DEF Start
<1>2. \A r \in Requests : req'[r] = IF r = q THEN record ELSE req[r]
  BY <1>1 DEF TypeInv, SessionInv, TokenShape
<1>3. Counted'
  <2>1. Busy' = Busy \cup {q} /\ q \notin Busy
    BY <1>1, <1>2 DEF Busy, Idle
  <2>2. Cardinality(Busy') = Cardinality(Busy) + 1
    BY <2>1, FS_AddElement, CountsFinite DEF TypeInv
  <2> QED BY <1>1, <2>2, CountsFinite, SessionsAssumption DEF TypeInv, Counted
<1>4. Values'
  BY DEF TypeInv, Values, userVars, history
<1>5. \A r \in Requests : Carried(req'[r])
  BY <1>2 DEF TypeInv
<1> QED BY <1>3, <1>4, <1>5 DEF TypeInv, Carried

\* A request ends, having issued a token or a code at most.
LEMMA EndStep ==
  ASSUME TypeInv, SessionInv', CodeInv', Values', NEW q \in Requests,
         req[q] # Idle, Finish(q), NEW t, NEW c,
         DOMAIN token' \subseteq DOMAIN token \cup {t},
         DOMAIN code' \subseteq DOMAIN code \cup {c}
  PROVE  TypeInv'
<1>1. \A r \in Requests : req'[r] = IF r = q THEN Idle ELSE req[r]
  BY DEF Finish, TypeInv, SessionInv, TokenShape
<1>2. Busy' = Busy \ {q} /\ q \in Busy
  BY <1>1 DEF Busy
<1>3. Cardinality(Busy') = Cardinality(Busy) - 1
  BY <1>2, FS_RemoveElement, CountsFinite DEF TypeInv
<1>4. /\ Cardinality(DOMAIN token') \in Nat
      /\ Cardinality(DOMAIN token') <= Cardinality(DOMAIN token) + 1
  BY OneMore, CountsFinite DEF TypeInv
<1>5. /\ Cardinality(DOMAIN code') \in Nat
      /\ Cardinality(DOMAIN code') <= Cardinality(DOMAIN code) + 1
  BY OneMore, CountsFinite DEF TypeInv
<1>7. Counted'
  <2>1. asked' = asked
    BY DEF Finish
  <2> QED
    BY <2>1, <1>3, <1>4, <1>5, CountsFinite, SessionsAssumption DEF TypeInv, Counted
<1>8. \A r \in Requests : Carried(req'[r])
  BY <1>1 DEF TypeInv, Carried, Idle
<1> QED BY <1>7, <1>8 DEF TypeInv, Carried

\* What revoking and issuing leave of the tokens' types.
LEMMA TokenValues ==
  ASSUME SessionInv, Values, NEW S
  PROVE  /\ DOMAIN Revoked(S) = DOMAIN token
         /\ \A t \in DOMAIN token : /\ Revoked(S)[t].status \in {"active", "revoked"}
                                    /\ Revoked(S)[t].password \in Nat
<1>0. TokenShape
  BY DEF SessionInv
<1>1. /\ DOMAIN Revoked(S) = DOMAIN token
      /\ \A t \in DOMAIN token :
           /\ Revoked(S)[t].login = token[t].login
           /\ Revoked(S)[t].password = token[t].password
           /\ Revoked(S)[t].status = IF t \in S THEN "revoked" ELSE token[t].status
           /\ Revoked(S)[t] = [status |-> Revoked(S)[t].status,
                               login |-> Revoked(S)[t].login,
                               password |-> Revoked(S)[t].password]
  BY <1>0, RevokedEffect
<1>2. \A t \in DOMAIN token : token[t].status \in {"active", "revoked"} /\ token[t].password \in Nat
  BY DEF Values
<1> QED BY <1>1, <1>2

LEMMA CodeValues ==
  ASSUME CodeInv, Values, NEW S
  PROVE  /\ DOMAIN Consumed(S) = DOMAIN code
         /\ \A c \in DOMAIN code : Typed(Consumed(S)[c])
<1>0. CodeShape
  BY DEF CodeInv
<1>1. /\ DOMAIN Consumed(S) = DOMAIN code
      /\ \A c \in DOMAIN code :
           /\ Consumed(S)[c].kind = code[c].kind
           /\ Consumed(S)[c].attempts = code[c].attempts
           /\ Consumed(S)[c].password = code[c].password
           /\ Consumed(S)[c].status = IF c \in S THEN "consumed" ELSE code[c].status
           /\ Consumed(S)[c] = [kind |-> Consumed(S)[c].kind,
                                status |-> Consumed(S)[c].status,
                                attempts |-> Consumed(S)[c].attempts,
                                password |-> Consumed(S)[c].password]
  BY <1>0, ConsumedEffect
<1>2. \A c \in DOMAIN code : Typed(code[c])
  BY DEF Values
<1> QED BY <1>1, <1>2 DEF Typed

LEMMA NewTokenValues ==
  ASSUME Values, NEW f, DOMAIN f = DOMAIN token, NEW new, NEW l, NEW p \in Nat,
         \A t \in DOMAIN token : f[t].status \in {"active", "revoked"} /\ f[t].password \in Nat,
         token' = Extended(f, new, Fresh(l, p))
  PROVE  /\ DOMAIN token' = DOMAIN token \cup {new}
         /\ \A t \in DOMAIN token' :
              token'[t].status \in {"active", "revoked"} /\ token'[t].password \in Nat
BY DEF Extended, Fresh

\* A session of a new login.
LEMMA OpenedValues ==
  ASSUME TypeInv, NEW seen \in Nat,
         token' = Extended(token, NewToken, Fresh(logins + 1, seen)), logins' = logins + 1,
         slipped' \subseteq slipped \cup {NewToken}, outlived' \subseteq outlived \cup {logins'},
         verified' \in BOOLEAN, twoFactor' \in BOOLEAN,
         UNCHANGED <<forked, crowded>>, overtaken' \subseteq DOMAIN code',
         \A c \in DOMAIN code' :
           Typed(code'[c])
  PROVE  Values' /\ DOMAIN token' = DOMAIN token \cup {NewToken}
<1>1. PICK new : new = NewToken
  OBVIOUS
<1>2. /\ DOMAIN token' = DOMAIN token \cup {new}
      /\ \A t \in DOMAIN token' :
           token'[t].status \in {"active", "revoked"} /\ token'[t].password \in Nat
  <2>1. /\ Values
        /\ \A t \in DOMAIN token :
             token[t].status \in {"active", "revoked"} /\ token[t].password \in Nat
    BY DEF TypeInv, Values
  <2> QED BY <1>1, <2>1, NewTokenValues
<1>3. slipped' \subseteq DOMAIN token'
  BY <1>1, <1>2 DEF TypeInv, Values
<1>4. forked' \subseteq 1 .. logins' /\ outlived' \subseteq 1 .. logins'
  BY DEF TypeInv, Values, SessionInv, TokenShape
<1>5. crowded' \subseteq Kinds
  BY DEF TypeInv, Values
<1> QED BY <1>1, <1>2, <1>3, <1>4, <1>5 DEF Values

\* Some sessions end.
LEMMA RevokedValues ==
  ASSUME TypeInv, NEW S, token' = Revoked(S),
         verified' \in BOOLEAN, twoFactor' \in BOOLEAN, UNCHANGED <<logins, forked, crowded>>,
         slipped' \subseteq slipped \cup DOMAIN token, outlived' \subseteq outlived,
         overtaken' \subseteq DOMAIN code',
         \A c \in DOMAIN code' :
           Typed(code'[c])
  PROVE  Values' /\ DOMAIN token' = DOMAIN token
<1>1. /\ DOMAIN token' = DOMAIN token
      /\ \A t \in DOMAIN token : /\ token'[t].status \in {"active", "revoked"}
                                 /\ token'[t].password \in Nat
  <2>1. SessionInv /\ Values
    BY DEF TypeInv
  <2>2. /\ DOMAIN Revoked(S) = DOMAIN token
        /\ \A t \in DOMAIN token : /\ Revoked(S)[t].status \in {"active", "revoked"}
                                   /\ Revoked(S)[t].password \in Nat
    BY <2>1, TokenValues
  <2> QED BY <2>2
<1>2. /\ slipped' \subseteq DOMAIN token' /\ outlived' \subseteq 1 .. logins'
      /\ forked' \subseteq 1 .. logins' /\ crowded' \subseteq Kinds
  BY <1>1 DEF TypeInv, Values
<1> QED BY <1>1, <1>2 DEF Values

\* The tokens stay as they are.
LEMMA SameTokenValues ==
  ASSUME TypeInv, UNCHANGED <<token, logins, slipped, outlived, forked>>,
         verified' \in BOOLEAN, twoFactor' \in BOOLEAN, crowded' \subseteq Kinds,
         overtaken' \subseteq DOMAIN code',
         \A c \in DOMAIN code' :
           Typed(code'[c])
  PROVE  Values'
BY DEF TypeInv, Values

LEMMA RotateTyped ==
  ASSUME TypeInv, SessionInv', CodeInv', NEW q \in Requests, Rotate(q)
  PROVE  TypeInv'
<1>1. PICK old : old = req[q].token
  OBVIOUS
<1>2. PICK new : new = NewToken
  OBVIOUS
<1>3. /\ old \in DOMAIN token /\ token[old].password \in Nat /\ token[old].login \in 1 .. logins
  <2>1. old \in DOMAIN token
    BY <1>1 DEF Rotate, TypeInv, SessionInv, Rotating
  <2> QED BY <2>1 DEF TypeInv, SessionInv, TokenShape, Values
<1>4. /\ token' = Extended(Revoked({old}), new, Fresh(token[old].login, token[old].password))
      /\ slipped' \subseteq slipped \cup {new}
      /\ forked' \subseteq forked \cup {token[old].login}
      /\ UNCHANGED <<userVars, code, logins, outlived, crowded, uses, overtaken>>
      /\ Finish(q) /\ req[q] # Idle
  BY <1>1, <1>2 DEF Rotate, Idle
<1>5. PICK rest : rest = Revoked({old})
  OBVIOUS
<1>6. /\ DOMAIN rest = DOMAIN token
      /\ \A t \in DOMAIN token :
            rest[t].status \in {"active", "revoked"} /\ rest[t].password \in Nat
  <2>1. SessionInv /\ Values
    BY DEF TypeInv
  <2>2. /\ DOMAIN Revoked({old}) = DOMAIN token
        /\ \A t \in DOMAIN token : /\ Revoked({old})[t].status \in {"active", "revoked"}
                                   /\ Revoked({old})[t].password \in Nat
    BY <2>1, TokenValues
  <2> QED BY <2>2, <1>5
<1>7. /\ DOMAIN token' = DOMAIN token \cup {new}
      /\ \A t \in DOMAIN token' :
           token'[t].status \in {"active", "revoked"} /\ token'[t].password \in Nat
  <2>1. Values /\ token' = Extended(rest, new, Fresh(token[old].login, token[old].password))
    BY <1>4, <1>5 DEF TypeInv
  <2> QED BY <2>1, <1>3, <1>6, NewTokenValues
<1>8. Values'
  <2>1. /\ slipped' \subseteq DOMAIN token' /\ outlived' \subseteq 1 .. logins'
        /\ forked' \subseteq 1 .. logins'
    BY <1>3, <1>4, <1>7 DEF TypeInv, Values
  <2>2. /\ verified' \in BOOLEAN /\ twoFactor' \in BOOLEAN
        /\ crowded' \subseteq Kinds /\ overtaken' \subseteq DOMAIN code'
        /\ \A c \in DOMAIN code' : Typed(code'[c])
    BY <1>4 DEF TypeInv, Values, userVars
  <2> QED BY <1>7, <2>1, <2>2 DEF Values
<1> QED BY <1>4, <1>7, <1>8, EndStep

LEMMA CreateCodeTyped ==
  ASSUME TypeInv, SessionInv', CodeInv', NEW q \in Requests, CreateCode(q)
  PROVE  TypeInv'
<1>1. PICK new : new = NewCode
  OBVIOUS
<1>2. PICK rest : rest = Consumed(req[q].old)
  OBVIOUS
<1>3. /\ req[q].kind \in Kinds /\ req[q].seen \in Nat /\ req[q] # Idle /\ Finish(q)
      /\ code' = Extended(rest, new, NewCodeOf(req[q].kind, req[q].seen))
      /\ UNCHANGED <<userVars, token, logins, slipped, outlived, forked, crowded, overtaken>>
  BY <1>1, <1>2 DEF CreateCode, TypeInv, Carried, Idle
<1>4. /\ DOMAIN rest = DOMAIN code
      /\ \A c \in DOMAIN code : Typed(rest[c])
  <2>1. CodeInv /\ Values
    BY DEF TypeInv
  <2>2. PICK old : old = req[q].old
    OBVIOUS
  <2>3. /\ DOMAIN Consumed(old) = DOMAIN code
        /\ \A c \in DOMAIN code : Typed(Consumed(old)[c])
    BY <2>1, CodeValues
  <2> QED BY <1>2, <2>2, <2>3
<1>5. /\ DOMAIN code' = DOMAIN code \cup {new}
      /\ \A c \in DOMAIN code' : Typed(code'[c])
  <2>1. Typed(NewCodeOf(req[q].kind, req[q].seen))
    BY <1>3 DEF Typed, NewCodeOf
  <2>2. /\ DOMAIN code' = DOMAIN code \cup {new}
        /\ \A c \in DOMAIN code' : \/ code'[c] = NewCodeOf(req[q].kind, req[q].seen)
                                  \/ (c \in DOMAIN code /\ code'[c] = rest[c])
    BY <1>3, <1>4 DEF Extended
  <2> QED BY <1>4, <2>1, <2>2
<1>6. Values'
  <2>1. /\ verified' \in BOOLEAN /\ twoFactor' \in BOOLEAN /\ crowded' \subseteq Kinds
        /\ overtaken' \subseteq DOMAIN code'
    BY <1>3, <1>5 DEF TypeInv, Values, userVars
  <2> QED BY <1>3, <1>5, <2>1, SameTokenValues
<1> QED BY <1>3, <1>5, <1>6, EndStep

LEMMA UseTyped ==
  ASSUME TypeInv, SessionInv', CodeInv', NEW q \in Requests, Use(q)
  PROVE  TypeInv'
<1>1. PICK c : c = req[q].code
  OBVIOUS
<1>2. /\ c \in DOMAIN code /\ req[q].seen \in Nat /\ req[q] # Idle /\ Finish(q)
      /\ code' = Consumed({c})
      /\ overtaken' \subseteq overtaken \cup {c}
      /\ UNCHANGED <<forked, crowded>>
  <2>1. req[q].step = "use" /\ req[q] # Idle
    BY DEF Use, UseWith, Idle
  <2>2. c \in DOMAIN code /\ req[q].seen \in Nat
    BY <1>1, <2>1 DEF TypeInv, CodeInv, CodeShape, Coding, Carried
  <2> QED BY <1>1, <2>1, <2>2 DEF Use, UseWith, Used
<1>3. /\ DOMAIN code' = DOMAIN code
      /\ \A d \in DOMAIN code' : Typed(code'[d])
  <2>1. CodeInv /\ Values
    BY DEF TypeInv
  <2>2. /\ DOMAIN Consumed({c}) = DOMAIN code
        /\ \A d \in DOMAIN code : Typed(Consumed({c})[d])
    BY <2>1, CodeValues
  <2> QED BY <1>2, <2>2
<1>4. overtaken' \subseteq DOMAIN code' /\ crowded' \subseteq Kinds
  BY <1>2, <1>3 DEF TypeInv, Values
<1>5. verified \in BOOLEAN /\ twoFactor \in BOOLEAN
  BY DEF TypeInv, Values
<1>6. CASE /\ UNCHANGED <<token, logins, slipped, outlived>>
           /\ verified' \in BOOLEAN /\ twoFactor' \in BOOLEAN
  <2>1. Values'
    BY <1>2, <1>3, <1>4, <1>6, SameTokenValues
  <2> QED BY <1>2, <1>3, <1>6, <2>1, EndStep
<1>7. CASE /\ token' = Extended(token, NewToken, Fresh(logins + 1, code[c].password))
           /\ logins' = logins + 1
           /\ slipped' \subseteq slipped \cup {NewToken}
           /\ outlived' \subseteq outlived \cup {logins'}
           /\ UNCHANGED <<verified, twoFactor>>
  <2>1. code[c].password \in Nat
    BY <1>2 DEF TypeInv, Values, Typed
  <2>2. Values' /\ DOMAIN token' = DOMAIN token \cup {NewToken}
    BY <1>2, <1>3, <1>4, <1>5, <1>7, <2>1, OpenedValues
  <2> QED BY <1>2, <1>3, <2>2, EndStep
<1>8. \/ /\ UNCHANGED <<token, logins, slipped, outlived>>
         /\ verified' \in BOOLEAN /\ twoFactor' \in BOOLEAN
      \/ /\ token' = Extended(token, NewToken, Fresh(logins + 1, code[c].password))
         /\ logins' = logins + 1
         /\ slipped' \subseteq slipped \cup {NewToken}
         /\ outlived' \subseteq outlived \cup {logins'}
         /\ UNCHANGED <<verified, twoFactor>>
  BY <1>1, <1>5 DEF Use, UseWith
<1> QED
  BY <1>6, <1>7, <1>8

LEMMA CommitResetTyped ==
  ASSUME TypeInv, SessionInv', CodeInv', NEW q \in Requests, CommitReset(q)
  PROVE  TypeInv'
<1>1. PICK c : c = req[q].code
  OBVIOUS
<1>2. PICK S : S = Active \cap req[q].issued
  OBVIOUS
<1>3. /\ c \in DOMAIN code /\ req[q] # Idle /\ Finish(q)
      /\ code' = Consumed({c}) /\ token' = Revoked(S)
      /\ overtaken' \subseteq overtaken \cup {c}
      /\ slipped' \subseteq DOMAIN token /\ outlived' = {}
      /\ UNCHANGED <<verified, twoFactor, logins, forked, crowded>>
  BY <1>1, <1>2 DEF CommitReset, CommitResetBut, Used, TypeInv, CodeInv, CodeShape, Coding, Idle
<1>4. /\ DOMAIN code' = DOMAIN code
      /\ \A d \in DOMAIN code' : Typed(code'[d])
  <2>1. CodeInv /\ Values
    BY DEF TypeInv
  <2>2. /\ DOMAIN Consumed({c}) = DOMAIN code
        /\ \A d \in DOMAIN code : Typed(Consumed({c})[d])
    BY <2>1, CodeValues
  <2> QED BY <1>3, <2>2
<1>5. /\ verified' \in BOOLEAN /\ twoFactor' \in BOOLEAN /\ overtaken' \subseteq DOMAIN code'
      /\ slipped' \subseteq slipped \cup DOMAIN token /\ outlived' \subseteq outlived
  BY <1>3, <1>4 DEF TypeInv, Values
<1>6. Values' /\ DOMAIN token' = DOMAIN token
  BY <1>3, <1>4, <1>5, RevokedValues
<1> QED BY <1>3, <1>4, <1>6, EndStep

LEMMA TypeStep ==
  ASSUME TypeInv, [Next]_vars
  PROVE  TypeInv'
<1>0. SessionInv' /\ CodeInv' /\ password \in Nat
  BY SessionStep, CodeStep DEF TypeInv, SessionInv, TokenShape
<1>1. CASE UNCHANGED vars \/ DisableTwoFactor
  <2>1. /\ UNCHANGED <<token, code, req, asked, history>>
        /\ twoFactor' \in BOOLEAN /\ verified' = verified
    BY <1>1 DEF TypeInv, Values, DisableTwoFactor, vars, userVars
  <2>2. Counted' /\ \A q \in Requests : Carried(req'[q])
    BY <2>1 DEF TypeInv, Counted, Busy
  <2>3. Values'
    BY <2>1 DEF TypeInv, Values, history
  <2> QED BY <1>0, <2>2, <2>3 DEF TypeInv, Carried
<1>2. ASSUME NEW q \in Requests, Login(q)
      PROVE  TypeInv'
  <2>1. UNCHANGED <<userVars, token, code, history>>
    BY <1>2 DEF Login
  <2>2. /\ Carried([step |-> "issue", kind |-> "login", seen |-> password])
        /\ Carried([step |-> "open", seen |-> password])
    BY <1>0 DEF Carried, Kinds, Guessable
  <2>3. CASE Start(q, [step |-> "issue", kind |-> "login", seen |-> password])
    BY <1>0, <2>1, <2>2, <2>3, StartStep
  <2>4. CASE Start(q, [step |-> "open", seen |-> password])
    BY <1>0, <2>1, <2>2, <2>4, StartStep
  <2> QED BY <1>2, <2>3, <2>4 DEF Login
<1>3. ASSUME NEW q \in Requests, NEW t \in DOMAIN token, Refresh(q, t)
      PROVE  TypeInv'
  <2>1. PICK r : r = [step |-> IF t \in Active THEN "rotate" ELSE "revokeAll",
                      token |-> t, found |-> token[t], seen |-> password]
    OBVIOUS
  <2>2. Carried(r) /\ r.step # "idle"
    BY <2>1 DEF Carried
  <2>3. Start(q, r) /\ UNCHANGED <<userVars, token, code, history>>
    BY <1>3, <2>1 DEF Refresh
  <2> QED BY <1>0, <2>2, <2>3, StartStep
<1>4. ASSUME NEW q \in Requests, NEW t \in DOMAIN token, Logout(q, t)
      PROVE  TypeInv'
  <2>1. Carried([step |-> "logout", token |-> t])
    BY DEF Carried
  <2>2. Start(q, [step |-> "logout", token |-> t]) /\ UNCHANGED <<userVars, token, code, history>>
    BY <1>4 DEF Logout
  <2> QED BY <1>0, <2>1, <2>2, StartStep
<1>5. ASSUME NEW q \in Requests, NEW kind \in Kinds, Request(q, kind)
      PROVE  TypeInv'
  <2>1. Carried([step |-> "issue", kind |-> kind, seen |-> password])
    BY <1>0 DEF Carried
  <2>2. /\ Start(q, [step |-> "issue", kind |-> kind, seen |-> password])
        /\ UNCHANGED <<userVars, token, code, history>>
    BY <1>5 DEF Request
  <2> QED BY <1>0, <2>1, <2>2, StartStep
<1>6. ASSUME NEW q \in Requests, NEW c \in DOMAIN code, Present(q, c)
      PROVE  TypeInv'
  <2>1. UNCHANGED <<userVars, token, code, history>>
    BY <1>6 DEF Present, PresentWithin
  <2>2. /\ Carried([step |-> "exhaust", code |-> c])
        /\ Carried([step |-> "wrong", code |-> c])
        /\ Carried([step |-> "use", code |-> c, seen |-> password])
    BY <1>0 DEF Carried
  <2>3. CASE Start(q, [step |-> "exhaust", code |-> c])
    BY <1>0, <2>1, <2>2, <2>3, StartStep
  <2>4. CASE Start(q, [step |-> "wrong", code |-> c])
    BY <1>0, <2>1, <2>2, <2>4, StartStep
  <2>5. CASE Start(q, [step |-> "use", code |-> c, seen |-> password])
    BY <1>0, <2>1, <2>2, <2>5, StartStep
  <2> QED BY <1>6, <2>3, <2>4, <2>5 DEF Present, PresentWithin
<1>7. ASSUME NEW q \in Requests, Supersede(q)
      PROVE  TypeInv'
  <2>1. PICK r : r = [step |-> "create", kind |-> req[q].kind, seen |-> req[q].seen,
                      old |-> Pending(req[q].kind)]
    OBVIOUS
  <2>2. /\ req[q].step = "issue" /\ req[q].kind \in Kinds /\ req[q].seen \in Nat
        /\ req' = [req EXCEPT ![q] = r]
        /\ crowded' \subseteq crowded \cup {req[q].kind}
        /\ UNCHANGED <<userVars, token, code, asked, logins, slipped, outlived, forked, uses,
                       overtaken>>
    BY <1>7, <2>1 DEF Supersede, TypeInv, Carried
  <2>3. \A p \in Requests : req'[p] = IF p = q THEN r ELSE req[p]
    BY <2>2 DEF TypeInv, SessionInv, TokenShape
  <2>4. Busy' = Busy
    BY <2>1, <2>2, <2>3 DEF Busy, Idle
  <2>5. Counted'
    BY <2>2, <2>4 DEF TypeInv, Counted
  <2>6. Values'
    BY <2>2 DEF TypeInv, Values, userVars
  <2>7. \A p \in Requests : Carried(req'[p])
    BY <2>1, <2>2, <2>3 DEF TypeInv, Carried
  <2> QED BY <1>0, <2>5, <2>6, <2>7 DEF TypeInv, Carried
<1>8. ASSUME NEW q \in Requests, OpenSession(q)
      PROVE  TypeInv'
  <2>1. /\ req[q].seen \in Nat /\ req[q] # Idle /\ Finish(q)
        /\ token' = Extended(token, NewToken, Fresh(logins + 1, req[q].seen))
        /\ logins' = logins + 1
        /\ slipped' \subseteq slipped \cup {NewToken} /\ outlived' \subseteq outlived \cup {logins'}
        /\ UNCHANGED <<verified, twoFactor, code, forked, crowded, overtaken>>
    BY <1>8 DEF OpenSession, TypeInv, Carried, Idle, userVars
  <2>2. /\ verified' \in BOOLEAN /\ twoFactor' \in BOOLEAN /\ overtaken' \subseteq DOMAIN code'
        /\ \A c \in DOMAIN code' : Typed(code'[c])
    BY <2>1 DEF TypeInv, Values
  <2>3. Values' /\ DOMAIN token' = DOMAIN token \cup {NewToken}
    BY <2>1, <2>2, OpenedValues
  <2> QED BY <1>0, <2>1, <2>3, EndStep
<1>9. ASSUME NEW q \in Requests, RevokeAll(q) \/ LogoutWrite(q)
      PROVE  TypeInv'
  <2>1. PICK S : token' = Revoked(S)
    BY <1>9 DEF RevokeAll, LogoutWrite
  <2>2. req[q] # Idle /\ Finish(q) /\ UNCHANGED <<userVars, code, history>>
    BY <1>9 DEF RevokeAll, LogoutWrite, Idle
  <2>3. /\ verified' \in BOOLEAN /\ twoFactor' \in BOOLEAN /\ overtaken' \subseteq DOMAIN code'
        /\ UNCHANGED <<logins, forked, crowded>>
        /\ slipped' \subseteq slipped \cup DOMAIN token /\ outlived' \subseteq outlived
        /\ \A c \in DOMAIN code' : Typed(code'[c])
    BY <2>2 DEF TypeInv, Values, userVars, history
  <2>4. Values' /\ DOMAIN token' = DOMAIN token
    BY <2>1, <2>3, RevokedValues
  <2> QED BY <1>0, <2>2, <2>4, EndStep
<1>10. ASSUME NEW q \in Requests, Exhaust(q) \/ CountWrong(q)
       PROVE  TypeInv'
  <2>1. /\ req[q] # Idle /\ Finish(q) /\ UNCHANGED <<userVars, token, history>>
        /\ req[q].code \in DOMAIN code
    BY <1>10 DEF Exhaust, CountWrong, Idle, TypeInv, CodeInv, CodeShape, Coding
  <2>2. /\ DOMAIN code' = DOMAIN code
        /\ \A c \in DOMAIN code' : Typed(code'[c])
    <3>1. CASE Exhaust(q)
      <4>1. PICK S : code' = Consumed(S)
        BY <3>1 DEF Exhaust
      <4>2. CodeInv /\ Values
        BY DEF TypeInv
      <4>3. /\ DOMAIN Consumed(S) = DOMAIN code
            /\ \A c \in DOMAIN code : Typed(Consumed(S)[c])
        BY <4>2, CodeValues
      <4> QED BY <4>1, <4>3
    <3>2. CASE CountWrong(q)
      <4>1. code' = [code EXCEPT ![req[q].code].attempts = @ + 1]
        BY <3>2 DEF CountWrong
      <4>2. \A c \in DOMAIN code :
              code[c] = [kind |-> code[c].kind, status |-> code[c].status,
                         attempts |-> code[c].attempts, password |-> code[c].password]
        BY DEF TypeInv, CodeInv, CodeShape
      <4>3. /\ DOMAIN code' = DOMAIN code
            /\ \A c \in DOMAIN code : /\ code'[c].kind = code[c].kind
                                      /\ code'[c].status = code[c].status
                                      /\ code'[c].password = code[c].password
        BY <2>1, <4>1, <4>2
      <4> QED BY <4>3 DEF TypeInv, Values, Typed
    <3> QED BY <1>10, <3>1, <3>2
  <2>3. /\ verified' \in BOOLEAN /\ twoFactor' \in BOOLEAN /\ overtaken' \subseteq DOMAIN code'
        /\ UNCHANGED <<token, logins, slipped, outlived, forked>> /\ crowded' \subseteq Kinds
    BY <2>1, <2>2 DEF TypeInv, Values, userVars, history
  <2>4. Values'
    BY <2>2, <2>3, SameTokenValues
  <2> QED BY <1>0, <2>1, <2>2, <2>4, EndStep
<1>11. ASSUME NEW q \in Requests, Die(q)
       PROVE  TypeInv'
  <2>1. req[q] # Idle /\ Finish(q) /\ UNCHANGED <<userVars, token, code, history>>
    BY <1>11 DEF Die
  <2>2. Values'
    BY <2>1 DEF TypeInv, Values, userVars, history
  <2> QED BY <1>0, <2>1, <2>2, EndStep
<1>12. ASSUME NEW q \in Requests, Reset(q)
       PROVE  TypeInv'
  <2>1. PICK r : r = [step |-> "commit", code |-> req[q].code, issued |-> DOMAIN token]
    OBVIOUS
  <2>2. /\ req[q].step = "use" /\ req' = [req EXCEPT ![q] = r]
        /\ UNCHANGED <<userVars, token, code, asked, history>>
    BY <1>12, <2>1 DEF Reset
  <2>3. \A p \in Requests : req'[p] = IF p = q THEN r ELSE req[p]
    BY <2>2 DEF TypeInv, SessionInv, TokenShape
  <2>4. Busy' = Busy
    BY <2>1, <2>2, <2>3 DEF Busy, Idle
  <2>5. Counted'
    BY <2>2, <2>4 DEF TypeInv, Counted
  <2>6. Values'
    BY <2>2 DEF TypeInv, Values, userVars, history
  <2>7. \A p \in Requests : Carried(req'[p])
    BY <2>1, <2>3 DEF TypeInv, Carried
  <2> QED BY <1>0, <2>5, <2>6, <2>7 DEF TypeInv, Carried
<1> QED
  BY <1>0, <1>1, <1>2, <1>3, <1>4, <1>5, <1>6, <1>7, <1>8, <1>9, <1>10, <1>11,
     <1>12, RotateTyped, CreateCodeTyped, UseTyped, CommitResetTyped DEF Next

LEMMA TypeInit ==
  ASSUME Init
  PROVE  TypeInv
<1>1. SessionInv /\ CodeInv
  BY SessionInit, CodeInit
<1>2. /\ DOMAIN token = {1} /\ DOMAIN code = {1} /\ asked = 0 /\ logins = 1
      /\ code[1] = [kind |-> "verify", status |-> "pending", attempts |-> 0, password |-> 0]
      /\ token[1] = [status |-> "active", login |-> 1, password |-> 0]
      /\ \A q \in Requests : req[q] = Idle
  BY DEF Init, Fresh, NewCodeOf
<1>3. Counted
  <2>1. Busy = {}
    BY <1>2 DEF Busy
  <2>2. /\ Cardinality(Busy) = 0
        /\ Cardinality(DOMAIN token) = 1 /\ Cardinality(DOMAIN code) = 1
    BY <1>2, <2>1, FS_EmptySet, FS_Singleton
  <2> QED BY <1>2, <2>2, SessionsAssumption DEF Counted
<1>4. Values
  <2>1. /\ verified = FALSE /\ twoFactor \in BOOLEAN
        /\ slipped = {} /\ outlived = {} /\ forked = {} /\ crowded = {} /\ overtaken = {}
    BY DEF Init
  <2>2. verified \in BOOLEAN
    BY <2>1
  <2>3. \A t \in DOMAIN token :
          token[t].status \in {"active", "revoked"} /\ token[t].password \in Nat
    BY <1>2
  <2>4. /\ slipped \subseteq DOMAIN token /\ outlived \subseteq 1 .. logins
        /\ forked \subseteq 1 .. logins
        /\ crowded \subseteq Kinds /\ overtaken \subseteq DOMAIN code
    BY <2>1
  <2>5. \A c \in DOMAIN code : Typed(code[c])
    BY <1>2 DEF Typed, Kinds
  <2> QED BY <2>1, <2>2, <2>3, <2>4, <2>5 DEF Values
<1>5. \A q \in Requests : Carried(req[q])
  BY <1>2 DEF Carried, Idle
<1> QED BY <1>1, <1>3, <1>4, <1>5 DEF TypeInv

LEMMA TypeFollows ==
  ASSUME TypeInv
  PROVE  TypeOK
<1>1. password \in Nat /\ logins \in Nat /\ asked \in 0 .. MaxRequests
  BY DEF TypeInv, SessionInv, TokenShape, Counted
<1>2. DOMAIN token \subseteq Tokens
  <2>1. PICK n \in Nat : DOMAIN token = 1 .. n
    BY DEF TypeInv, SessionInv, TokenShape
  <2>2. Cardinality(1 .. n) = IF 1 > n THEN 0 ELSE n - 1 + 1
    BY FS_Interval
  <2>3. n <= MaxRequests + 1
    BY <1>1, <2>1, <2>2, CountsFinite, SessionsAssumption DEF TypeInv, Counted
  <2> QED BY <2>1, <2>3, SessionsAssumption DEF Tokens
<1>3. DOMAIN code \subseteq Codes
  <2>1. PICK n \in Nat : DOMAIN code = 1 .. n
    BY DEF TypeInv, CodeInv, CodeShape
  <2>2. Cardinality(1 .. n) = IF 1 > n THEN 0 ELSE n - 1 + 1
    BY FS_Interval
  <2>3. n <= MaxRequests + 1
    BY <1>1, <2>1, <2>2, CountsFinite, SessionsAssumption DEF TypeInv, Counted
  <2> QED BY <2>1, <2>3, SessionsAssumption DEF Codes
<1>4. \A t \in DOMAIN token :
        token[t] \in [status : {"active", "revoked"}, login : Nat, password : Nat]
  <2> SUFFICES ASSUME NEW t \in DOMAIN token
               PROVE  token[t] \in [status : {"active", "revoked"}, login : Nat, password : Nat]
    OBVIOUS
  <2>1. /\ token[t] = [status |-> token[t].status, login |-> token[t].login,
                       password |-> token[t].password]
        /\ token[t].login \in 1 .. logins
    BY DEF TypeInv, SessionInv, TokenShape
  <2>2. token[t].status \in {"active", "revoked"} /\ token[t].password \in Nat
    BY DEF TypeInv, Values
  <2> QED BY <1>1, <2>1, <2>2
<1>5. \A c \in DOMAIN code :
        code[c] \in [kind : Kinds, status : {"pending", "consumed"}, attempts : Nat,
                     password : Nat]
  <2> SUFFICES ASSUME NEW c \in DOMAIN code
               PROVE  code[c] \in [kind : Kinds, status : {"pending", "consumed"},
                                   attempts : Nat, password : Nat]
    OBVIOUS
  <2>1. /\ code[c] = [kind |-> code[c].kind, status |-> code[c].status,
                      attempts |-> code[c].attempts, password |-> code[c].password]
        /\ code[c].attempts \in Nat
    BY DEF TypeInv, CodeInv, CodeShape
  <2>2. Typed(code[c])
    BY DEF TypeInv, Values
  <2> QED BY <2>1, <2>2 DEF Typed
<1>6. \A q \in Requests :
        req[q].step \in {"idle", "open", "rotate", "revokeAll", "logout", "issue",
                         "create", "exhaust", "wrong", "use", "commit"}
  BY DEF TypeInv, Carried
<1>7. uses \in [DOMAIN code -> Nat]
  BY DEF TypeInv, CodeInv, CodeShape
<1>8. /\ verified \in BOOLEAN /\ twoFactor \in BOOLEAN
      /\ slipped \subseteq Tokens /\ outlived \subseteq 1 .. logins
      /\ forked \subseteq 1 .. logins /\ crowded \subseteq Kinds
      /\ overtaken \subseteq DOMAIN code
  BY <1>2 DEF TypeInv, Values
<1> QED
  BY <1>1, <1>2, <1>3, <1>4, <1>5, <1>6, <1>7, <1>8 DEF TypeOK

\* The shape of the state, for any number of requests: a request issues one
\* token and one code at most.
THEOREM TypeCorrect == Spec => []TypeOK
<1>1. Init => TypeInv
  BY TypeInit
<1>2. TypeInv /\ [Next]_vars => TypeInv'
  BY TypeStep
<1>3. TypeInv => TypeOK
  BY TypeFollows
<1> QED BY <1>1, <1>2, <1>3, PTL DEF Spec
=============================================================================
