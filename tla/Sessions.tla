------------------------------- MODULE Sessions -------------------------------
(***************************************************************************)
(* One user's account: password, verified email, two-factor flag, the      *)
(* refresh tokens that stand for sessions, and the one-time codes that are *)
(* mailed to verify the email, to reset the password, to finish a login    *)
(* and to turn two-factor authentication on.                               *)
(*                                                                         *)
(* Every service of auth.service.js reads what it decides on, and then     *)
(* writes in a transaction whose statements go by the row's id.  Requests  *)
(* of several tabs and devices, and retries, interleave between the two.   *)
(*                                                                         *)
(* Abstracted: hashes (a token or code presented is the row it matches),   *)
(* expiry (an expired row refuses, as a request that never comes does),    *)
(* access tokens (nothing stores them), the mail that carries a code.      *)
(* Signup, which makes the user, a first session and a code to verify the  *)
(* email, is Init.                                                         *)
(***************************************************************************)
EXTENDS Naturals, FiniteSets

CONSTANTS
  Requests,    \* requests that may be in progress at once
  MaxAttempts, \* twoFactorMaxAttempts
  MaxRequests  \* bound: how many requests there are

ASSUME SessionsAssumption ==
  /\ IsFiniteSet(Requests)
  /\ MaxAttempts \in Nat \ {0} /\ MaxRequests \in Nat

\* Signup issues a token and a code, a request one of them at most.
Tokens == 1 .. MaxRequests + 1
Codes  == 1 .. MaxRequests + 1
Guessable == {"login", "enable"}             \* two_factor_challenges.purpose
Kinds  == {"verify", "reset"} \cup Guessable

VARIABLES
  password,  \* the number of the password in force
  verified,  \* email_verified_at is set
  twoFactor, \* two_factor_enabled
  token,     \* the refresh tokens issued: status, and, as history, the login
             \* it goes back to and the password that was in force then
  code,      \* the codes issued: kind, status, attempts, and, as history, the
             \* password that was in force when its request read the user
  req,       \* per request: what it does and how far it is
  asked,     \* how many requests there have been
  logins,    \* history: how many logins there have been
  slipped,   \* history: tokens issued on what was read before the last reset, or
             \* while it ran
  outlived,  \* history: logins finished since the last reset with a challenge of
             \* before it
  forked,    \* history: logins of which a token was rotated that had been revoked
             \* since it was read
  crowded,   \* history: kinds of which two codes were issued at once
  uses,      \* history: how often each code has had its effect
  overtaken  \* history: codes that had it when they were not pending any more

userVars == <<password, verified, twoFactor>>
history  == <<logins, slipped, outlived, forked, crowded, uses, overtaken>>
vars     == <<userVars, token, code, req, asked, history>>

Idle == [step |-> "idle"]
Fresh(l, p) == [status |-> "active", login |-> l, password |-> p]
Active == {t \in DOMAIN token : token[t].status = "active"}
Pending(kind) == {c \in DOMAIN code : code[c].kind = kind /\ code[c].status = "pending"}

NewCodeOf(kind, p) ==
  [kind |-> kind, status |-> "pending", attempts |-> 0, password |-> p]

NewToken == Cardinality(DOMAIN token) + 1
NewCode  == Cardinality(DOMAIN code) + 1

\* The row of the user, which a reset has updated, is locked until its COMMIT.
UserLocked == \E p \in Requests : req[p].step = "commit"

\* signupService, and perhaps two-factor authentication turned on since.
Init ==
  /\ password = 0
  /\ verified = FALSE
  /\ twoFactor \in BOOLEAN
  /\ token = [t \in {1} |-> Fresh(1, 0)]
  /\ code = [c \in {1} |-> NewCodeOf("verify", 0)]
  /\ req = [q \in Requests |-> Idle]
  /\ asked = 0
  /\ logins = 1
  /\ slipped = {} /\ outlived = {} /\ forked = {} /\ crowded = {} /\ overtaken = {}
  /\ uses = [c \in {1} |-> 0]

-----------------------------------------------------------------------------
(* What the actions are built from.                                        *)

Start(q, record) ==
  /\ req[q] = Idle
  /\ asked < MaxRequests
  /\ asked' = asked + 1
  /\ req' = [req EXCEPT ![q] = record]
Finish(q) == req' = [req EXCEPT ![q] = Idle] /\ UNCHANGED asked

Revoked(tokens) ==
  [t \in DOMAIN token |->
     IF t \in tokens THEN [token[t] EXCEPT !.status = "revoked"] ELSE token[t]]

Extended(f, x, v) == [y \in DOMAIN f \cup {x} |-> IF y = x THEN v ELSE f[y]]

\* The codes with some of them consumed.
Consumed(codes) ==
  [c \in DOMAIN code |->
     IF c \in codes THEN [code[c] EXCEPT !.status = "consumed"] ELSE code[c]]

-----------------------------------------------------------------------------
(* loginService, refreshService, logoutService.                            *)

\* The password is right; what happens next is decided on the row read here.
Login(q) ==
  /\ IF twoFactor THEN Start(q, [step |-> "issue", kind |-> "login", seen |-> password])
                  ELSE Start(q, [step |-> "open", seen |-> password])
  /\ UNCHANGED <<userVars, token, code, history>>

\* insertRefreshToken
OpenSession(q) ==
  /\ req[q].step = "open"
  /\ token' = Extended(token, NewToken, Fresh(logins + 1, req[q].seen))
  /\ logins' = logins + 1
  /\ slipped' = slipped \cup (IF req[q].seen = password THEN {} ELSE {NewToken})
  /\ Finish(q)
  /\ UNCHANGED <<userVars, code, outlived, forked, crowded, uses, overtaken>>

\* Mutant: a rotated token is not told from one in use.
RefreshAnyToken(q, t) ==
  /\ Start(q, [step |-> "rotate", token |-> t, found |-> token[t], seen |-> password])
  /\ UNCHANGED <<userVars, token, code, history>>

\* refreshService finds the token: revoked already, or in use.
Refresh(q, t) ==
  /\ Start(q, [step |-> IF t \in Active THEN "rotate" ELSE "revokeAll",
               token |-> t, found |-> token[t], seen |-> password])
  /\ UNCHANGED <<userVars, token, code, history>>

\* revokeAllRefreshTokensForUser
RevokeAll(q) ==
  /\ req[q].step = "revokeAll"
  /\ token' = Revoked(Active)
  /\ Finish(q)
  /\ UNCHANGED <<userVars, code, history>>

\* insertRefreshToken and rotateRefreshToken, whatever became of the old token.
Rotate(q) ==
  /\ req[q].step = "rotate"
  /\ LET old == req[q].token
     IN  /\ token' = Extended(Revoked({old}), NewToken,
                              Fresh(token[old].login, token[old].password))
         /\ slipped' = slipped \cup (IF req[q].seen # password \/ old \in slipped
                                       THEN {NewToken} ELSE {})
         /\ forked' = forked \cup (IF token[old] = req[q].found THEN {}
                                     ELSE {token[old].login})
  /\ Finish(q)
  /\ UNCHANGED <<userVars, code, logins, outlived, crowded, uses, overtaken>>

\* logoutService: the token is in use, and revokeRefreshToken if it still is.
Logout(q, t) ==
  /\ t \in Active
  /\ Start(q, [step |-> "logout", token |-> t])
  /\ UNCHANGED <<userVars, token, code, history>>

\* Mutant: a status nothing else knows.
LogoutWithReason(q) ==
  /\ req[q].step = "logout"
  /\ token' = [token EXCEPT ![req[q].token].status = "logged_out"]
  /\ Finish(q)
  /\ UNCHANGED <<userVars, code, history>>

LogoutWrite(q) ==
  /\ req[q].step = "logout"
  /\ token' = Revoked({req[q].token} \cap Active)
  /\ Finish(q)
  /\ UNCHANGED <<userVars, code, history>>

-----------------------------------------------------------------------------
(* Issuing a code: resendVerificationService, forgotPasswordService,       *)
(* initiateTwoFactorEnableService, and a login with two factors.           *)

Request(q, kind) ==
  /\ kind = "verify" => ~verified
  /\ kind = "enable" => ~twoFactor
  /\ kind # "login"
  /\ Start(q, [step |-> "issue", kind |-> kind, seen |-> password])
  /\ UNCHANGED <<userVars, token, code, history>>

\* invalidatePending...: the statement's snapshot holds the codes committed so
\* far; what it consumes shows with the COMMIT.
Supersede(q) ==
  /\ req[q].step = "issue"
  /\ LET kind == req[q].kind
     IN  /\ req' = [req EXCEPT ![q] = [step |-> "create", kind |-> kind,
                                      seen |-> req[q].seen, old |-> Pending(kind)]]
         /\ crowded' = crowded \cup
              {k \in {kind} : \E p \in Requests : req[p].step = "create" /\ req[p].kind = k}
  /\ UNCHANGED <<userVars, token, code, asked, logins, slipped, outlived, forked, uses,
                 overtaken>>

\* create...Token or createTwoFactorChallenge, and COMMIT.  A code that a reset is
\* using keeps the first statement waiting.
CreateCode(q) ==
  /\ req[q].step = "create"
  /\ \A p \in Requests : req[p].step = "commit" => req[p].code \notin req[q].old
  /\ code' = Extended(Consumed(req[q].old), NewCode, NewCodeOf(req[q].kind, req[q].seen))
  /\ uses' = Extended(uses, NewCode, 0)
  /\ Finish(q)
  /\ UNCHANGED <<userVars, token, logins, slipped, outlived, forked, crowded, overtaken>>

-----------------------------------------------------------------------------
(* Using a code: verifyEmailService, resetPasswordService,                 *)
(* twoFactorLoginVerifyService, confirmTwoFactorEnableService.             *)

\* The row is found pending.  A challenge with too many attempts is spent; a
\* wrong code counts against it; anything else wrong matches no row.
PresentWithin(q, c, limit) ==
  /\ code[c].status = "pending"
  /\ IF code[c].kind \in Guessable /\ code[c].attempts >= limit
       THEN Start(q, [step |-> "exhaust", code |-> c])
       ELSE \/ /\ code[c].kind \in Guessable
               /\ Start(q, [step |-> "wrong", code |-> c])
            \/ Start(q, [step |-> "use", code |-> c, seen |-> password])
  /\ UNCHANGED <<userVars, token, code, history>>

\* Mutant: off by one.
PresentOnceMore(q, c) == PresentWithin(q, c, MaxAttempts + 1)

Present(q, c) == PresentWithin(q, c, MaxAttempts)

\* consumeTwoFactorChallenge
Exhaust(q) ==
  /\ req[q].step = "exhaust"
  /\ code' = Consumed({req[q].code})
  /\ Finish(q)
  /\ UNCHANGED <<userVars, token, history>>

\* incrementTwoFactorAttempts
CountWrong(q) ==
  /\ req[q].step = "wrong"
  /\ code' = [code EXCEPT ![req[q].code].attempts = @ + 1]
  /\ Finish(q)
  /\ UNCHANGED <<userVars, token, history>>

\* Code c has its effect.
Used(c) ==
  /\ uses' = [uses EXCEPT ![c] = @ + 1]
  /\ overtaken' = overtaken \cup (IF code[c].status = "pending" THEN {} ELSE {c})

\* One transaction: the consume... statement, which leaves the codes "codes",
\* whatever became of the row, and what the code is for.
UseWith(q, codes) ==
  /\ req[q].step = "use"
  /\ LET c    == req[q].code
         kind == code[c].kind
     IN  /\ code' = codes
         /\ Used(c)
         /\ \/ /\ kind = "verify" /\ ~UserLocked
               /\ verified' = TRUE
               /\ UNCHANGED <<twoFactor, token, logins, slipped, outlived>>
            \/ /\ kind = "enable" /\ ~UserLocked
               /\ twoFactor' = TRUE
               /\ UNCHANGED <<verified, token, logins, slipped, outlived>>
            \/ /\ kind = "login"
               /\ token' = Extended(token, NewToken, Fresh(logins + 1, code[c].password))
               /\ logins' = logins + 1
               /\ slipped' = slipped \cup (IF req[q].seen = password THEN {} ELSE {NewToken})
               /\ outlived' = outlived \cup
                                (IF req[q].seen = code[c].password THEN {} ELSE {logins'})
               /\ UNCHANGED <<verified, twoFactor>>
  /\ Finish(q)
  /\ UNCHANGED <<password, forked, crowded>>

\* Mutant: the code is left pending.
UseAgain(q) == UseWith(q, code)

Use(q) == UseWith(q, Consumed({req[q].code}))

\* The transaction of a reset, up to the snapshot of its last statement,
\* revokeAllRefreshTokensForUser, in which the tokens "issued" show.
Reset(q) ==
  /\ req[q].step = "use"
  /\ code[req[q].code].kind = "reset"
  /\ ~UserLocked
  /\ req' = [req EXCEPT ![q] = [step |-> "commit", code |-> req[q].code,
                               issued |-> DOMAIN token]]
  /\ UNCHANGED <<userVars, token, code, asked, history>>

\* Its COMMIT, which leaves the sessions "kept".
CommitResetBut(q, kept) ==
  /\ req[q].step = "commit"
  /\ code' = Consumed({req[q].code})
  /\ Used(req[q].code)
  /\ password' = password + 1
  /\ token' = Revoked((Active \cap req[q].issued) \ kept)
  /\ slipped' = DOMAIN token \ req[q].issued
  /\ outlived' = {}
  /\ Finish(q)
  /\ UNCHANGED <<verified, twoFactor, logins, forked, crowded>>

\* Mutant: the first session is left.
CommitResetKeepsOne(q) == CommitResetBut(q, {1})

CommitReset(q) == CommitResetBut(q, {})

\* disableTwoFactorService, with the right password
DisableTwoFactor ==
  /\ twoFactor /\ ~UserLocked
  /\ twoFactor' = FALSE
  /\ UNCHANGED <<password, verified, token, code, req, asked, history>>

\* The process dies or the database fails before the COMMIT.
Die(q) ==
  /\ req[q] # Idle
  /\ Finish(q)
  /\ UNCHANGED <<userVars, token, code, history>>

-----------------------------------------------------------------------------
Next ==
  \/ \E q \in Requests :
       \/ Login(q) \/ OpenSession(q) \/ RevokeAll(q) \/ Rotate(q) \/ LogoutWrite(q)
       \/ \E t \in DOMAIN token : Refresh(q, t) \/ Logout(q, t)
       \/ \E kind \in Kinds : Request(q, kind)
       \/ Supersede(q) \/ CreateCode(q)
       \/ \E c \in DOMAIN code : Present(q, c)
       \/ Exhaust(q) \/ CountWrong(q) \/ Use(q)
       \/ Reset(q) \/ CommitReset(q)
       \/ Die(q)
  \/ DisableTwoFactor

Spec == Init /\ [][Next]_vars

-----------------------------------------------------------------------------
(* Properties.                                                             *)

\* The shape of the state.
TypeOK ==
  /\ password \in Nat /\ verified \in BOOLEAN /\ twoFactor \in BOOLEAN
  /\ DOMAIN token \subseteq Tokens
  /\ \A t \in DOMAIN token :
       token[t] \in [status : {"active", "revoked"}, login : Nat, password : Nat]
  /\ DOMAIN code \subseteq Codes
  /\ \A c \in DOMAIN code :
       code[c] \in [kind : Kinds, status : {"pending", "consumed"}, attempts : Nat,
                    password : Nat]
  /\ \A q \in Requests :
       req[q].step \in {"idle", "open", "rotate", "revokeAll", "logout", "issue",
                        "create", "exhaust", "wrong", "use", "commit"}
  /\ asked \in 0 .. MaxRequests /\ logins \in Nat
  /\ slipped \subseteq Tokens /\ outlived \subseteq 1 .. logins
  /\ forked \subseteq 1 .. logins /\ crowded \subseteq Kinds
  /\ uses \in [DOMAIN code -> Nat] /\ overtaken \subseteq DOMAIN code

\* "Rotate-on-use": however often it is refreshed, a login holds one session,
\* unless a refresh rotated a token that was no longer in use: another refresh of
\* it, a logout, a reuse or a reset came after it had been read.
OneSessionPerLogin ==
  \A s, t \in Active :
    token[s].login = token[t].login /\ token[s].login \notin forked => s = t

\* "Resetting the password also revokes every existing refresh token": no
\* session goes back to a login under an earlier password, whatever was refreshed,
\* logged in or reset before, but for three kinds: one of a login or a refresh that
\* had read before the last reset and wrote after it; one issued between the
\* snapshot in which that reset looked for tokens and its COMMIT; and one of a login
\* whose challenge had been created before the reset, which leaves challenges alive.
ResetEndsSessions ==
  \A t \in Active :
    token[t].password = password \/ t \in slipped \/ token[t].login \in outlived

\* "only the most recently sent code should be acceptable": at most one code
\* of a kind is pending, unless two requests issued one at the same time; and
\* it has its effect once, unless another use, or a newer code, came between
\* its being read and its effect.
LatestCodeOnce ==
  /\ \A kind \in Kinds \ crowded : Cardinality(Pending(kind)) <= 1
  /\ \A c \in DOMAIN uses \ overtaken : uses[c] <= 1

\* The attempts a challenge takes exceed the limit at most by the requests
\* that read the count before the others had written it.
WrongCodesBounded ==
  \A c \in DOMAIN code : code[c].attempts <= MaxAttempts + Cardinality(Requests) - 1
=============================================================================
