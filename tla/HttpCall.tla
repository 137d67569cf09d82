------------------------------- MODULE HttpCall -------------------------------
(***************************************************************************)
(* What a worker does with one execution, from the first request of its    *)
(* first attempt to its final status: the chain of requests of an attempt, *)
(* the classification of its failure and the delay before the next one.    *)
(*                                                                         *)
(* The environment decides every answer: the target may answer with any    *)
(* status, redirect anywhere, or never answer.  Queues, crashes and        *)
(* duplicate deliveries are in Execution; here an attempt runs once.       *)
(*                                                                         *)
(* Abstracted: headers, credentials and bodies (only whether a body is     *)
(* sent); the host rules of the URL check (the set Refused); the job is    *)
(* not edited between attempts.                                            *)
(*                                                                         *)
(* A payload of the fast path has no attempt, so a first attempt may be    *)
(* undefined: then undefined >= max_attempts is false, and the next        *)
(* attempt, undefined + 1, is NaN in the formulas of the delay.            *)
(***************************************************************************)
EXTENDS Naturals, Sequences, FiniteSets

CONSTANTS
  Urls,      \* records [scheme, host, path]
  First,     \* the URL that buildUrl makes of the job
  Refused,   \* the URLs assertUrlSyntaxIsSafe throws for
  Statuses,  \* the statuses that targets answer with
  Delays,    \* the values of a Retry-After header that parseRetryAfter accepts
  Jobs,      \* the job fields that the call and the retry read; cap is empty or {ceiling}
  MaxDelay   \* the longest delay that still makes a valid date

ASSUME HttpCallAssumption ==
  /\ First \in Urls /\ Refused \subseteq Urls
  /\ Delays \subseteq Nat \ {0} /\ MaxDelay \in Nat
  /\ \A j \in Jobs :   \* createJobSchema
       /\ j.method \in {"GET", "POST", "PUT", "PATCH", "DELETE"}
       /\ j.maxAttempts \in Nat \ {0} /\ j.maxRedirects \in Nat
       /\ j.strategy \in {"IMMEDIATE", "FIXED", "LINEAR", "FIBONACCI",
                          "EXPONENTIAL", "EXPONENTIAL_JITTER"}
       /\ j.base \in Nat /\ j.multiplier \in [n : Nat \ {0}, d : Nat \ {0}]
       /\ j.cap \subseteq Nat /\ \A c, d \in j.cap : c = d

Origin(u) == <<u.scheme, u.host>>

\* What a redirect may have in place of a URL to follow.
NoLocation == [scheme |-> "none"]
NotAUrl    == [scheme |-> "invalid"]

VARIABLES
  job,       \* the execution's copy of the job
  fast,      \* the first attempt came by the fast path, whose payload has no number
  tries,     \* the attempt, 1 for the first
  step,      \* visit, fetch, classify; waiting or stuck between attempts; or
             \* the final status
  url, method, hasBody,
  visited,   \* visitedUrls
  redirects, \* the redirects of this attempt, as its result reports them
  timer,     \* the attempt's one timeout: running or fired
  result,    \* what executeHttpJob returned
  waits,     \* history: the delay before each retry
  named,     \* history: a delay came from a Retry-After header
  sent       \* history: the requests of this attempt

chainVars == <<url, method, hasBody, visited, redirects, timer, sent>>
callVars == <<job, fast, tries, step, chainVars, result, waits, named>>

Outcomes == {"success", "failed_permanent", "failed_max_retries"}

\* The payload of this attempt has its number: a retry's always does.
Numbered == ~fast \/ tries > 1

-----------------------------------------------------------------------------
(* classifyFailure and computeDelaySeconds.                                *)

Redirecting == {301, 302, 303, 307, 308}

PermanentReasons ==
  {"ssrf_blocked", "redirect_loop", "redirect_policy_violation",
   "redirect_missing_location", "redirect_max_exceeded", "redirect_mode_error"}

Retryable4xx == {408, 409, 425, 429}

Permanent(r) ==
  \/ r.reason \in PermanentReasons
  \/ r.status \in 400 .. 499 \ Retryable4xx

fibonacci[n \in Nat] == IF n < 2 THEN n ELSE fibonacci[n - 1] + fibonacci[n - 2]

\* Math.pow
Power(b, k) == LET pow[i \in Nat] == IF i = 0 THEN 1 ELSE b * pow[i - 1] IN pow[k]

\* Math.round(n / d)
Rounded(n, d) == (2 * n + d) \div (2 * d)

\* The multiplier is a fraction; retry number a - 1 runs attempt number a.
Exponential(a) ==
  [n |-> job.base * Power(job.multiplier.n, a - 1), d |-> Power(job.multiplier.d, a - 1)]

\* The delays that the job's strategy may give before attempt a.
StrategyDelays(a) ==
  CASE job.strategy = "IMMEDIATE"   -> {0}
    [] job.strategy = "FIXED"       -> {job.base}
    [] job.strategy = "LINEAR"      -> {job.base * a}
    [] job.strategy = "FIBONACCI"   -> {job.base * fibonacci[a]}
    [] job.strategy = "EXPONENTIAL" ->
         LET e == Exponential(a) IN {Rounded(e.n, e.d)}
    [] job.strategy = "EXPONENTIAL_JITTER" ->
         LET e == Exponential(a)   \* Math.round of any real below e.n / e.d
         IN  {x \in 0 .. Rounded(e.n, e.d) : x = 0 \/ 2 * x * e.d < 2 * e.n + e.d}

\* The same where the attempt is NaN: what is multiplied by it is no delay, and
\* the loop of fibonacci does not run.
UnnumberedDelays ==
  CASE job.strategy = "FIXED"                      -> {job.base}
    [] job.strategy \in {"IMMEDIATE", "FIBONACCI"} -> {0}
    [] OTHER                                       -> {}

applyCap(x) == IF \E c \in job.cap : x > c THEN CHOOSE c \in job.cap : TRUE ELSE x

\* Mutant: Retry-After is taken as it is.
computeDelayUncapped(a, retryAfter) ==
  IF job.honor /\ retryAfter # {} THEN retryAfter
  ELSE {applyCap(x) : x \in IF Numbered THEN StrategyDelays(a) ELSE UnnumberedDelays}

\* retryAfter: {} when the failure carries none.  No delay at all is NaN.
computeDelaySeconds(a, retryAfter) ==
  {applyCap(x) : x \in IF job.honor /\ retryAfter # {} THEN retryAfter
                       ELSE IF Numbered THEN StrategyDelays(a) ELSE UnnumberedDelays}

\* The delay may be NaN or beyond MaxDelay: an invalid date, which no row takes.
NoDate(a, retryAfter) ==
  LET delays == computeDelaySeconds(a, retryAfter)
  IN  delays = {} \/ \E x \in delays : x > MaxDelay

-----------------------------------------------------------------------------
(* One attempt: executeHttpJob.                                            *)

NoResult == [success |-> FALSE, status |-> 0, reason |-> "", retryAfter |-> {}]

\* The state in which an attempt of job j starts.
FirstRequest(j) ==
  [url |-> First, method |-> j.method, hasBody |-> j.method \notin {"GET", "DELETE"}]

CallInit ==
  /\ job \in Jobs /\ fast \in BOOLEAN
  /\ tries = 1 /\ step = "visit" /\ result = NoResult
  /\ url = FirstRequest(job).url /\ method = FirstRequest(job).method
  /\ hasBody = FirstRequest(job).hasBody
  /\ visited = {} /\ redirects = <<>> /\ timer = "running" /\ sent = <<>>
  /\ waits = <<>> /\ named = FALSE

Return(r) ==
  /\ result' = [NoResult EXCEPT !.success = r.success, !.status = r.status,
                                !.reason = r.reason]
  /\ step' = "classify"
  /\ UNCHANGED <<url, method, hasBody, visited, timer, sent>>

Fails(s, reason) ==
  /\ Return([success |-> FALSE, status |-> s, reason |-> reason])
  /\ UNCHANGED redirects

\* The head of the loop, for the first URL and for every redirect target.
VisitLoop ==
  /\ step = "visit" /\ url \in visited
  /\ Fails(0, "redirect_loop")
  /\ UNCHANGED <<job, fast, tries, waits, named>>

VisitRefused ==
  /\ step = "visit" /\ url \notin visited /\ url \in Refused
  /\ Fails(0, "ssrf_blocked")
  /\ UNCHANGED <<job, fast, tries, waits, named>>

Visit ==
  /\ step = "visit" /\ url \notin visited \cup Refused
  /\ visited' = visited \cup {url}
  /\ sent' = Append(sent, [url |-> url, method |-> method, body |-> hasBody])
  /\ step' = "fetch"
  /\ UNCHANGED <<job, fast, tries, url, method, hasBody, redirects, timer, result, waits, named>>

\* Mutant: the timeout covers the first request only.
TimerFiresFirstHop ==
  /\ step \in {"visit", "fetch"} /\ timer = "running" /\ redirects = <<>>
  /\ timer' = "fired"
  /\ UNCHANGED <<job, fast, tries, step, url, method, hasBody, visited, redirects, sent,
                 result, waits, named>>

\* One timer covers the whole chain.
TimerFires ==
  /\ step \in {"visit", "fetch"} /\ timer = "running"
  /\ timer' = "fired"
  /\ UNCHANGED <<job, fast, tries, step, url, method, hasBody, visited, redirects, sent,
                 result, waits, named>>

\* The fetch, or the reading of its body, is aborted by the timer or fails.
FetchThrows ==
  /\ step = "fetch"
  /\ Fails(0, "")
  /\ UNCHANGED <<job, fast, tries, waits, named>>

Aborted == timer = "fired" /\ FetchThrows

\* Every address that the name resolves to at connect time is refused.
LookupRefused ==
  /\ step = "fetch"
  /\ Fails(0, "ssrf_blocked")
  /\ UNCHANGED <<job, fast, tries, waits, named>>

\* An answer that is no redirect; retry-after is read from failures only.
Answer ==
  /\ step = "fetch" /\ timer = "running"
  /\ \E s \in Statuses \ Redirecting, ra \in {{}} \cup {{d} : d \in Delays} :
       LET ok == s \in 200 .. 299
       IN  /\ ok => ra = {}
           /\ result' = [success |-> ok, status |-> s, reason |-> "", retryAfter |-> ra]
  /\ step' = "classify"
  /\ UNCHANGED <<job, fast, tries, chainVars, waits, named>>

Redirect(s, to) == [status |-> s, from |-> url, to |-> to]

\* Mutant: one redirect more than the maximum.
RefusedForLate(to) ==
  CASE job.mode = "error"                            -> "redirect_mode_error"
    [] to = NoLocation                               -> "redirect_missing_location"
    [] to = NotAUrl                                  -> ""
    [] Len(redirects) > job.maxRedirects             -> "redirect_max_exceeded"
    [] Origin(to) # Origin(url) /\ ~job.crossOrigin  -> "redirect_policy_violation"
    [] url.scheme = "https" /\ to.scheme = "http" /\ ~job.downgrade
                                                     -> "redirect_policy_violation"
    [] OTHER                                         -> "follow"

\* A redirect that the job does not follow.
RefusedFor(to) ==
  CASE job.mode = "error"                            -> "redirect_mode_error"
    [] to = NoLocation                               -> "redirect_missing_location"
    [] to = NotAUrl                                  -> ""   \* new URL() throws
    [] Len(redirects) >= job.maxRedirects            -> "redirect_max_exceeded"
    [] Origin(to) # Origin(url) /\ ~job.crossOrigin  -> "redirect_policy_violation"
    [] url.scheme = "https" /\ to.scheme = "http" /\ ~job.downgrade
                                                     -> "redirect_policy_violation"
    [] OTHER                                         -> "follow"

RedirectManual ==
  /\ step = "fetch" /\ timer = "running" /\ job.mode = "manual"
  /\ \E s \in Statuses \cap Redirecting, to \in Urls :
       /\ redirects' = Append(redirects, Redirect(s, to))
       /\ Return([success |-> TRUE, status |-> s, reason |-> ""])
  /\ UNCHANGED <<job, fast, tries, waits, named>>

RedirectRefused ==
  /\ step = "fetch" /\ timer = "running"
  /\ \E s \in Statuses \cap Redirecting, to \in Urls \cup {NoLocation, NotAUrl} :
       /\ to \in Urls => job.mode # "manual"
       /\ RefusedFor(to) # "follow"
       /\ Fails(IF RefusedFor(to) = "" THEN 0 ELSE s, RefusedFor(to))
  /\ UNCHANGED <<job, fast, tries, waits, named>>

\* Mutant: a 303 changes a POST only.
RewritesPostOnly(s) == s \in {301, 302, 303} /\ method = "POST"

\* The method and body of the next request.
Rewrites(s) ==
  \/ s \in {301, 302} /\ method = "POST"
  \/ s = 303 /\ method # "HEAD"

RedirectFollowed ==
  /\ step = "fetch" /\ timer = "running" /\ job.mode = "follow"
  /\ \E s \in Statuses \cap Redirecting, to \in Urls :
       /\ RefusedFor(to) = "follow"
       /\ redirects' = Append(redirects, Redirect(s, to))
       /\ url' = to
       /\ method' = IF Rewrites(s) THEN "GET" ELSE method
       /\ hasBody' = (hasBody /\ ~Rewrites(s))
  /\ step' = "visit"
  /\ UNCHANGED <<job, fast, tries, visited, timer, result, waits, named, sent>>

-----------------------------------------------------------------------------
(* Between attempts: executeAndReport and scheduleExecutionRetry.          *)

Conclude(s) ==
  /\ step' = s
  /\ UNCHANGED <<job, fast, tries, chainVars, result, waits, named>>

\* Mutant: one attempt more than the maximum.
LastTryLate == Numbered /\ tries > job.maxAttempts

\* undefined >= max_attempts is false.
LastTry == Numbered /\ tries >= job.maxAttempts

Succeeds == step = "classify" /\ result.success /\ Conclude("success")

FailsForGood ==
  /\ step = "classify" /\ ~result.success /\ Permanent(result)
  /\ Conclude("failed_permanent")

FailsAtLast ==
  /\ step = "classify" /\ ~result.success /\ ~Permanent(result)
  /\ LastTry
  /\ Conclude("failed_max_retries")

ScheduleRetry(retryAfter) ==
  \E x \in computeDelaySeconds(tries + 1, retryAfter) :
    /\ x \in 0 .. MaxDelay
    /\ step' = "waiting"
    /\ waits' = Append(waits, x)
    /\ named' = (named \/ (job.honor /\ retryAfter # {}))
    /\ UNCHANGED <<job, fast, tries, chainVars, result>>

TriesAgain == ~result.success /\ ~Permanent(result) /\ ~LastTry

RetryScheduled == step = "classify" /\ TriesAgain /\ ScheduleRetry(result.retryAfter)

RetryNotScheduled ==
  /\ step = "classify" /\ TriesAgain
  /\ NoDate(tries + 1, result.retryAfter)
  /\ Conclude("stuck")

\* Recovery has the same payload and knows nothing of the answer; it gives the
\* execution up after some deliveries when the strategy's own delay is no date.
Recovered == step = "stuck" /\ ScheduleRetry({})

GivenUp ==
  /\ step = "stuck"
  /\ NoDate(tries + 1, {})
  /\ Conclude("failed_max_retries")

\* The retry sweep, the queue and the worker that takes the next attempt.
NextAttempt ==
  /\ step = "waiting"
  /\ tries' = tries + 1
  /\ step' = "visit" /\ result' = NoResult
  /\ url' = FirstRequest(job).url /\ method' = FirstRequest(job).method
  /\ hasBody' = FirstRequest(job).hasBody
  /\ visited' = {} /\ redirects' = <<>> /\ timer' = "running" /\ sent' = <<>>
  /\ UNCHANGED <<job, fast, waits, named>>

Worker ==
  \/ VisitLoop \/ VisitRefused \/ Visit
  \/ Succeeds \/ FailsForGood \/ FailsAtLast \/ RetryScheduled \/ RetryNotScheduled
  \/ Recovered \/ GivenUp \/ NextAttempt

Target ==
  \/ Answer \/ RedirectManual \/ RedirectRefused \/ RedirectFollowed
  \/ FetchThrows \/ LookupRefused

CallNext == Worker \/ Target \/ TimerFires

CallSpec == CallInit /\ [][CallNext]_callVars

\* The event loop runs what is ready and fires the timer; no target has to answer.
FairCallSpec == CallSpec /\ WF_callVars(Worker) /\ WF_callVars(TimerFires) /\ WF_callVars(Aborted)

-----------------------------------------------------------------------------
(* Properties.                                                             *)

\* One attempt more than the job allows only where a single one is allowed and
\* its payload has no number.
MostTries == IF fast /\ job.maxAttempts = 1 THEN 2 ELSE job.maxAttempts

\* Every variable has its type, and the attempts their limit.
CallTypeOK ==
  /\ job \in Jobs /\ fast \in BOOLEAN
  /\ tries \in 1 .. MostTries
  /\ step \in {"visit", "fetch", "classify", "waiting", "stuck"} \cup Outcomes
  /\ url \in Urls /\ method \in {job.method, "GET"} /\ hasBody \in BOOLEAN
  /\ visited \subseteq Urls
  /\ redirects \in Seq([status : Redirecting, from : Urls, to : Urls])
  /\ timer \in {"running", "fired"}
  /\ result \in [success : BOOLEAN, status : Statuses \cup {0},
                 reason : PermanentReasons \cup {""}, retryAfter : SUBSET Delays]
  /\ waits \in Seq(0 .. MaxDelay) /\ Len(waits) < MostTries
  /\ named \in BOOLEAN
  /\ sent \in Seq([url : Urls, method : {job.method, "GET"}, body : BOOLEAN])

\* The requests of an attempt form one chain from the job's URL: the reported
\* redirects link them, no URL gets two requests, none is refused, and every
\* hop is one that the job's redirect mode and policy allow.
ChainFollowsPolicy ==
  /\ Len(sent) <= 1 + IF job.mode = "follow" THEN job.maxRedirects ELSE 0
  /\ \A i \in 1 .. Len(sent) :
       /\ sent[i].url \notin Refused
       /\ \A k \in 1 .. i - 1 : sent[k].url # sent[i].url
       /\ IF i = 1 THEN sent[i].url = First
          ELSE LET u == sent[i - 1].url
                   v == sent[i].url
               IN  /\ <<redirects[i - 1].from, redirects[i - 1].to>> = <<u, v>>
                   /\ Origin(u) # Origin(v) => job.crossOrigin
                   /\ u.scheme = "https" /\ v.scheme = "http" => job.downgrade

\* The fetch standard: a request with another body or method than the one
\* before only after a 303, or a POST after a 301 or 302, and then as a GET
\* without a body; a body once dropped is not sent again.
BodyFollowsRedirects ==
  \A i \in 2 .. Len(sent) :
    LET before == sent[i - 1]
        after  == sent[i]
        s      == redirects[i - 1].status
    IN  IF s = 303 \/ (s \in {301, 302} /\ before.method = "POST")
        THEN after.method = "GET" /\ ~after.body
        ELSE after.method = before.method /\ after.body = before.body

\* No wait exceeds the job's ceiling, whatever the strategy or the target asks
\* for, and with no Retry-After and no jitter a later wait is never shorter.
WaitsFit ==
  /\ \A i \in 1 .. Len(waits), c \in job.cap : waits[i] <= c
  /\ ~named /\ job.strategy # "EXPONENTIAL_JITTER" /\ job.multiplier.n >= job.multiplier.d
       => \A i \in 2 .. Len(waits) : waits[i] >= waits[i - 1]

\* Whatever the targets do, and if they never answer, every execution gets its
\* final status.
CallEnds == <>(step \in Outcomes)

=============================================================================
