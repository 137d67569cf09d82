----------------------------- MODULE MCHttpCall -----------------------------
(* The instance of HttpCall that TLC checks. *)
EXTENDS HttpCall, TLC

At(scheme, host, path) == [scheme |-> scheme, host |-> host, path |-> path]

FirstUrl    == At("https", "a", 1)
MetadataUrl == At("http", "c", 1)
RefusedUrls == {MetadataUrl}
SmallUrls   == {FirstUrl, At("https", "a", 2), At("http", "a", 1), At("https", "b", 1),
                MetadataUrl}

Call(verb, mode, most, cross, downgrade) ==
  [method |-> verb, mode |-> mode, maxRedirects |-> most,
   crossOrigin |-> cross, downgrade |-> downgrade]

Retry(strategy, base, n, d, cap, honor, attempts) ==
  [strategy |-> strategy, base |-> base, multiplier |-> [n |-> n, d |-> d],
   cap |-> cap, honor |-> honor, maxAttempts |-> attempts]

\* Every redirect policy, and every retry policy.
SmallJobs ==
  {Call(m, mode, r, c, d) @@ Retry("FIXED", 1, 2, 1, {}, FALSE, 1) :
     m \in {"POST", "PUT", "DELETE"}, mode \in {"follow", "manual", "error"},
     r \in {0, 2}, c \in BOOLEAN, d \in BOOLEAN}
  \cup
  {Call("POST", "error", 0, FALSE, FALSE) @@ Retry(s, 3, f[1], f[2], cap, h, 3) :
     s \in {"IMMEDIATE", "FIXED", "LINEAR", "EXPONENTIAL", "EXPONENTIAL_JITTER", "FIBONACCI"},
     f \in {<<2, 1>>, <<3, 2>>, <<1, 2>>}, cap \in {{}, {5}}, h \in BOOLEAN}
=============================================================================
