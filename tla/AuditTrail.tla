----------------------------- MODULE AuditTrail -----------------------------
(***************************************************************************)
(* What the gateway promises to whoever audits it, without the file, the   *)
(* lock, the handlers or the crashes: a trail of spans that only grows, in *)
(* which each span appears at most once, and which accounts for what was   *)
(* done with a request before it is done.  A span can be lost to an I/O    *)
(* error; it is then `missing', and it still was attempted in its place.   *)
(***************************************************************************)
CONSTANTS Requests, Spans

VARIABLES
  trail,      \* the spans on record
  missing,    \* the spans lost to I/O errors
  executed,   \* the requests whose script was started
  answer      \* what each request was answered

trailVars == <<trail, missing, executed, answer>>

RequestSpan(r)   == [kind |-> "request", of |-> r]
ErrorSpan(r)     == [kind |-> "error", of |-> r]
FallbackSpan(r, reason) == [kind |-> reason, of |-> r]
Fallbacks == {"missing_app", "app_error"}

Account == trail \cup missing

TrailInit ==
  /\ trail = {} /\ missing = {} /\ executed = {}
  /\ answer = [r \in Requests |-> "none"]

(* When a span may be appended.  A request is admitted or refused, never   *)
(* both; a fallback is recorded for an admitted request, once.             *)
Due(s) ==
  /\ s \in Spans /\ s \notin Account
  /\ \/ s.kind = "heartbeat"
     \/ \E r \in Requests :
          /\ answer[r] = "none"
          /\ \/ s = RequestSpan(r) /\ ErrorSpan(r) \notin Account
             \/ s = ErrorSpan(r) /\ RequestSpan(r) \notin Account
             \/ \E k \in Fallbacks :
                  /\ s = FallbackSpan(r, k)
                  /\ RequestSpan(r) \in Account
                  /\ \A l \in Fallbacks : FallbackSpan(r, l) \notin Account
                  /\ k = "missing_app" => r \notin executed

Record(s) ==
  /\ Due(s)
  /\ trail' = trail \cup {s}
  /\ UNCHANGED <<missing, executed, answer>>

Lose(s) ==
  /\ Due(s)
  /\ missing' = missing \cup {s}
  /\ UNCHANGED <<trail, executed, answer>>

Execute(r) ==
  /\ answer[r] = "none" /\ r \notin executed
  /\ RequestSpan(r) \in Account
  /\ \A k \in Fallbacks : FallbackSpan(r, k) \notin Account
  /\ executed' = executed \cup {r}
  /\ UNCHANGED <<trail, missing, answer>>

(* A 404 leaves no record at all: the gateway answers it before it logs.   *)
Justifies(r, a) ==
  \/ a = "404" /\ RequestSpan(r) \notin Account /\ ErrorSpan(r) \notin Account
  \/ a = "403" /\ ErrorSpan(r) \in Account
  \/ a = "output" /\ r \in executed /\ \A k \in Fallbacks : FallbackSpan(r, k) \notin Account
  \/ a \in Fallbacks /\ FallbackSpan(r, a) \in Account

Answer(r) ==
  /\ answer[r] = "none"
  /\ \E a \in {"404", "403", "output"} \cup Fallbacks :
       /\ Justifies(r, a)
       /\ answer' = [answer EXCEPT ![r] = a]
  /\ UNCHANGED <<trail, missing, executed>>

TrailNext ==
  \/ \E s \in Spans : Record(s) \/ Lose(s)
  \/ \E r \in Requests : Execute(r) \/ Answer(r)

TrailSpec == TrailInit /\ [][TrailNext]_trailVars
=============================================================================
