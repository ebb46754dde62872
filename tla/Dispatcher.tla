----------------------------- MODULE Dispatcher -----------------------------
(***************************************************************************)
(* The runtime dispatcher (src/dispatcher): every span that may be         *)
(* executed becomes a dispatch_affair, which is classified, if need be by  *)
(* a language model, checked against the policies, and queued for the      *)
(* core or the UI runtime; a watchdog publishes how the runtimes are and   *)
(* restarts the one it cannot reach.                                       *)
(*                                                                         *)
(* The contracts run on an engine that is not in the repository.  What is  *)
(* taken from it: an update of a span runs once every rule that matches    *)
(* the span as the update left it, also if a run of the rule for that span *)
(* is already waiting; rules run concurrently, one action of a rule at a   *)
(* time; a rule on two spans runs when an update of either makes both      *)
(* match; an update writes over whatever the span holds by then; an action *)
(* that fails and has no on_failure stops its contract.                    *)
(***************************************************************************)
EXTENDS Integers

CONSTANTS
  Affairs,      \* identities of dispatch_affair spans
  MaxFailures,  \* bound: how often a runtime fails
  MaxPending    \* bound: runs of the fallback that wait for one affair

ASSUME DispatcherAssumption == MaxFailures \in Nat /\ MaxPending \in Nat

VARIABLES
  affair,     \* the dispatch_affair spans
  jobs,       \* how many runs of its rules are before which action
  queue,      \* how often a runtime has been given it and not executed it
  sent,       \* how often runtime.dispatch has given it to a runtime
  results,    \* runtime.execution.result spans not yet intercepted
  runtime,    \* how the runtimes are
  failures,   \* of runtimes, so far
  published,  \* the runtime_status spans
  watch       \* the watchdog: its next action and what it has found

affairVars == <<affair, jobs>>
runtimeVars == <<runtime, failures>>
watchVars == <<published, watch>>
vars == <<affairVars, queue, sent, results, runtimeVars, watchVars>>

Runtimes == {"core", "ui"}
None == "none"
Bad == {"down", "unreachable"}
Statuses == {"none", "created", "classifying", "classification_pending_llm",
             "consulting_llm_guardian", "classified", "evaluating_policy", "policy_approved",
             "fallback_initiated", "dispatching_to_core", "dispatching_to_ui",
             "completed", "failed"}

(* What the rules tell apart of the original span: its type, as the table  *)
(* of classify_span_type has it, and whether its tenant is support-team.   *)
Kinds == {"restart", "core", "ui", "unknown"}
Tenants == {"support-team", "other"}

(* The actions that runs may be before, with the runtime they are about.   *)
Early == {"process", "classify", "suggest", "consult"}
Late == {"policy", "decide"}
Steps ==
  ((Early \cup Late) \X {None}) \cup ({"fallback", "reroute"} \X {"core"})
  \cup ({"dispatch", "send", "completed", "failed"} \X Runtimes)

(* Of the fallbacks of an affair the payload keeps one, with the original  *)
(* target; the model counts them.                                          *)
Init ==
  /\ affair = [a \in Affairs |-> [status |-> "none", kind |-> "unknown", tenant |-> "other",
                                  target |-> None, reroutes |-> 0]]
  /\ jobs = [a \in Affairs |-> [j \in Steps |-> 0]]
  /\ queue = [a \in Affairs |-> [r \in Runtimes |-> 0]]
  /\ sent = [a \in Affairs |-> [r \in Runtimes |-> 0]]
  /\ results = 0
  /\ runtime = [r \in Runtimes |-> "up"] /\ failures = 0
  /\ published = [r \in Runtimes |-> "up"]
  /\ watch = [at |-> "check", found |-> [r \in Runtimes |-> None]]

-----------------------------------------------------------------------------
(* The engine: rules matched by an update that leaves an affair as v.      *)
Readers == [created |-> "process", classification_pending_llm |-> "suggest",
            classified |-> "policy"]

Fallback(v, core) ==
  {j \in {<<"fallback", "core">>} :
     v.status = "policy_approved" /\ v.target = "core" /\ core \in Bad}

Matched(v) ==
  {<<Readers[s], None>> : s \in {v.status} \cap DOMAIN Readers}
  \cup {<<"dispatch", r>> : r \in {t \in Runtimes : v.status = "policy_approved" /\ v.target = t}}
  \cup Fallback(v, published["core"])

(* One more run before each of these actions; one less before that one.    *)
Started(runs, new) == [j \in Steps |-> runs[j] + IF j \in new THEN 1 ELSE 0]
Ended(runs, job) == [runs EXCEPT ![job] = @ - 1]

(* One action of a rule that updates its affair, and the rule's next one.  *)
Update(a, job, next, v) ==
  /\ jobs[a][job] > 0
  /\ affair' = [affair EXCEPT ![a] = v]
  /\ jobs' = [jobs EXCEPT ![a] = Started(Ended(@, job), next \cup Matched(v))]
  /\ UNCHANGED <<queue, sent, results, runtimeVars, watchVars>>

-----------------------------------------------------------------------------
(* rule.intercept_and_formalize_span.  What a runtime answers is not among *)
(* the exempted types: it becomes an affair as well.                       *)
Formalize(a, kind, tenant) ==
  LET v == [affair[a] EXCEPT !.status = "created", !.kind = kind, !.tenant = tenant] IN
  /\ affair[a].status = "none"
  /\ affair' = [affair EXCEPT ![a] = v]
  /\ jobs' = [jobs EXCEPT ![a] = Started(@, Matched(v))]
  /\ UNCHANGED <<queue, sent, runtimeVars, watchVars>>

Intercept(a, kind, tenant) == Formalize(a, kind, tenant) /\ UNCHANGED results

InterceptResult(a) ==
  results > 0 /\ results' = results - 1 /\ Formalize(a, "unknown", "other")

(* rule.process_created_dispatch_affairs, then dispatcher.classify_span.   *)
Process(a) ==
  Update(a, <<"process", None>>, {<<"classify", None>>},
         [affair[a] EXCEPT !.status = "classifying"])

Classify(a) ==
  Update(a, <<"classify", None>>, {},
    IF affair[a].kind = "unknown"
    THEN [affair[a] EXCEPT !.status = "classification_pending_llm", !.target = "unknown"]
    ELSE [affair[a] EXCEPT !.status = "classified",
                           !.target = IF affair[a].kind = "ui" THEN "ui" ELSE "core"])

(* rule.llm_suggest_for_unknown_span_type.                                 *)
Suggest(a) ==
  Update(a, <<"suggest", None>>, {<<"consult", None>>},
         [affair[a] EXCEPT !.status = "consulting_llm_guardian"])

(* The answer is taken as it comes. *)
ConsultUnchecked(a) ==
  LET job == <<"consult", None>> IN
  \/ \E r \in Runtimes \cup {"neither"} :
       Update(a, job, {}, [affair[a] EXCEPT !.status = "classified", !.target = r])
  \/ Update(a, job, {}, [affair[a] EXCEPT !.status = "failed"])

(* The model names a runtime; or it fails, or names something else.        *)
Consult(a) ==
  LET job == <<"consult", None>> IN
  \/ \E r \in Runtimes :
       Update(a, job, {}, [affair[a] EXCEPT !.status = "classified", !.target = r])
  \/ Update(a, job, {}, [affair[a] EXCEPT !.status = "failed"])

(* rule.apply_policies_to_classified_affairs.                              *)
Policy(a) ==
  Update(a, <<"policy", None>>, {<<"decide", None>>},
         [affair[a] EXCEPT !.status = "evaluating_policy"])

Denied(v) == v.kind = "restart" /\ v.tenant # "support-team"

(* The exit of the contract is forgotten: the denial is followed by the    *)
(* approval. *)
DecideNoExit(a) ==
  IF Denied(affair[a]) /\ affair[a].status # "failed"
  THEN Update(a, <<"decide", None>>, {<<"decide", None>>},
              [affair[a] EXCEPT !.status = "failed"])
  ELSE Update(a, <<"decide", None>>, {}, [affair[a] EXCEPT !.status = "policy_approved"])

Decide(a) ==
  Update(a, <<"decide", None>>, {},
         [affair[a] EXCEPT !.status = IF Denied(affair[a]) THEN "failed" ELSE "policy_approved"])

-----------------------------------------------------------------------------
(* rule.dispatch_approved_to_core_runtime and ..._to_ui_runtime.           *)
Dispatch(a, r) ==
  Update(a, <<"dispatch", r>>, {<<"send", r>>},
    [affair[a] EXCEPT !.status = IF r = "core" THEN "dispatching_to_core" ELSE "dispatching_to_ui"])

(* syscall.runtime.dispatch queues the span and returns.                   *)
Send(a, r) ==
  /\ jobs[a][<<"send", r>>] > 0
  /\ jobs' = [jobs EXCEPT ![a] = Ended(@, <<"send", r>>)]
  /\ queue' = [queue EXCEPT ![a][r] = @ + 1]
  /\ sent' = [sent EXCEPT ![a][r] = @ + 1]
  /\ UNCHANGED <<affair, results, runtimeVars, watchVars>>

(* rule.fallback_from_core_to_ui.                                          *)
FallBack(a) ==
  Update(a, <<"fallback", "core">>, {<<"reroute", "core">>},
         [affair[a] EXCEPT !.status = "fallback_initiated"])

(* The affair goes back without a new target. *)
RerouteSame(a) ==
  Update(a, <<"reroute", "core">>, {},
         [affair[a] EXCEPT !.status = "classified", !.reroutes = @ + 1])

Reroute(a) ==
  Update(a, <<"reroute", "core">>, {},
         [affair[a] EXCEPT !.status = "classified", !.target = "ui", !.reroutes = @ + 1])

-----------------------------------------------------------------------------
(* The runtimes, which are not part of the dispatcher.                     *)
Fail(r) ==
  /\ runtime[r] = "up" /\ failures < MaxFailures
  /\ failures' = failures + 1
  /\ \E s \in Bad : runtime' = [runtime EXCEPT ![r] = s]
  /\ UNCHANGED <<affairVars, queue, sent, results, watchVars>>

Recover(r) ==
  /\ runtime[r] \in Bad /\ runtime' = [runtime EXCEPT ![r] = "up"]
  /\ UNCHANGED <<affairVars, queue, sent, results, failures, watchVars>>

Execute(a, r) ==
  /\ runtime[r] = "up" /\ queue[a][r] > 0
  /\ queue' = [queue EXCEPT ![a][r] = @ - 1]
  /\ \E outcome \in {"completed", "failed"} :
       jobs' = [jobs EXCEPT ![a] = Started(@, {<<outcome, r>>})]
  /\ results' = results + 1
  /\ UNCHANGED <<affair, sent, runtimeVars, watchVars>>

(* rule.finalize_dispatch_affair.  Nothing reads the dispatch_result.      *)
Finalize(a, r) ==
  \E outcome \in {"completed", "failed"} :
    Update(a, <<outcome, r>>, {}, [affair[a] EXCEPT !.status = outcome])

-----------------------------------------------------------------------------
(* dispatcher.watchdog.start: two checks side by side, one update of both  *)
(* status spans, then the restarts, each decided by what the check found.  *)
HealthCheck(r) ==
  /\ watch.at = "check" /\ watch.found[r] = None
  /\ watch' = [watch EXCEPT !.found[r] = runtime[r]]
  /\ UNCHANGED <<affairVars, queue, sent, results, runtimeVars, published>>

(* The update of runtime_status:core is matched, once more, by every       *)
(* approval that is still to be dispatched to it.                          *)
Publish ==
  /\ watch.at = "check" /\ \A r \in Runtimes : watch.found[r] # None
  /\ \A a \in Affairs : jobs[a][<<"fallback", "core">>] < MaxPending
  /\ published' = watch.found
  /\ watch' = [watch EXCEPT !.at = "core"]
  /\ jobs' = [a \in Affairs |-> Started(jobs[a], Fallback(affair[a], published'["core"]))]
  /\ UNCHANGED <<affair, queue, sent, results, runtimeVars>>

(* The conditional that restarts r if its check has found it unreachable.  *)
(* The restart has no on_failure: if it fails there is no watchdog left.   *)
Restart(r, next) ==
  /\ watch.at = r
  /\ \/ watch.found[r] # "unreachable" /\ watch' = next /\ UNCHANGED runtime
     \/ watch.found[r] = "unreachable" /\ watch' = next /\ runtime' = [runtime EXCEPT ![r] = "up"]
     \/ watch.found[r] = "unreachable" /\ watch' = [watch EXCEPT !.at = "stopped"] /\ UNCHANGED runtime
  /\ UNCHANGED <<affairVars, queue, sent, results, failures, published>>

Again == [at |-> "check", found |-> [r \in Runtimes |-> None]]

RestartCore == Restart("core", [watch EXCEPT !.at = "ui"])

(* The second conditional looks at the status of the core again. *)
RestartUiIfCore ==
  /\ watch.at = "ui" /\ watch' = Again
  /\ runtime' = IF watch.found["core"] = "unreachable" THEN [runtime EXCEPT !["ui"] = "up"] ELSE runtime
  /\ UNCHANGED <<affairVars, queue, sent, results, failures, published>>

RestartUi == Restart("ui", Again)

-----------------------------------------------------------------------------
Rules(a) ==
  \/ Process(a) \/ Classify(a) \/ Suggest(a) \/ Consult(a) \/ Policy(a) \/ Decide(a)
  \/ FallBack(a) \/ Reroute(a)
  \/ \E r \in Runtimes : Dispatch(a, r) \/ Send(a, r) \/ Finalize(a, r)

Watchdog == (\E r \in Runtimes : HealthCheck(r)) \/ Publish \/ RestartCore \/ RestartUi

Next ==
  \/ \E a \in Affairs, kind \in Kinds, tenant \in Tenants : Intercept(a, kind, tenant)
  \/ \E a \in Affairs : InterceptResult(a) \/ Rules(a)
  \/ \E r \in Runtimes : Fail(r) \/ Recover(r)
  \/ \E a \in Affairs, r \in Runtimes : Execute(a, r)
  \/ Watchdog

(* The engine does not put off an affair for ever; a runtime that is up    *)
(* works its queue off; the watchdog repeats.  Nothing says a runtime      *)
(* recovers.                                                               *)
Fairness ==
  /\ \A a \in Affairs : WF_vars(Rules(a)) /\ \A r \in Runtimes : WF_vars(Execute(a, r))
  /\ WF_vars(Watchdog)

Spec == Init /\ [][Next]_vars
FairSpec == Spec /\ Fairness

-----------------------------------------------------------------------------
AffairRecords ==
  [status : Statuses, kind : Kinds, tenant : Tenants,
   target : Runtimes \cup {None, "unknown"}, reroutes : Nat]

TypeOK ==
  /\ affair \in [Affairs -> AffairRecords]
  /\ jobs \in [Affairs -> [Steps -> Nat]]
  /\ queue \in [Affairs -> [Runtimes -> Nat]]
  /\ sent \in [Affairs -> [Runtimes -> Nat]]
  /\ results \in Nat
  /\ runtime \in [Runtimes -> {"up"} \cup Bad] /\ failures \in 0..MaxFailures
  /\ published \in [Runtimes -> {"up"} \cup Bad]
  /\ watch \in [at : {"check", "core", "ui", "stopped"}, found : [Runtimes -> {"up", None} \cup Bad]]

(* Whatever the dispatch and the fallbacks that match one approval do to   *)
(* each other, an affair is given to runtimes once for its classification  *)
(* and once for each fallback that has rerouted it, never twice to the     *)
(* core; a span of the UI is given to the UI alone, and one of the core to *)
(* the UI only for a fallback.                                             *)
GivenAsDecided ==
  \A a \in Affairs :
    /\ sent[a]["core"] =< 1
    /\ sent[a]["core"] + sent[a]["ui"] =< 1 + affair[a].reroutes
    /\ affair[a].kind = "ui" => sent[a]["core"] = 0 /\ affair[a].reroutes = 0
    /\ affair[a].kind \in {"core", "restart"} => sent[a]["ui"] =< affair[a].reroutes

(* A restart asked for by another tenant than support-team reaches no      *)
(* runtime and is not opened again, whatever the watchdog publishes: the   *)
(* test of the policy looks at the status alone.                           *)
DeniedNeverSent ==
  \A a \in Affairs : Denied(affair[a]) =>
    /\ \A r \in Runtimes : sent[a][r] = 0
    /\ affair[a].status = "failed" => \A j \in Steps : jobs[a][j] = 0

(* A runtime that nobody starts again: it is down, which the watchdog lets *)
(* be, or unreachable, after a restart has failed and ended the watchdog.  *)
Forsaken(r) == runtime[r] = "down" \/ (runtime[r] = "unreachable" /\ watch.at = "stopped")

(* Every affair fails or is executed by the runtimes it is given to,       *)
(* unless it waits for one that is forsaken for ever.                      *)
EveryAffairServed ==
  \A a \in Affairs :
    affair[a].status = "created" ~>
      \/ affair[a].status = "failed"
      \/ /\ \E r \in Runtimes : sent[a][r] > 0
         /\ \A r \in Runtimes : queue[a][r] = 0
      \/ \E r \in Runtimes : queue[a][r] > 0 /\ []Forsaken(r)
=============================================================================
