-------------------------- MODULE DispatcherProofs --------------------------
(***************************************************************************)
(* Type correctness of Dispatcher, that every affair is given to runtimes  *)
(* as often as was decided, and that no denied one is given to any, for    *)
(* any number of affairs, of failures and of publications that wait.       *)
(***************************************************************************)
EXTENDS Dispatcher, TLAPS

(* The rules that an update matches, one by one.                           *)
LEMMA MatchedJobs ==
  ASSUME NEW v, NEW s, NEW r
  PROVE  <<s, r>> \in Matched(v) <=>
           \/ s = "process" /\ r = None /\ v.status = "created"
           \/ s = "suggest" /\ r = None /\ v.status = "classification_pending_llm"
           \/ s = "policy" /\ r = None /\ v.status = "classified"
           \/ s = "dispatch" /\ r \in Runtimes /\ v.status = "policy_approved" /\ v.target = r
           \/ /\ s = "fallback" /\ r = "core" /\ v.status = "policy_approved"
              /\ v.target = "core" /\ published["core"] \in Bad
<1>1. DOMAIN Readers = {"created", "classification_pending_llm", "classified"}
  BY DEF Readers
<1>2. /\ Readers["created"] = "process"
      /\ Readers["classification_pending_llm"] = "suggest"
      /\ Readers["classified"] = "policy"
  BY DEF Readers
<1> QED  BY <1>1, <1>2 DEF Matched, Fallback

LEMMA QuietMatch ==
  ASSUME NEW v,
         v.status \notin {"created", "classification_pending_llm", "classified", "policy_approved"}
  PROVE  \A s, r : <<s, r>> \notin Matched(v)
BY MatchedJobs

LEMMA OtherMatch ==
  ASSUME NEW v
  PROVE  /\ v.status = "created" =>
              \A s, r : <<s, r>> \in Matched(v) <=> s = "process" /\ r = None
         /\ v.status = "classification_pending_llm" =>
              \A s, r : <<s, r>> \in Matched(v) <=> s = "suggest" /\ r = None
         /\ v.status = "classified" =>
              \A s, r : <<s, r>> \in Matched(v) <=> s = "policy" /\ r = None
BY MatchedJobs

LEMMA CoreMatch ==
  ASSUME NEW v, v.status = "policy_approved", v.target = "core"
  PROVE  \A s, r : <<s, r>> \in Matched(v) <=>
           \/ s = "dispatch" /\ r = "core"
           \/ s = "fallback" /\ r = "core" /\ published["core"] \in Bad
<1> SUFFICES ASSUME NEW s, NEW r
             PROVE  <<s, r>> \in Matched(v) <=>
                      \/ s = "dispatch" /\ r = "core"
                      \/ s = "fallback" /\ r = "core" /\ published["core"] \in Bad
  OBVIOUS
<1> QED  BY MatchedJobs DEF Runtimes

LEMMA UiMatch ==
  ASSUME NEW v, v.status = "policy_approved", v.target = "ui"
  PROVE  \A s, r : <<s, r>> \in Matched(v) <=> s = "dispatch" /\ r = "ui"
<1> SUFFICES ASSUME NEW s, NEW r
             PROVE  <<s, r>> \in Matched(v) <=> s = "dispatch" /\ r = "ui"
  OBVIOUS
<1> QED  BY MatchedJobs DEF Runtimes

LEMMA StepsAre ==
  /\ \A s \in Early \cup Late : <<s, None>> \in Steps
  /\ \A s \in {"fallback", "reroute"} : <<s, "core">> \in Steps
  /\ \A s \in {"dispatch", "send", "completed", "failed"}, r \in Runtimes : <<s, r>> \in Steps
BY DEF Steps

(***************************************************************************)
(* Types.                                                                  *)
(***************************************************************************)
LEMMA RunsType ==
  ASSUME NEW runs \in [Steps -> Nat], NEW new, NEW job \in Steps, runs[job] > 0
  PROVE  /\ Started(runs, new) \in [Steps -> Nat]
         /\ Started(Ended(runs, job), new) \in [Steps -> Nat]
<1> DEFINE ended == Ended(runs, job)
<1>1. ended \in [Steps -> Nat]
  BY DEF Ended
<1> HIDE DEF ended
<1>2. Started(runs, new) \in [Steps -> Nat]
  BY DEF Started
<1>3. Started(ended, new) \in [Steps -> Nat]
  BY <1>1 DEF Started
<1> QED  BY <1>2, <1>3 DEF ended

LEMMA StartedType ==
  ASSUME NEW runs \in [Steps -> Nat], NEW new
  PROVE  Started(runs, new) \in [Steps -> Nat]
BY DEF Started

LEMMA UpdateType ==
  ASSUME TypeOK, NEW a \in Affairs, NEW job \in Steps, NEW next, NEW v \in AffairRecords,
         Update(a, job, next, v)
  PROVE  TypeOK'
<1>1. affair' \in [Affairs -> AffairRecords]
  BY DEF TypeOK, Update
<1>2. Started(Ended(jobs[a], job), next \cup Matched(v)) \in [Steps -> Nat]
  BY RunsType DEF TypeOK, Update
<1>3. jobs' \in [Affairs -> [Steps -> Nat]]
  BY <1>2 DEF TypeOK, Update
<1> QED  BY <1>1, <1>3 DEF TypeOK, Update, runtimeVars, watchVars

(* What the rules make of an affair is an affair.                          *)
LEMMA RecordType ==
  ASSUME NEW v \in AffairRecords, NEW status \in Statuses,
         NEW target \in Runtimes \cup {None, "unknown"}
  PROVE  /\ [v EXCEPT !.status = status] \in AffairRecords
         /\ [v EXCEPT !.status = status, !.target = target] \in AffairRecords
         /\ [v EXCEPT !.status = status, !.target = target, !.reroutes = @ + 1] \in AffairRecords
<1>1. v.reroutes + 1 \in Nat
  BY DEF AffairRecords
<1> DEFINE more == v.reroutes + 1
<1> HIDE DEF more
<1>2. more \in Nat => [v EXCEPT !.status = status, !.target = target, !.reroutes = more] \in AffairRecords
  BY DEF AffairRecords
<1>3. [v EXCEPT !.status = status, !.target = target, !.reroutes = @ + 1]
        = [v EXCEPT !.status = status, !.target = target, !.reroutes = more]
  BY DEF AffairRecords, more
<1> QED  BY <1>1, <1>2, <1>3 DEF AffairRecords, more

LEMMA InitType ==
  ASSUME Init
  PROVE  TypeOK
BY DispatcherAssumption
DEF Init, TypeOK, AffairRecords, Statuses, Kinds, Tenants, Runtimes, None, Bad

LEMMA FormalizeType ==
  ASSUME TypeOK, NEW a \in Affairs, NEW kind \in Kinds, NEW tenant \in Tenants,
         Formalize(a, kind, tenant), results' \in Nat
  PROVE  TypeOK'
<1> DEFINE v == [affair[a] EXCEPT !.status = "created", !.kind = kind, !.tenant = tenant]
<1>a. affair[a] \in AffairRecords
  BY DEF TypeOK
<1>1. v \in AffairRecords
  BY <1>a DEF AffairRecords, Statuses
<1>2. affair' \in [Affairs -> AffairRecords]
  BY <1>1 DEF Formalize, TypeOK
<1>3. Started(jobs[a], Matched(v)) \in [Steps -> Nat]
  BY StartedType DEF TypeOK
<1>4. jobs' \in [Affairs -> [Steps -> Nat]]
  BY <1>3 DEF Formalize, TypeOK
<1> QED  BY <1>2, <1>4 DEF Formalize, TypeOK, runtimeVars, watchVars

(* The rules of one affair.                                                *)
LEMMA RulesType ==
  ASSUME TypeOK, NEW a \in Affairs, Rules(a)
  PROVE  TypeOK'
<1>a. affair[a] \in AffairRecords
  BY DEF TypeOK
<1>s. /\ {"process", "classify", "suggest", "consult", "policy", "decide"} \subseteq Early \cup Late
      /\ {"classifying", "classification_pending_llm", "consulting_llm_guardian", "classified",
          "evaluating_policy", "policy_approved", "fallback_initiated", "dispatching_to_core",
          "dispatching_to_ui", "completed", "failed"} \subseteq Statuses
      /\ {"ui", "core"} \subseteq Runtimes
  BY DEF Early, Late, Statuses, Runtimes
<1>1. CASE Process(a)
  BY <1>1, <1>a, <1>s, StepsAre, UpdateType, RecordType DEF Process
<1>2. CASE Classify(a)
  <2> DEFINE target == IF affair[a].kind = "unknown" THEN "unknown"
                       ELSE IF affair[a].kind = "ui" THEN "ui" ELSE "core"
             status == IF affair[a].kind = "unknown" THEN "classification_pending_llm"
                       ELSE "classified"
             v == [affair[a] EXCEPT !.status = status, !.target = target]
  <2>1. status \in Statuses /\ target \in Runtimes \cup {None, "unknown"}
    BY <1>s
  <2>2. v \in AffairRecords
    BY <1>a, <2>1, RecordType
  <2>3. Update(a, <<"classify", None>>, {}, v)
    BY <1>2 DEF Classify
  <2> QED  BY <2>2, <2>3, <1>s, StepsAre, UpdateType
<1>3. CASE Suggest(a)
  BY <1>3, <1>a, <1>s, StepsAre, UpdateType, RecordType DEF Suggest
<1>4. CASE Consult(a)
  <2>1. \E v \in AffairRecords : Update(a, <<"consult", None>>, {}, v)
    <3>1. [affair[a] EXCEPT !.status = "failed"] \in AffairRecords
      BY <1>a, <1>s, RecordType
    <3>2. \A r \in Runtimes :
            [affair[a] EXCEPT !.status = "classified", !.target = r] \in AffairRecords
      BY <1>a, <1>s, RecordType
    <3> QED  BY <1>4, <3>1, <3>2 DEF Consult
  <2> QED  BY <2>1, <1>s, StepsAre, UpdateType
<1>5. CASE Policy(a)
  BY <1>5, <1>a, <1>s, StepsAre, UpdateType, RecordType DEF Policy
<1>6. CASE Decide(a)
  <2> DEFINE status == IF Denied(affair[a]) THEN "failed" ELSE "policy_approved"
  <2>1. [affair[a] EXCEPT !.status = status] \in AffairRecords
    BY <1>a, <1>s, RecordType
  <2>2. Update(a, <<"decide", None>>, {}, [affair[a] EXCEPT !.status = status])
    BY <1>6 DEF Decide
  <2> HIDE DEF status
  <2> QED  BY <2>1, <2>2, <1>s, StepsAre, UpdateType
<1>7. CASE FallBack(a)
  BY <1>7, <1>a, <1>s, StepsAre, UpdateType, RecordType DEF FallBack
<1>8. CASE Reroute(a)
  <2>1. [affair[a] EXCEPT !.status = "classified", !.target = "ui", !.reroutes = @ + 1]
          \in AffairRecords
    BY <1>a, <1>s, RecordType
  <2> QED  BY <1>8, <2>1, StepsAre, UpdateType DEF Reroute
<1>9. ASSUME NEW r \in Runtimes, Dispatch(a, r) PROVE TypeOK'
  BY <1>9, <1>a, <1>s, StepsAre, UpdateType, RecordType DEF Dispatch
<1>10. ASSUME NEW r \in Runtimes, Send(a, r) PROVE TypeOK'
  <2>1. /\ sent' \in [Affairs -> [Runtimes -> Nat]]
        /\ queue' \in [Affairs -> [Runtimes -> Nat]]
    BY <1>10 DEF Send, TypeOK
  <2>2. Ended(jobs[a], <<"send", r>>) \in [Steps -> Nat]
    BY <1>10, StepsAre DEF Send, TypeOK, Ended
  <2>3. jobs' \in [Affairs -> [Steps -> Nat]]
    BY <1>10, <2>2 DEF Send, TypeOK
  <2> QED  BY <1>10, <2>1, <2>3 DEF Send, TypeOK, runtimeVars, watchVars
<1>11. ASSUME NEW r \in Runtimes, Finalize(a, r) PROVE TypeOK'
  <2>1. PICK outcome \in {"completed", "failed"} :
          Update(a, <<outcome, r>>, {}, [affair[a] EXCEPT !.status = outcome])
    BY <1>11 DEF Finalize
  <2>2. [affair[a] EXCEPT !.status = outcome] \in AffairRecords
    BY <1>a, <1>s, RecordType
  <2>3. <<outcome, r>> \in Steps
    BY StepsAre
  <2> QED  BY <2>1, <2>2, <2>3, UpdateType
<1> QED  BY <1>1, <1>2, <1>3, <1>4, <1>5, <1>6, <1>7, <1>8, <1>9, <1>10, <1>11 DEF Rules

Watches == [at : {"check", "core", "ui", "stopped"}, found : [Runtimes -> {"up", None} \cup Bad]]

LEMMA PublishType ==
  ASSUME TypeOK, Publish
  PROVE  TypeOK'
<1>1. published' \in [Runtimes -> {"up"} \cup Bad]
  BY DEF Publish, TypeOK
<1>2. jobs' \in [Affairs -> [Steps -> Nat]]
  <2>1. \A a \in Affairs : jobs[a] \in [Steps -> Nat]
    BY DEF TypeOK
  <2>2. \A a \in Affairs :
          Started(jobs[a], Fallback(affair[a], published'["core"])) \in [Steps -> Nat]
    BY <2>1, StartedType
  <2> QED  BY <2>2 DEF Publish
<1>3. watch' \in Watches
  BY DEF Publish, TypeOK, Watches
<1> QED  BY <1>1, <1>2, <1>3 DEF Publish, TypeOK, runtimeVars, Watches

LEMMA RestartType ==
  ASSUME TypeOK, NEW r \in Runtimes, NEW next \in Watches, Restart(r, next)
  PROVE  TypeOK'
<1>1. watch' \in Watches
  BY DEF Restart, TypeOK, Watches
<1>2. runtime' \in [Runtimes -> {"up"} \cup Bad]
  BY DEF Restart, TypeOK
<1> QED  BY <1>1, <1>2 DEF Restart, TypeOK, affairVars, Watches

(* The runtimes and the watchdog.                                          *)
LEMMA RuntimesType ==
  ASSUME TypeOK, (\E r \in Runtimes : Fail(r) \/ Recover(r)) \/ Watchdog
  PROVE  TypeOK'
<1> USE DEF affairVars, runtimeVars, watchVars
<1>1. ASSUME NEW r \in Runtimes, Fail(r) PROVE TypeOK'
  BY <1>1, DispatcherAssumption DEF Fail, TypeOK, Bad
<1>2. ASSUME NEW r \in Runtimes, Recover(r) PROVE TypeOK'
  BY <1>2 DEF Recover, TypeOK
<1>3. ASSUME NEW r \in Runtimes, HealthCheck(r) PROVE TypeOK'
  <2>1. watch' \in Watches
    BY <1>3 DEF HealthCheck, TypeOK, Watches
  <2> QED  BY <1>3, <2>1 DEF HealthCheck, TypeOK, Watches
<1>4. CASE Publish
  BY <1>4, PublishType
<1>5. CASE RestartCore
  <2>1. [watch EXCEPT !.at = "ui"] \in Watches
    BY DEF TypeOK, Watches
  <2> QED  BY <1>5, <2>1, RestartType DEF RestartCore, Runtimes
<1>6. CASE RestartUi
  <2>1. Again \in Watches
    BY DEF Again, Watches
  <2> QED  BY <1>6, <2>1, RestartType DEF RestartUi, Runtimes
<1> QED  BY <1>1, <1>2, <1>3, <1>4, <1>5, <1>6 DEF Watchdog

LEMMA ExecuteType ==
  ASSUME TypeOK, NEW a \in Affairs, NEW r \in Runtimes, Execute(a, r)
  PROVE  TypeOK'
<1>1. PICK outcome \in {"completed", "failed"} :
        jobs' = [jobs EXCEPT ![a] = Started(@, {<<outcome, r>>})]
  BY DEF Execute
<1>2. Started(jobs[a], {<<outcome, r>>}) \in [Steps -> Nat]
  BY StartedType DEF TypeOK
<1>3. jobs' \in [Affairs -> [Steps -> Nat]]
  BY <1>1, <1>2 DEF TypeOK
<1>4. queue' \in [Affairs -> [Runtimes -> Nat]]
  BY DEF Execute, TypeOK
<1>5. results' \in Nat
  BY DEF Execute, TypeOK
<1> QED  BY <1>3, <1>4, <1>5 DEF Execute, TypeOK, runtimeVars, watchVars

LEMMA NextType ==
  ASSUME TypeOK, [Next]_vars
  PROVE  TypeOK'
<1>1. ASSUME NEW a \in Affairs, NEW kind \in Kinds, NEW tenant \in Tenants,
             Intercept(a, kind, tenant)
      PROVE  TypeOK'
  BY <1>1, FormalizeType DEF Intercept, TypeOK
<1>2. ASSUME NEW a \in Affairs, InterceptResult(a) PROVE TypeOK'
  <2>1. results' \in Nat
    BY <1>2 DEF InterceptResult, TypeOK
  <2> QED  BY <1>2, <2>1, FormalizeType DEF InterceptResult, Kinds, Tenants
<1>3. CASE UNCHANGED vars
  BY <1>3 DEF vars, affairVars, runtimeVars, watchVars, TypeOK
<1> QED  BY <1>1, <1>2, <1>3, RulesType, RuntimesType, ExecuteType DEF Next

(***************************************************************************)
(* Every variable of the dispatcher keeps its type.                        *)
(***************************************************************************)
THEOREM TypeCorrect == Spec => []TypeOK
<1>1. Init => TypeOK
  BY InitType
<1>2. TypeOK /\ [Next]_vars => TypeOK'
  BY NextType
<1> QED  BY <1>1, <1>2, PTL DEF Spec

(***************************************************************************)
(* The inductive invariant counts, for each affair, the runs under way     *)
(* before it has a target and after, those that give it to a runtime or    *)
(* have given it, those that fall back, and what a runtime has made of it. *)
(***************************************************************************)
Runs(a, s, r) == jobs[a][<<s, r>>]
Asking(a) == Runs(a, "suggest", None) + Runs(a, "consult", None)
Undirected(a) == Runs(a, "process", None) + Runs(a, "classify", None) + Asking(a)
Directed(a) == Runs(a, "policy", None) + Runs(a, "decide", None)
Given(a, r) == Runs(a, "dispatch", r) + Runs(a, "send", r) + sent[a][r]
Falling(a) == Runs(a, "fallback", "core") + Runs(a, "reroute", "core")
Answered(a, r) == queue[a][r] + Runs(a, "completed", r) + Runs(a, "failed", r)

Bit(p) == IF p THEN 1 ELSE 0

Fresh(a) ==
  affair[a].status = "none" =>
    /\ affair[a].target = None /\ affair[a].reroutes = 0
    /\ Undirected(a) = 0 /\ Directed(a) = 0 /\ Falling(a) = 0
    /\ Given(a, "core") = 0 /\ Given(a, "ui") = 0

(* Every run that leads to a runtime, and every time it was given to one,  *)
(* is owed to the classification or to a fallback; the core is chosen by   *)
(* the classification alone.                                               *)
Owed(a) ==
  /\ Undirected(a) + Directed(a) + Given(a, "core") + Given(a, "ui")
       =< affair[a].reroutes + Bit(affair[a].status # "none")
  /\ Given(a, "core") =< 1
  /\ affair[a].reroutes = 0 => Given(a, "core") + Undirected(a) + Directed(a) =< 1

(* Nothing falls back before the approval, nor without the core as target. *)
Ordered(a) ==
  /\ Undirected(a) > 0 => /\ affair[a].target \notin Runtimes /\ affair[a].reroutes = 0
                          /\ Falling(a) = 0 /\ affair[a].status # "policy_approved"
  /\ Directed(a) > 0 =>
       /\ affair[a].target \in Runtimes
       /\ affair[a].reroutes = 0 => Falling(a) = 0 /\ affair[a].status # "policy_approved"
  /\ Falling(a) > 0 => affair[a].reroutes > 0 \/ affair[a].target = "core"
  /\ affair[a].reroutes > 0 => affair[a].target = "ui"

(* The target suits the type of the span, but for a fallback.              *)
Suited(a) ==
  /\ affair[a].kind = "ui" =>
       /\ affair[a].target \in {None, "ui"} /\ affair[a].reroutes = 0
       /\ Given(a, "core") = 0 /\ Falling(a) = 0
  /\ affair[a].kind # "unknown" => Asking(a) = 0
  /\ affair[a].kind \in {"core", "restart"} =>
       /\ affair[a].target = "ui" => affair[a].reroutes > 0
       /\ Given(a, "ui") =< affair[a].reroutes
       /\ affair[a].target = "ui" => Given(a, "ui") + Directed(a) =< affair[a].reroutes

(* What a runtime has, or has executed, was given to it.                   *)
Delivered(a) ==
  Answered(a, "core") =< sent[a]["core"] /\ Answered(a, "ui") =< sent[a]["ui"]

Refused(a) ==
  Denied(affair[a]) =>
    /\ affair[a].status # "policy_approved" /\ affair[a].reroutes = 0 /\ Falling(a) = 0
    /\ Given(a, "core") = 0 /\ Given(a, "ui") = 0
    /\ affair[a].status = "failed" => Undirected(a) = 0 /\ Directed(a) = 0

AffairInv(a) ==
  Fresh(a) /\ Owed(a) /\ Ordered(a) /\ Suited(a) /\ Delivered(a) /\ Refused(a)

Inv == \A a \in Affairs : AffairInv(a)

LEMMA Counts ==
  ASSUME TypeOK, NEW a \in Affairs
  PROVE  /\ \A s \in Early \cup Late : Runs(a, s, None) \in Nat
         /\ \A s \in {"fallback", "reroute"} : Runs(a, s, "core") \in Nat
         /\ \A s \in {"dispatch", "send", "completed", "failed"}, r \in Runtimes :
              Runs(a, s, r) \in Nat
         /\ \A r \in Runtimes : sent[a][r] \in Nat /\ queue[a][r] \in Nat
BY StepsAre DEF TypeOK, Runs

(* The counts are numbers; until it falls back an affair has one run, or   *)
(* one runtime that has it.                                                *)
Counted(a) ==
  /\ Asking(a) \in Nat /\ Undirected(a) \in Nat /\ Asking(a) =< Undirected(a)
  /\ Directed(a) \in Nat /\ Falling(a) \in Nat
  /\ Given(a, "core") \in Nat /\ Given(a, "ui") \in Nat
  /\ sent[a]["core"] \in Nat /\ sent[a]["core"] =< Given(a, "core")
  /\ sent[a]["ui"] \in Nat /\ sent[a]["ui"] =< Given(a, "ui")
  /\ Answered(a, "core") \in Nat /\ Answered(a, "ui") \in Nat

Single(a) ==
  /\ Undirected(a) > 0 =>
       /\ Undirected(a) = 1 /\ Directed(a) = 0 /\ Falling(a) = 0
       /\ Given(a, "core") = 0 /\ Given(a, "ui") = 0
       /\ affair[a].reroutes = 0 /\ affair[a].status # "policy_approved"
  /\ Directed(a) > 0 /\ affair[a].reroutes = 0 =>
       /\ Directed(a) = 1 /\ Undirected(a) = 0 /\ Falling(a) = 0
       /\ Given(a, "core") = 0 /\ Given(a, "ui") = 0
       /\ affair[a].status # "policy_approved"
  /\ Directed(a) > 0 => Undirected(a) = 0
  /\ Falling(a) > 0 => Undirected(a) = 0 /\ (affair[a].reroutes = 0 => Directed(a) = 0)

LEMMA Numbers ==
  ASSUME TypeOK, NEW a \in Affairs
  PROVE  Counted(a)
BY Counts
DEF Counted, Asking, Undirected, Directed, Falling, Given, Answered, Early, Late, Runtimes

LEMMA Alone ==
  ASSUME TypeOK, NEW a \in Affairs, AffairInv(a)
  PROVE  Single(a)
<1>1. affair[a].reroutes \in Nat
  BY DEF TypeOK, AffairRecords
<1>2. Counted(a)
  BY Numbers
<1>3. CASE affair[a].reroutes = 0
  <2>1. Undirected(a) + Directed(a) + Given(a, "core") + Given(a, "ui") =< 1
    BY <1>2, <1>3 DEF AffairInv, Owed, Bit, Counted
  <2> QED  BY <1>2, <1>3, <2>1 DEF AffairInv, Ordered, Single, Counted
<1>4. CASE affair[a].reroutes > 0
  <2>1. Undirected(a) = 0
    BY <1>2, <1>4 DEF AffairInv, Ordered, Counted
  <2> QED  BY <1>2, <1>4, <2>1 DEF Single, Counted
<1> QED  BY <1>1, <1>3, <1>4

(* What an affair's invariant depends on.                                  *)
LEMMA Frame ==
  ASSUME NEW a \in Affairs, AffairInv(a),
         affair'[a] = affair[a], sent'[a] = sent[a], jobs'[a] = jobs[a], queue'[a] = queue[a]
  PROVE  AffairInv(a)'
<1>1. /\ Asking(a)' = Asking(a) /\ Undirected(a)' = Undirected(a) /\ Directed(a)' = Directed(a)
      /\ Falling(a)' = Falling(a)
      /\ \A r : Given(a, r)' = Given(a, r) /\ Answered(a, r)' = Answered(a, r)
  BY DEF Asking, Undirected, Directed, Falling, Given, Answered, Runs
<1>2. Fresh(a)' /\ Owed(a)'
  BY <1>1 DEF AffairInv, Fresh, Owed, Bit
<1>3. Ordered(a)' /\ Suited(a)'
  BY <1>1 DEF AffairInv, Ordered, Suited
<1>4. Delivered(a)' /\ Refused(a)'
  BY <1>1 DEF AffairInv, Delivered, Refused, Denied
<1> QED  BY <1>2, <1>3, <1>4 DEF AffairInv

(* The runs of an affair after an update.                                  *)
LEMMA UpdateRuns ==
  ASSUME TypeOK, NEW a \in Affairs, NEW job \in Steps, NEW next, NEW v,
         Update(a, job, next, v)
  PROVE  /\ jobs[a][job] > 0
         /\ affair'[a] = v /\ sent' = sent /\ queue' = queue
         /\ \A j \in Steps :
              jobs'[a][j] = jobs[a][j] - (IF j = job THEN 1 ELSE 0) + (IF j \in next \cup Matched(v) THEN 1 ELSE 0)
<1>1. jobs'[a] = Started(Ended(jobs[a], job), next \cup Matched(v))
  BY DEF Update, TypeOK
<1>2. \A j \in Steps : Ended(jobs[a], job)[j] = jobs[a][j] - (IF j = job THEN 1 ELSE 0)
  BY DEF Ended, TypeOK
<1>3. \A j \in Steps :
        Started(Ended(jobs[a], job), next \cup Matched(v))[j]
          = Ended(jobs[a], job)[j] + (IF j \in next \cup Matched(v) THEN 1 ELSE 0)
  BY DEF Started
<1> QED  BY <1>1, <1>2, <1>3 DEF Update, TypeOK

(***************************************************************************)
(* The rules up to the approval.                                           *)
(***************************************************************************)
LEMMA ProcessInv ==
  ASSUME TypeOK, Inv, NEW a \in Affairs, Process(a)
  PROVE  AffairInv(a)'
<1> DEFINE v == [affair[a] EXCEPT !.status = "classifying"]
<1>i. AffairInv(a) /\ affair[a] \in AffairRecords
  BY DEF Inv, TypeOK
<1>v. /\ v.status = "classifying"
      /\ v.kind = affair[a].kind /\ v.tenant = affair[a].tenant
      /\ v.target = affair[a].target /\ v.reroutes = affair[a].reroutes
      /\ affair[a].reroutes \in Nat
  BY <1>i DEF AffairRecords
<1>1. Update(a, <<"process", None>>, {<<"classify", None>>}, v)
  BY DEF Process
<1> HIDE DEF v
<1>s. <<"process", None>> \in Steps
  BY StepsAre DEF Early, Late, Runtimes
<1>2. affair'[a] = v /\ sent' = sent /\ queue' = queue
  BY <1>1, <1>s, UpdateRuns
<1>j. /\ jobs[a][<<"process", None>>] > 0
      /\ \A j \in Steps :
           jobs'[a][j] = jobs[a][j] - (IF j = <<"process", None>> THEN 1 ELSE 0)
                           + (IF j \in {<<"classify", None>>} \cup Matched(v) THEN 1 ELSE 0)
  BY <1>1, <1>s, UpdateRuns
<1>m. \A s, r : <<s, r>> \notin Matched(v)
  BY <1>v, QuietMatch
<1>3. /\ Undirected(a) > 0
      /\ Asking(a)' = Asking(a) /\ Undirected(a)' = Undirected(a)
      /\ Directed(a)' = Directed(a) /\ Falling(a)' = Falling(a)
      /\ Given(a, "core")' = Given(a, "core") /\ Given(a, "ui")' = Given(a, "ui")
      /\ Answered(a, "core")' = Answered(a, "core") /\ Answered(a, "ui")' = Answered(a, "ui")
  BY SMTT(20), <1>2, <1>j, <1>m, StepsAre, Counts
  DEF Runs, Asking, Undirected, Directed, Falling, Given, Answered, Early, Late, Runtimes, None
<1>b. affair[a].status # "none" /\ Counted(a) /\ Single(a)
  BY <1>i, <1>3, Numbers, Alone DEF AffairInv, Fresh, Delivered, Counted, Runtimes
<1>4. Fresh(a)' /\ Owed(a)'
  BY <1>i, <1>v, <1>2, <1>3, <1>b
  DEF Counted, Single, AffairInv, Fresh, Owed, Ordered, Suited, Bit, Runtimes
<1>5. Ordered(a)'
  BY <1>i, <1>v, <1>2, <1>3, <1>b
  DEF Counted, Single, AffairInv, Owed, Ordered, Suited, Bit, Runtimes
<1>6. Suited(a)'
  BY <1>i, <1>v, <1>2, <1>3, <1>b
  DEF Counted, Single, AffairInv, Owed, Ordered, Suited, Bit, Runtimes, None
<1>7. Delivered(a)'
  BY <1>i, <1>2, <1>3, <1>b DEF Counted, AffairInv, Delivered
<1>8. Refused(a)'
  BY <1>i, <1>v, <1>2, <1>3, <1>b
  DEF Counted, Single, AffairInv, Owed, Ordered, Suited, Delivered, Refused, Denied, Bit, Runtimes
<1> QED  BY <1>4, <1>5, <1>6, <1>7, <1>8 DEF AffairInv

LEMMA ClassifyUnknownInv ==
  ASSUME TypeOK, Inv, NEW a \in Affairs, Classify(a), affair[a].kind = "unknown"
  PROVE  AffairInv(a)'
<1> DEFINE v == [affair[a] EXCEPT !.status = "classification_pending_llm", !.target = "unknown"]
<1>i. AffairInv(a) /\ affair[a] \in AffairRecords
  BY DEF Inv, TypeOK
<1>v. /\ v.status = "classification_pending_llm"
      /\ v.kind = affair[a].kind /\ v.tenant = affair[a].tenant
      /\ v.reroutes = affair[a].reroutes /\ v.target = "unknown"
      /\ affair[a].reroutes \in Nat
  BY <1>i DEF AffairRecords
<1>1. Update(a, <<"classify", None>>, {}, v)
  BY DEF Classify
<1> HIDE DEF v
<1>s. <<"classify", None>> \in Steps
  BY StepsAre DEF Early, Late, Runtimes
<1>2. affair'[a] = v /\ sent' = sent /\ queue' = queue
  BY <1>1, <1>s, UpdateRuns
<1>j. /\ jobs[a][<<"classify", None>>] > 0
      /\ \A j \in Steps :
           jobs'[a][j] = jobs[a][j] - (IF j = <<"classify", None>> THEN 1 ELSE 0)
                           + (IF j \in {} \cup Matched(v) THEN 1 ELSE 0)
  BY <1>1, <1>s, UpdateRuns
<1>m. \A s, r : <<s, r>> \in Matched(v) <=> s = "suggest" /\ r = None
  BY <1>v, OtherMatch
<1>3. /\ Undirected(a) > Asking(a)
      /\ Asking(a)' = Asking(a) + 1 /\ Undirected(a)' = Undirected(a)
      /\ Directed(a)' = Directed(a) /\ Falling(a)' = Falling(a)
      /\ Given(a, "core")' = Given(a, "core") /\ Given(a, "ui")' = Given(a, "ui")
      /\ Answered(a, "core")' = Answered(a, "core") /\ Answered(a, "ui")' = Answered(a, "ui")
  BY SMTT(20), <1>2, <1>j, <1>m, StepsAre, Counts
  DEF Runs, Asking, Undirected, Directed, Falling, Given, Answered, Early, Late, Runtimes, None
<1>b. affair[a].status # "none" /\ Counted(a) /\ Single(a)
  BY <1>i, <1>3, Numbers, Alone DEF AffairInv, Fresh, Delivered, Counted, Runtimes
<1>4. Fresh(a)' /\ Owed(a)'
  BY <1>i, <1>v, <1>2, <1>3, <1>b
  DEF Counted, Single, AffairInv, Fresh, Owed, Ordered, Suited, Bit, Runtimes
<1>5. Ordered(a)'
  BY <1>i, <1>v, <1>2, <1>3, <1>b
  DEF Counted, Single, AffairInv, Owed, Ordered, Suited, Bit, Runtimes
<1>6. Suited(a)'
  BY <1>i, <1>v, <1>2, <1>3, <1>b
  DEF Counted, Single, AffairInv, Owed, Ordered, Suited, Bit, Runtimes, None
<1>7. Delivered(a)'
  BY <1>i, <1>2, <1>3, <1>b DEF Counted, AffairInv, Delivered
<1>8. Refused(a)'
  BY <1>i, <1>v, <1>2, <1>3, <1>b
  DEF Counted, Single, AffairInv, Owed, Ordered, Suited, Delivered, Refused, Denied, Bit, Runtimes
<1> QED  BY <1>4, <1>5, <1>6, <1>7, <1>8 DEF AffairInv

LEMMA ClassifyKnownInv ==
  ASSUME TypeOK, Inv, NEW a \in Affairs, Classify(a), affair[a].kind # "unknown"
  PROVE  AffairInv(a)'
<1> DEFINE v == [affair[a] EXCEPT !.status = "classified",
                              !.target = IF affair[a].kind = "ui" THEN "ui" ELSE "core"]
<1>i. AffairInv(a) /\ affair[a] \in AffairRecords
  BY DEF Inv, TypeOK
<1>v. /\ v.status = "classified"
      /\ v.kind = affair[a].kind /\ v.tenant = affair[a].tenant
      /\ v.reroutes = affair[a].reroutes
      /\ v.target = IF affair[a].kind = "ui" THEN "ui" ELSE "core"
      /\ affair[a].reroutes \in Nat
  BY <1>i DEF AffairRecords
<1>1. Update(a, <<"classify", None>>, {}, v)
  BY DEF Classify
<1> HIDE DEF v
<1>s. <<"classify", None>> \in Steps
  BY StepsAre DEF Early, Late, Runtimes
<1>2. affair'[a] = v /\ sent' = sent /\ queue' = queue
  BY <1>1, <1>s, UpdateRuns
<1>j. /\ jobs[a][<<"classify", None>>] > 0
      /\ \A j \in Steps :
           jobs'[a][j] = jobs[a][j] - (IF j = <<"classify", None>> THEN 1 ELSE 0)
                           + (IF j \in {} \cup Matched(v) THEN 1 ELSE 0)
  BY <1>1, <1>s, UpdateRuns
<1>m. \A s, r : <<s, r>> \in Matched(v) <=> s = "policy" /\ r = None
  BY <1>v, OtherMatch
<1>3. /\ Undirected(a) > Asking(a)
      /\ Asking(a)' = Asking(a) /\ Undirected(a)' = Undirected(a) - 1
      /\ Directed(a)' = Directed(a) + 1 /\ Falling(a)' = Falling(a)
      /\ Given(a, "core")' = Given(a, "core") /\ Given(a, "ui")' = Given(a, "ui")
      /\ Answered(a, "core")' = Answered(a, "core") /\ Answered(a, "ui")' = Answered(a, "ui")
  BY SMTT(20), <1>2, <1>j, <1>m, StepsAre, Counts
  DEF Runs, Asking, Undirected, Directed, Falling, Given, Answered, Early, Late, Runtimes, None
<1>b. affair[a].status # "none" /\ Counted(a) /\ Single(a)
  BY <1>i, <1>3, Numbers, Alone DEF AffairInv, Fresh, Delivered, Counted, Runtimes
<1>4. Fresh(a)' /\ Owed(a)'
  BY <1>i, <1>v, <1>2, <1>3, <1>b
  DEF Counted, Single, AffairInv, Fresh, Owed, Ordered, Suited, Bit, Runtimes
<1>5. Ordered(a)'
  BY <1>i, <1>v, <1>2, <1>3, <1>b
  DEF Counted, Single, AffairInv, Owed, Ordered, Suited, Bit, Runtimes
<1>6. Suited(a)'
  BY <1>i, <1>v, <1>2, <1>3, <1>b
  DEF Counted, Single, AffairInv, Owed, Ordered, Suited, Bit, Runtimes, None
<1>7. Delivered(a)'
  BY <1>i, <1>2, <1>3, <1>b DEF Counted, AffairInv, Delivered
<1>8. Refused(a)'
  BY <1>i, <1>v, <1>2, <1>3, <1>b
  DEF Counted, Single, AffairInv, Owed, Ordered, Suited, Delivered, Refused, Denied, Bit, Runtimes
<1> QED  BY <1>4, <1>5, <1>6, <1>7, <1>8 DEF AffairInv

LEMMA SuggestInv ==
  ASSUME TypeOK, Inv, NEW a \in Affairs, Suggest(a)
  PROVE  AffairInv(a)'
<1> DEFINE v == [affair[a] EXCEPT !.status = "consulting_llm_guardian"]
<1>i. AffairInv(a) /\ affair[a] \in AffairRecords
  BY DEF Inv, TypeOK
<1>v. /\ v.status = "consulting_llm_guardian"
      /\ v.kind = affair[a].kind /\ v.tenant = affair[a].tenant
      /\ v.target = affair[a].target /\ v.reroutes = affair[a].reroutes
      /\ affair[a].reroutes \in Nat
  BY <1>i DEF AffairRecords
<1>1. Update(a, <<"suggest", None>>, {<<"consult", None>>}, v)
  BY DEF Suggest
<1> HIDE DEF v
<1>s. <<"suggest", None>> \in Steps
  BY StepsAre DEF Early, Late, Runtimes
<1>2. affair'[a] = v /\ sent' = sent /\ queue' = queue
  BY <1>1, <1>s, UpdateRuns
<1>j. /\ jobs[a][<<"suggest", None>>] > 0
      /\ \A j \in Steps :
           jobs'[a][j] = jobs[a][j] - (IF j = <<"suggest", None>> THEN 1 ELSE 0)
                           + (IF j \in {<<"consult", None>>} \cup Matched(v) THEN 1 ELSE 0)
  BY <1>1, <1>s, UpdateRuns
<1>m. \A s, r : <<s, r>> \notin Matched(v)
  BY <1>v, QuietMatch
<1>3. /\ Asking(a) > 0
      /\ Asking(a)' = Asking(a) /\ Undirected(a)' = Undirected(a)
      /\ Directed(a)' = Directed(a) /\ Falling(a)' = Falling(a)
      /\ Given(a, "core")' = Given(a, "core") /\ Given(a, "ui")' = Given(a, "ui")
      /\ Answered(a, "core")' = Answered(a, "core") /\ Answered(a, "ui")' = Answered(a, "ui")
  BY SMTT(20), <1>2, <1>j, <1>m, StepsAre, Counts
  DEF Runs, Asking, Undirected, Directed, Falling, Given, Answered, Early, Late, Runtimes, None
<1>b. affair[a].status # "none" /\ Counted(a) /\ Single(a)
  BY <1>i, <1>3, Numbers, Alone DEF AffairInv, Fresh, Delivered, Counted, Runtimes
<1>4. Fresh(a)' /\ Owed(a)'
  BY <1>i, <1>v, <1>2, <1>3, <1>b
  DEF Counted, Single, AffairInv, Fresh, Owed, Ordered, Suited, Bit, Runtimes
<1>5. Ordered(a)'
  BY <1>i, <1>v, <1>2, <1>3, <1>b
  DEF Counted, Single, AffairInv, Owed, Ordered, Suited, Bit, Runtimes
<1>6. Suited(a)'
  BY <1>i, <1>v, <1>2, <1>3, <1>b
  DEF Counted, Single, AffairInv, Owed, Ordered, Suited, Bit, Runtimes, None
<1>7. Delivered(a)'
  BY <1>i, <1>2, <1>3, <1>b DEF Counted, AffairInv, Delivered
<1>8. Refused(a)'
  BY <1>i, <1>v, <1>2, <1>3, <1>b
  DEF Counted, Single, AffairInv, Owed, Ordered, Suited, Delivered, Refused, Denied, Bit, Runtimes
<1> QED  BY <1>4, <1>5, <1>6, <1>7, <1>8 DEF AffairInv

(* The model names a runtime; or the affair fails.                         *)
LEMMA ConsultedInv ==
  ASSUME TypeOK, Inv, NEW a \in Affairs, NEW t \in Runtimes, 
         Update(a, <<"consult", None>>, {}, [affair[a] EXCEPT !.status = "classified", !.target = t])
  PROVE  AffairInv(a)'
<1> DEFINE v == [affair[a] EXCEPT !.status = "classified", !.target = t]
<1>i. AffairInv(a) /\ affair[a] \in AffairRecords
  BY DEF Inv, TypeOK
<1>v. /\ v.status = "classified"
      /\ v.kind = affair[a].kind /\ v.tenant = affair[a].tenant
      /\ v.reroutes = affair[a].reroutes /\ v.target = t
      /\ affair[a].reroutes \in Nat
  BY <1>i DEF AffairRecords
<1>1. Update(a, <<"consult", None>>, {}, v)
  BY DEF Consult
<1> HIDE DEF v
<1>s. <<"consult", None>> \in Steps
  BY StepsAre DEF Early, Late, Runtimes
<1>2. affair'[a] = v /\ sent' = sent /\ queue' = queue
  BY <1>1, <1>s, UpdateRuns
<1>j. /\ jobs[a][<<"consult", None>>] > 0
      /\ \A j \in Steps :
           jobs'[a][j] = jobs[a][j] - (IF j = <<"consult", None>> THEN 1 ELSE 0)
                           + (IF j \in {} \cup Matched(v) THEN 1 ELSE 0)
  BY <1>1, <1>s, UpdateRuns
<1>m. \A s, r : <<s, r>> \in Matched(v) <=> s = "policy" /\ r = None
  BY <1>v, OtherMatch
<1>3. /\ Asking(a) > 0 /\ Undirected(a) > 0
      /\ Asking(a)' = Asking(a) - 1 /\ Undirected(a)' = Undirected(a) - 1
      /\ Directed(a)' = Directed(a) + 1 /\ Falling(a)' = Falling(a)
      /\ Given(a, "core")' = Given(a, "core") /\ Given(a, "ui")' = Given(a, "ui")
      /\ Answered(a, "core")' = Answered(a, "core") /\ Answered(a, "ui")' = Answered(a, "ui")
  <2> USE <1>2, <1>j, <1>m, StepsAre, Counts
      DEF Runs, Asking, Undirected, Directed, Falling, Given, Answered, Early, Late, Runtimes, None
  <2>1. Asking(a) > 0 /\ Undirected(a) > 0
    OBVIOUS
  <2>2. Asking(a)' = Asking(a) - 1
    OBVIOUS
  <2>3. Undirected(a)' = Undirected(a) - 1
    OBVIOUS
  <2>4. Directed(a)' = Directed(a) + 1
    OBVIOUS
  <2>5. Falling(a)' = Falling(a)
    OBVIOUS
  <2>6. Given(a, "core")' = Given(a, "core") /\ Given(a, "ui")' = Given(a, "ui")
    OBVIOUS
  <2>7. Answered(a, "core")' = Answered(a, "core") /\ Answered(a, "ui")' = Answered(a, "ui")
    OBVIOUS
  <2> QED  BY <2>1, <2>2, <2>3, <2>4, <2>5, <2>6, <2>7
<1>b. affair[a].status # "none" /\ Counted(a) /\ Single(a)
  BY <1>i, <1>3, Numbers, Alone DEF AffairInv, Fresh, Delivered, Counted, Runtimes
<1>4. Fresh(a)' /\ Owed(a)'
  BY <1>i, <1>v, <1>2, <1>3, <1>b
  DEF Counted, Single, AffairInv, Fresh, Owed, Ordered, Suited, Bit, Runtimes
<1>5. Ordered(a)'
  BY <1>i, <1>v, <1>2, <1>3, <1>b
  DEF Counted, Single, AffairInv, Owed, Ordered, Suited, Bit, Runtimes
<1>6. Suited(a)'
  BY <1>i, <1>v, <1>2, <1>3, <1>b
  DEF Counted, Single, AffairInv, Owed, Ordered, Suited, Bit, Runtimes, None
<1>7. Delivered(a)'
  BY <1>i, <1>2, <1>3, <1>b DEF Counted, AffairInv, Delivered
<1>8. Refused(a)'
  BY <1>i, <1>v, <1>2, <1>3, <1>b
  DEF Counted, Single, AffairInv, Owed, Ordered, Suited, Delivered, Refused, Denied, Bit, Runtimes
<1> QED  BY <1>4, <1>5, <1>6, <1>7, <1>8 DEF AffairInv

LEMMA NotConsultedInv ==
  ASSUME TypeOK, Inv, NEW a \in Affairs, 
         Update(a, <<"consult", None>>, {}, [affair[a] EXCEPT !.status = "failed"])
  PROVE  AffairInv(a)'
<1> DEFINE v == [affair[a] EXCEPT !.status = "failed"]
<1>i. AffairInv(a) /\ affair[a] \in AffairRecords
  BY DEF Inv, TypeOK
<1>v. /\ v.status = "failed"
      /\ v.kind = affair[a].kind /\ v.tenant = affair[a].tenant
      /\ v.target = affair[a].target /\ v.reroutes = affair[a].reroutes
      /\ affair[a].reroutes \in Nat
  BY <1>i DEF AffairRecords
<1>1. Update(a, <<"consult", None>>, {}, v)
  BY DEF Consult
<1> HIDE DEF v
<1>s. <<"consult", None>> \in Steps
  BY StepsAre DEF Early, Late, Runtimes
<1>2. affair'[a] = v /\ sent' = sent /\ queue' = queue
  BY <1>1, <1>s, UpdateRuns
<1>j. /\ jobs[a][<<"consult", None>>] > 0
      /\ \A j \in Steps :
           jobs'[a][j] = jobs[a][j] - (IF j = <<"consult", None>> THEN 1 ELSE 0)
                           + (IF j \in {} \cup Matched(v) THEN 1 ELSE 0)
  BY <1>1, <1>s, UpdateRuns
<1>m. \A s, r : <<s, r>> \notin Matched(v)
  BY <1>v, QuietMatch
<1>3. /\ Asking(a) > 0 /\ Undirected(a) > 0
      /\ Asking(a)' = Asking(a) - 1 /\ Undirected(a)' = Undirected(a) - 1
      /\ Directed(a)' = Directed(a) /\ Falling(a)' = Falling(a)
      /\ Given(a, "core")' = Given(a, "core") /\ Given(a, "ui")' = Given(a, "ui")
      /\ Answered(a, "core")' = Answered(a, "core") /\ Answered(a, "ui")' = Answered(a, "ui")
  BY SMTT(20), <1>2, <1>j, <1>m, StepsAre, Counts
  DEF Runs, Asking, Undirected, Directed, Falling, Given, Answered, Early, Late, Runtimes, None
<1>b. affair[a].status # "none" /\ Counted(a) /\ Single(a)
  BY <1>i, <1>3, Numbers, Alone DEF AffairInv, Fresh, Delivered, Counted, Runtimes
<1>4. Fresh(a)' /\ Owed(a)'
  BY <1>i, <1>v, <1>2, <1>3, <1>b
  DEF Counted, Single, AffairInv, Fresh, Owed, Ordered, Suited, Bit, Runtimes
<1>5. Ordered(a)'
  BY <1>i, <1>v, <1>2, <1>3, <1>b
  DEF Counted, Single, AffairInv, Owed, Ordered, Suited, Bit, Runtimes
<1>6. Suited(a)'
  BY <1>i, <1>v, <1>2, <1>3, <1>b
  DEF Counted, Single, AffairInv, Owed, Ordered, Suited, Bit, Runtimes, None
<1>7. Delivered(a)'
  BY <1>i, <1>2, <1>3, <1>b DEF Counted, AffairInv, Delivered
<1>8. Refused(a)'
  BY <1>i, <1>v, <1>2, <1>3, <1>b
  DEF Counted, Single, AffairInv, Owed, Ordered, Suited, Delivered, Refused, Denied, Bit, Runtimes
<1> QED  BY <1>4, <1>5, <1>6, <1>7, <1>8 DEF AffairInv

LEMMA PolicyInv ==
  ASSUME TypeOK, Inv, NEW a \in Affairs, Policy(a)
  PROVE  AffairInv(a)'
<1> DEFINE v == [affair[a] EXCEPT !.status = "evaluating_policy"]
<1>i. AffairInv(a) /\ affair[a] \in AffairRecords
  BY DEF Inv, TypeOK
<1>v. /\ v.status = "evaluating_policy"
      /\ v.kind = affair[a].kind /\ v.tenant = affair[a].tenant
      /\ v.target = affair[a].target /\ v.reroutes = affair[a].reroutes
      /\ affair[a].reroutes \in Nat
  BY <1>i DEF AffairRecords
<1>1. Update(a, <<"policy", None>>, {<<"decide", None>>}, v)
  BY DEF Policy
<1> HIDE DEF v
<1>s. <<"policy", None>> \in Steps
  BY StepsAre DEF Early, Late, Runtimes
<1>2. affair'[a] = v /\ sent' = sent /\ queue' = queue
  BY <1>1, <1>s, UpdateRuns
<1>j. /\ jobs[a][<<"policy", None>>] > 0
      /\ \A j \in Steps :
           jobs'[a][j] = jobs[a][j] - (IF j = <<"policy", None>> THEN 1 ELSE 0)
                           + (IF j \in {<<"decide", None>>} \cup Matched(v) THEN 1 ELSE 0)
  BY <1>1, <1>s, UpdateRuns
<1>m. \A s, r : <<s, r>> \notin Matched(v)
  BY <1>v, QuietMatch
<1>3. /\ Directed(a) > 0
      /\ Asking(a)' = Asking(a) /\ Undirected(a)' = Undirected(a)
      /\ Directed(a)' = Directed(a) /\ Falling(a)' = Falling(a)
      /\ Given(a, "core")' = Given(a, "core") /\ Given(a, "ui")' = Given(a, "ui")
      /\ Answered(a, "core")' = Answered(a, "core") /\ Answered(a, "ui")' = Answered(a, "ui")
  BY SMTT(20), <1>2, <1>j, <1>m, StepsAre, Counts
  DEF Runs, Asking, Undirected, Directed, Falling, Given, Answered, Early, Late, Runtimes, None
<1>b. affair[a].status # "none" /\ Counted(a) /\ Single(a)
  BY <1>i, <1>3, Numbers, Alone DEF AffairInv, Fresh, Delivered, Counted, Runtimes
<1>4. Fresh(a)' /\ Owed(a)'
  BY <1>i, <1>v, <1>2, <1>3, <1>b
  DEF Counted, Single, AffairInv, Fresh, Owed, Ordered, Suited, Bit, Runtimes
<1>5. Ordered(a)'
  BY <1>i, <1>v, <1>2, <1>3, <1>b
  DEF Counted, Single, AffairInv, Owed, Ordered, Suited, Bit, Runtimes
<1>6. Suited(a)'
  BY <1>i, <1>v, <1>2, <1>3, <1>b
  DEF Counted, Single, AffairInv, Owed, Ordered, Suited, Bit, Runtimes, None
<1>7. Delivered(a)'
  BY <1>i, <1>2, <1>3, <1>b DEF Counted, AffairInv, Delivered
<1>8. Refused(a)'
  BY <1>i, <1>v, <1>2, <1>3, <1>b
  DEF Counted, Single, AffairInv, Owed, Ordered, Suited, Delivered, Refused, Denied, Bit, Runtimes
<1> QED  BY <1>4, <1>5, <1>6, <1>7, <1>8 DEF AffairInv

LEMMA DeniedInv ==
  ASSUME TypeOK, Inv, NEW a \in Affairs, Decide(a), Denied(affair[a])
  PROVE  AffairInv(a)'
<1> DEFINE v == [affair[a] EXCEPT !.status = "failed"]
<1>i. AffairInv(a) /\ affair[a] \in AffairRecords
  BY DEF Inv, TypeOK
<1>v. /\ v.status = "failed"
      /\ v.kind = affair[a].kind /\ v.tenant = affair[a].tenant
      /\ v.target = affair[a].target /\ v.reroutes = affair[a].reroutes
      /\ affair[a].reroutes \in Nat
  BY <1>i DEF AffairRecords
<1>1. Update(a, <<"decide", None>>, {}, v)
  BY DEF Decide
<1> HIDE DEF v
<1>s. <<"decide", None>> \in Steps
  BY StepsAre DEF Early, Late, Runtimes
<1>2. affair'[a] = v /\ sent' = sent /\ queue' = queue
  BY <1>1, <1>s, UpdateRuns
<1>j. /\ jobs[a][<<"decide", None>>] > 0
      /\ \A j \in Steps :
           jobs'[a][j] = jobs[a][j] - (IF j = <<"decide", None>> THEN 1 ELSE 0)
                           + (IF j \in {} \cup Matched(v) THEN 1 ELSE 0)
  BY <1>1, <1>s, UpdateRuns
<1>m. \A s, r : <<s, r>> \notin Matched(v)
  BY <1>v, QuietMatch
<1>3. /\ Directed(a) > 0
      /\ Asking(a)' = Asking(a) /\ Undirected(a)' = Undirected(a)
      /\ Directed(a)' = Directed(a) - 1 /\ Falling(a)' = Falling(a)
      /\ Given(a, "core")' = Given(a, "core") /\ Given(a, "ui")' = Given(a, "ui")
      /\ Answered(a, "core")' = Answered(a, "core") /\ Answered(a, "ui")' = Answered(a, "ui")
  BY SMTT(20), <1>2, <1>j, <1>m, StepsAre, Counts
  DEF Runs, Asking, Undirected, Directed, Falling, Given, Answered, Early, Late, Runtimes, None
<1>b. affair[a].status # "none" /\ Counted(a) /\ Single(a)
  BY <1>i, <1>3, Numbers, Alone DEF AffairInv, Fresh, Delivered, Counted, Runtimes
<1>4. Fresh(a)' /\ Owed(a)'
  BY <1>i, <1>v, <1>2, <1>3, <1>b
  DEF Counted, Single, AffairInv, Fresh, Owed, Ordered, Suited, Bit, Runtimes
<1>5. Ordered(a)'
  BY <1>i, <1>v, <1>2, <1>3, <1>b
  DEF Counted, Single, AffairInv, Owed, Ordered, Suited, Bit, Runtimes
<1>6. Suited(a)'
  <2>1. affair[a].target = "ui" => Given(a, "ui") + Directed(a)' =< Given(a, "ui") + Directed(a)
    BY <1>3, <1>b DEF Counted
  <2>2. Suited(a)
    BY <1>i DEF AffairInv
  <2> QED  BY <1>v, <1>2, <1>3, <1>b, <2>1, <2>2 DEF Suited, Counted
<1>7. Delivered(a)'
  BY <1>i, <1>2, <1>3, <1>b DEF Counted, AffairInv, Delivered
<1>8. Refused(a)'
  <2>1. affair[a].reroutes = 0 /\ Falling(a) = 0 /\ Given(a, "core") = 0 /\ Given(a, "ui") = 0
    BY <1>i DEF AffairInv, Refused
  <2>2. Undirected(a)' = 0 /\ Directed(a)' = 0
    BY <1>3, <1>b, <2>1 DEF Counted, Single
  <2> QED  BY <1>v, <1>2, <1>3, <2>1, <2>2 DEF Refused
<1> QED  BY <1>4, <1>5, <1>6, <1>7, <1>8 DEF AffairInv

(* The approval starts the dispatch, and the fallback if the core is down. *)
LEMMA CoreApprovedInv ==
  ASSUME TypeOK, Inv, NEW a \in Affairs, Decide(a), ~Denied(affair[a]), affair[a].target = "core"
  PROVE  AffairInv(a)'
<1> DEFINE v == [affair[a] EXCEPT !.status = "policy_approved"]
<1>i. AffairInv(a) /\ affair[a] \in AffairRecords
  BY DEF Inv, TypeOK
<1>v. /\ v.status = "policy_approved"
      /\ v.kind = affair[a].kind /\ v.tenant = affair[a].tenant
      /\ v.reroutes = affair[a].reroutes /\ v.target = "core"
      /\ affair[a].reroutes \in Nat
  BY <1>i DEF AffairRecords
<1>1. Update(a, <<"decide", None>>, {}, v)
  BY DEF Decide
<1> HIDE DEF v
<1>s. <<"decide", None>> \in Steps
  BY StepsAre DEF Early, Late, Runtimes
<1>2. affair'[a] = v /\ sent' = sent /\ queue' = queue
  BY <1>1, <1>s, UpdateRuns
<1>j. /\ jobs[a][<<"decide", None>>] > 0
      /\ \A j \in Steps :
           jobs'[a][j] = jobs[a][j] - (IF j = <<"decide", None>> THEN 1 ELSE 0)
                           + (IF j \in {} \cup Matched(v) THEN 1 ELSE 0)
  BY <1>1, <1>s, UpdateRuns
<1>m. \A s, r : <<s, r>> \in Matched(v) <=>
        \/ s = "dispatch" /\ r = "core"
        \/ s = "fallback" /\ r = "core" /\ published["core"] \in Bad
  BY <1>v, CoreMatch
<1>3. /\ Directed(a) > 0
      /\ Asking(a)' = Asking(a) /\ Undirected(a)' = Undirected(a)
      /\ Directed(a)' = Directed(a) - 1
      /\ Falling(a)' = Falling(a) + (IF published["core"] \in Bad THEN 1 ELSE 0)
      /\ Given(a, "core")' = Given(a, "core") + 1 /\ Given(a, "ui")' = Given(a, "ui")
      /\ Answered(a, "core")' = Answered(a, "core") /\ Answered(a, "ui")' = Answered(a, "ui")
  BY SMTT(20), <1>2, <1>j, <1>m, StepsAre, Counts
  DEF Runs, Asking, Undirected, Directed, Falling, Given, Answered, Early, Late, Runtimes, None
<1>b. affair[a].status # "none" /\ Counted(a) /\ Single(a)
  BY <1>i, <1>3, Numbers, Alone DEF AffairInv, Fresh, Delivered, Counted, Runtimes
<1>4. Fresh(a)' /\ Owed(a)'
  <2>1. affair[a].reroutes = 0
    BY <1>i, <1>v DEF AffairInv, Ordered
  <2>2. Given(a, "core")' = 1 /\ Undirected(a)' = 0 /\ Directed(a)' = 0 /\ Given(a, "ui")' = 0
    BY <1>3, <1>b, <2>1 DEF Counted, Single
  <2>3. Undirected(a)' + Directed(a)' + Given(a, "core")' + Given(a, "ui")' = 1
    BY <2>2
  <2>4. Given(a, "core")' + Undirected(a)' + Directed(a)' = 1
    BY <2>2
  <2> QED  BY <1>v, <1>2, <2>1, <2>2, <2>3, <2>4 DEF Fresh, Owed, Bit
<1>5. Ordered(a)'
  <2>1. affair[a].reroutes = 0
    BY <1>i, <1>v DEF AffairInv, Ordered
  <2>2. Undirected(a)' = 0 /\ Directed(a)' = 0
    BY <1>3, <1>b, <2>1 DEF Counted, Single
  <2> QED  BY <1>v, <1>2, <2>1, <2>2 DEF Ordered
<1>6. Suited(a)'
  BY <1>i, <1>v, <1>2, <1>3, <1>b
  DEF Counted, Single, AffairInv, Owed, Ordered, Suited, Bit, Runtimes, None
<1>7. Delivered(a)'
  BY <1>i, <1>2, <1>3, <1>b DEF Counted, AffairInv, Delivered
<1>8. Refused(a)'
  BY <1>i, <1>v, <1>2, <1>3, <1>b
  DEF Counted, Single, AffairInv, Owed, Ordered, Suited, Delivered, Refused, Denied, Bit, Runtimes
<1> QED  BY <1>4, <1>5, <1>6, <1>7, <1>8 DEF AffairInv

LEMMA UiApprovedInv ==
  ASSUME TypeOK, Inv, NEW a \in Affairs, Decide(a), ~Denied(affair[a]), affair[a].target = "ui"
  PROVE  AffairInv(a)'
<1> DEFINE v == [affair[a] EXCEPT !.status = "policy_approved"]
<1>i. AffairInv(a) /\ affair[a] \in AffairRecords
  BY DEF Inv, TypeOK
<1>v. /\ v.status = "policy_approved"
      /\ v.kind = affair[a].kind /\ v.tenant = affair[a].tenant
      /\ v.reroutes = affair[a].reroutes /\ v.target = "ui"
      /\ affair[a].reroutes \in Nat
  BY <1>i DEF AffairRecords
<1>1. Update(a, <<"decide", None>>, {}, v)
  BY DEF Decide
<1> HIDE DEF v
<1>s. <<"decide", None>> \in Steps
  BY StepsAre DEF Early, Late, Runtimes
<1>2. affair'[a] = v /\ sent' = sent /\ queue' = queue
  BY <1>1, <1>s, UpdateRuns
<1>j. /\ jobs[a][<<"decide", None>>] > 0
      /\ \A j \in Steps :
           jobs'[a][j] = jobs[a][j] - (IF j = <<"decide", None>> THEN 1 ELSE 0)
                           + (IF j \in {} \cup Matched(v) THEN 1 ELSE 0)
  BY <1>1, <1>s, UpdateRuns
<1>m. \A s, r : <<s, r>> \in Matched(v) <=> s = "dispatch" /\ r = "ui"
  BY <1>v, UiMatch
<1>3. /\ Directed(a) > 0
      /\ Asking(a)' = Asking(a) /\ Undirected(a)' = Undirected(a)
      /\ Directed(a)' = Directed(a) - 1 /\ Falling(a)' = Falling(a)
      /\ Given(a, "core")' = Given(a, "core") /\ Given(a, "ui")' = Given(a, "ui") + 1
      /\ Answered(a, "core")' = Answered(a, "core") /\ Answered(a, "ui")' = Answered(a, "ui")
  BY SMTT(20), <1>2, <1>j, <1>m, StepsAre, Counts
  DEF Runs, Asking, Undirected, Directed, Falling, Given, Answered, Early, Late, Runtimes, None
<1>b. affair[a].status # "none" /\ Counted(a) /\ Single(a)
  BY <1>i, <1>3, Numbers, Alone DEF AffairInv, Fresh, Delivered, Counted, Runtimes
<1>4. Fresh(a)' /\ Owed(a)'
  BY <1>i, <1>v, <1>2, <1>3, <1>b
  DEF Counted, Single, AffairInv, Fresh, Owed, Ordered, Suited, Bit, Runtimes
<1>5. Ordered(a)'
  <2>1. Undirected(a)' = 0
    BY <1>3, <1>b DEF Counted, Single
  <2>2. affair[a].reroutes = 0 => Directed(a)' = 0
    BY <1>3, <1>b DEF Counted, Single
  <2>3. Falling(a)' > 0 => affair[a].reroutes > 0
    BY <1>i, <1>3 DEF AffairInv, Ordered
  <2> QED  BY <1>v, <1>2, <2>1, <2>2, <2>3 DEF Ordered, Runtimes
<1>6. Suited(a)'
  <2>1. Suited(a)
    BY <1>i DEF AffairInv
  <2>2. Given(a, "ui")' + Directed(a)' = Given(a, "ui") + Directed(a)
    BY <1>3, <1>b DEF Counted
  <2>3. affair[a].kind \in {"core", "restart"} => Given(a, "ui")' =< affair[a].reroutes
    BY <1>3, <1>b, <1>v, <2>1 DEF Suited, Counted
  <2> QED  BY <1>v, <1>2, <1>3, <2>1, <2>2, <2>3 DEF Suited
<1>7. Delivered(a)'
  BY <1>i, <1>2, <1>3, <1>b DEF Counted, AffairInv, Delivered
<1>8. Refused(a)'
  BY <1>i, <1>v, <1>2, <1>3, <1>b
  DEF Counted, Single, AffairInv, Owed, Ordered, Suited, Delivered, Refused, Denied, Bit, Runtimes
<1> QED  BY <1>4, <1>5, <1>6, <1>7, <1>8 DEF AffairInv

(***************************************************************************)
(* The rules after it.                                                     *)
(***************************************************************************)
LEMMA DispatchInv ==
  ASSUME TypeOK, Inv, NEW a \in Affairs, NEW r0 \in Runtimes, Dispatch(a, r0)
  PROVE  AffairInv(a)'
<1> DEFINE v == [affair[a] EXCEPT !.status = IF r0 = "core" THEN "dispatching_to_core" ELSE "dispatching_to_ui"]
<1>i. AffairInv(a) /\ affair[a] \in AffairRecords
  BY DEF Inv, TypeOK
<1>v. /\ v.status = IF r0 = "core" THEN "dispatching_to_core" ELSE "dispatching_to_ui"
      /\ v.kind = affair[a].kind /\ v.tenant = affair[a].tenant
      /\ v.target = affair[a].target /\ v.reroutes = affair[a].reroutes
      /\ affair[a].reroutes \in Nat
  BY <1>i DEF AffairRecords
<1>1. Update(a, <<"dispatch", r0>>, {<<"send", r0>>}, v)
  BY DEF Dispatch
<1> HIDE DEF v
<1>s. <<"dispatch", r0>> \in Steps
  BY StepsAre DEF Early, Late, Runtimes
<1>2. affair'[a] = v /\ sent' = sent /\ queue' = queue
  BY <1>1, <1>s, UpdateRuns
<1>j. /\ jobs[a][<<"dispatch", r0>>] > 0
      /\ \A j \in Steps :
           jobs'[a][j] = jobs[a][j] - (IF j = <<"dispatch", r0>> THEN 1 ELSE 0)
                           + (IF j \in {<<"send", r0>>} \cup Matched(v) THEN 1 ELSE 0)
  BY <1>1, <1>s, UpdateRuns
<1>m. \A s, r : <<s, r>> \notin Matched(v)
  BY <1>v, QuietMatch
<1>3. /\ Given(a, r0) > 0
      /\ Asking(a)' = Asking(a) /\ Undirected(a)' = Undirected(a)
      /\ Directed(a)' = Directed(a) /\ Falling(a)' = Falling(a)
      /\ Given(a, "core")' = Given(a, "core") /\ Given(a, "ui")' = Given(a, "ui")
      /\ Answered(a, "core")' = Answered(a, "core") /\ Answered(a, "ui")' = Answered(a, "ui")
  BY SMTT(20), <1>2, <1>j, <1>m, StepsAre, Counts
  DEF Runs, Asking, Undirected, Directed, Falling, Given, Answered, Early, Late, Runtimes, None
<1>b. affair[a].status # "none" /\ Counted(a) /\ Single(a)
  BY <1>i, <1>3, Numbers, Alone DEF AffairInv, Fresh, Delivered, Counted, Runtimes
<1>4. Fresh(a)' /\ Owed(a)'
  BY <1>i, <1>v, <1>2, <1>3, <1>b
  DEF Counted, Single, AffairInv, Fresh, Owed, Ordered, Suited, Bit, Runtimes
<1>5. Ordered(a)'
  BY <1>i, <1>v, <1>2, <1>3, <1>b
  DEF Counted, Single, AffairInv, Owed, Ordered, Suited, Bit, Runtimes
<1>6. Suited(a)'
  BY <1>i, <1>v, <1>2, <1>3, <1>b
  DEF Counted, Single, AffairInv, Owed, Ordered, Suited, Bit, Runtimes, None
<1>7. Delivered(a)'
  BY <1>i, <1>2, <1>3, <1>b DEF Counted, AffairInv, Delivered
<1>8. Refused(a)'
  BY <1>i, <1>v, <1>2, <1>3, <1>b
  DEF Counted, Single, AffairInv, Owed, Ordered, Suited, Delivered, Refused, Denied, Bit, Runtimes
<1> QED  BY <1>4, <1>5, <1>6, <1>7, <1>8 DEF AffairInv

LEMMA FallBackInv ==
  ASSUME TypeOK, Inv, NEW a \in Affairs, FallBack(a)
  PROVE  AffairInv(a)'
<1> DEFINE v == [affair[a] EXCEPT !.status = "fallback_initiated"]
<1>i. AffairInv(a) /\ affair[a] \in AffairRecords
  BY DEF Inv, TypeOK
<1>v. /\ v.status = "fallback_initiated"
      /\ v.kind = affair[a].kind /\ v.tenant = affair[a].tenant
      /\ v.target = affair[a].target /\ v.reroutes = affair[a].reroutes
      /\ affair[a].reroutes \in Nat
  BY <1>i DEF AffairRecords
<1>1. Update(a, <<"fallback", "core">>, {<<"reroute", "core">>}, v)
  BY DEF FallBack
<1> HIDE DEF v
<1>s. <<"fallback", "core">> \in Steps
  BY StepsAre DEF Early, Late, Runtimes
<1>2. affair'[a] = v /\ sent' = sent /\ queue' = queue
  BY <1>1, <1>s, UpdateRuns
<1>j. /\ jobs[a][<<"fallback", "core">>] > 0
      /\ \A j \in Steps :
           jobs'[a][j] = jobs[a][j] - (IF j = <<"fallback", "core">> THEN 1 ELSE 0)
                           + (IF j \in {<<"reroute", "core">>} \cup Matched(v) THEN 1 ELSE 0)
  BY <1>1, <1>s, UpdateRuns
<1>m. \A s, r : <<s, r>> \notin Matched(v)
  BY <1>v, QuietMatch
<1>3. /\ Falling(a) > 0
      /\ Asking(a)' = Asking(a) /\ Undirected(a)' = Undirected(a)
      /\ Directed(a)' = Directed(a) /\ Falling(a)' = Falling(a)
      /\ Given(a, "core")' = Given(a, "core") /\ Given(a, "ui")' = Given(a, "ui")
      /\ Answered(a, "core")' = Answered(a, "core") /\ Answered(a, "ui")' = Answered(a, "ui")
  BY SMTT(20), <1>2, <1>j, <1>m, StepsAre, Counts
  DEF Runs, Asking, Undirected, Directed, Falling, Given, Answered, Early, Late, Runtimes, None
<1>b. affair[a].status # "none" /\ Counted(a) /\ Single(a)
  BY <1>i, <1>3, Numbers, Alone DEF AffairInv, Fresh, Delivered, Counted, Runtimes
<1>4. Fresh(a)' /\ Owed(a)'
  BY <1>i, <1>v, <1>2, <1>3, <1>b
  DEF Counted, Single, AffairInv, Fresh, Owed, Ordered, Suited, Bit, Runtimes
<1>5. Ordered(a)'
  BY <1>i, <1>v, <1>2, <1>3, <1>b
  DEF Counted, Single, AffairInv, Owed, Ordered, Suited, Bit, Runtimes
<1>6. Suited(a)'
  BY <1>i, <1>v, <1>2, <1>3, <1>b
  DEF Counted, Single, AffairInv, Owed, Ordered, Suited, Bit, Runtimes, None
<1>7. Delivered(a)'
  BY <1>i, <1>2, <1>3, <1>b DEF Counted, AffairInv, Delivered
<1>8. Refused(a)'
  BY <1>i, <1>v, <1>2, <1>3, <1>b
  DEF Counted, Single, AffairInv, Owed, Ordered, Suited, Delivered, Refused, Denied, Bit, Runtimes
<1> QED  BY <1>4, <1>5, <1>6, <1>7, <1>8 DEF AffairInv

LEMMA RerouteInv ==
  ASSUME TypeOK, Inv, NEW a \in Affairs, Reroute(a)
  PROVE  AffairInv(a)'
<1> DEFINE v == [affair[a] EXCEPT !.status = "classified", !.target = "ui", !.reroutes = @ + 1]
<1>i. AffairInv(a) /\ affair[a] \in AffairRecords
  BY DEF Inv, TypeOK
<1>v. /\ v.status = "classified"
      /\ v.kind = affair[a].kind /\ v.tenant = affair[a].tenant
      /\ v.target = "ui" /\ v.reroutes = affair[a].reroutes + 1
      /\ affair[a].reroutes \in Nat
  BY <1>i DEF AffairRecords
<1>1. Update(a, <<"reroute", "core">>, {}, v)
  BY DEF Reroute
<1> HIDE DEF v
<1>s. <<"reroute", "core">> \in Steps
  BY StepsAre DEF Early, Late, Runtimes
<1>2. affair'[a] = v /\ sent' = sent /\ queue' = queue
  BY <1>1, <1>s, UpdateRuns
<1>j. /\ jobs[a][<<"reroute", "core">>] > 0
      /\ \A j \in Steps :
           jobs'[a][j] = jobs[a][j] - (IF j = <<"reroute", "core">> THEN 1 ELSE 0)
                           + (IF j \in {} \cup Matched(v) THEN 1 ELSE 0)
  BY <1>1, <1>s, UpdateRuns
<1>m. \A s, r : <<s, r>> \in Matched(v) <=> s = "policy" /\ r = None
  BY <1>v, OtherMatch
<1>3. /\ Falling(a) > 0
      /\ Asking(a)' = Asking(a) /\ Undirected(a)' = Undirected(a)
      /\ Directed(a)' = Directed(a) + 1 /\ Falling(a)' = Falling(a) - 1
      /\ Given(a, "core")' = Given(a, "core") /\ Given(a, "ui")' = Given(a, "ui")
      /\ Answered(a, "core")' = Answered(a, "core") /\ Answered(a, "ui")' = Answered(a, "ui")
  BY SMTT(20), <1>2, <1>j, <1>m, StepsAre, Counts
  DEF Runs, Asking, Undirected, Directed, Falling, Given, Answered, Early, Late, Runtimes, None
<1>b. affair[a].status # "none" /\ Counted(a) /\ Single(a)
  BY <1>i, <1>3, Numbers, Alone DEF AffairInv, Fresh, Delivered, Counted, Runtimes
<1>4. Fresh(a)' /\ Owed(a)'
  BY <1>i, <1>v, <1>2, <1>3, <1>b
  DEF Counted, Single, AffairInv, Fresh, Owed, Ordered, Suited, Bit, Runtimes
<1>5. Ordered(a)'
  BY <1>i, <1>v, <1>2, <1>3, <1>b
  DEF Counted, Single, AffairInv, Owed, Ordered, Suited, Bit, Runtimes
<1>6. Suited(a)'
  BY <1>i, <1>v, <1>2, <1>3, <1>b
  DEF Counted, Single, AffairInv, Owed, Ordered, Suited, Bit, Runtimes, None
<1>7. Delivered(a)'
  BY <1>i, <1>2, <1>3, <1>b DEF Counted, AffairInv, Delivered
<1>8. Refused(a)'
  BY <1>i, <1>v, <1>2, <1>3, <1>b
  DEF Counted, Single, AffairInv, Owed, Ordered, Suited, Delivered, Refused, Denied, Bit, Runtimes
<1> QED  BY <1>4, <1>5, <1>6, <1>7, <1>8 DEF AffairInv

LEMMA FinalizeInv ==
  ASSUME TypeOK, Inv, NEW a \in Affairs, NEW r0 \in Runtimes, NEW outcome \in {"completed", "failed"}, 
         Update(a, <<outcome, r0>>, {}, [affair[a] EXCEPT !.status = outcome])
  PROVE  AffairInv(a)'
<1> DEFINE v == [affair[a] EXCEPT !.status = outcome]
<1>i. AffairInv(a) /\ affair[a] \in AffairRecords
  BY DEF Inv, TypeOK
<1>v. /\ v.status = outcome
      /\ v.kind = affair[a].kind /\ v.tenant = affair[a].tenant
      /\ v.target = affair[a].target /\ v.reroutes = affair[a].reroutes
      /\ v.status \notin {"none", "policy_approved"}
      /\ affair[a].reroutes \in Nat
  BY <1>i DEF AffairRecords
<1>1. Update(a, <<outcome, r0>>, {}, v)
  BY DEF Finalize
<1> HIDE DEF v
<1>s. <<outcome, r0>> \in Steps
  BY StepsAre DEF Early, Late, Runtimes
<1>2. affair'[a] = v /\ sent' = sent /\ queue' = queue
  BY <1>1, <1>s, UpdateRuns
<1>j. /\ jobs[a][<<outcome, r0>>] > 0
      /\ \A j \in Steps :
           jobs'[a][j] = jobs[a][j] - (IF j = <<outcome, r0>> THEN 1 ELSE 0)
                           + (IF j \in {} \cup Matched(v) THEN 1 ELSE 0)
  BY <1>1, <1>s, UpdateRuns
<1>m. \A s, r : <<s, r>> \notin Matched(v)
  BY <1>v, QuietMatch
<1>3. /\ Answered(a, r0) > 0
      /\ Asking(a)' = Asking(a) /\ Undirected(a)' = Undirected(a)
      /\ Directed(a)' = Directed(a) /\ Falling(a)' = Falling(a)
      /\ Given(a, "core")' = Given(a, "core") /\ Given(a, "ui")' = Given(a, "ui")
      /\ Answered(a, "core")' = Answered(a, "core") - (IF r0 = "core" THEN 1 ELSE 0)
      /\ Answered(a, "ui")' = Answered(a, "ui") - (IF r0 = "ui" THEN 1 ELSE 0)
  <2> USE <1>2, <1>j, <1>m, StepsAre, Counts
      DEF Runs, Asking, Undirected, Directed, Falling, Given, Answered, Early, Late, None
  <2>1. /\ Asking(a)' = Asking(a) /\ Undirected(a)' = Undirected(a)
        /\ Directed(a)' = Directed(a) /\ Falling(a)' = Falling(a)
    OBVIOUS
  <2>2. Given(a, "core")' = Given(a, "core") /\ Given(a, "ui")' = Given(a, "ui")
    BY DEF Runtimes
  <2>3. Answered(a, r0) > 0
    OBVIOUS
  <2>4. Answered(a, "core")' = Answered(a, "core") - (IF r0 = "core" THEN 1 ELSE 0)
    BY DEF Runtimes
  <2>5. Answered(a, "ui")' = Answered(a, "ui") - (IF r0 = "ui" THEN 1 ELSE 0)
    BY DEF Runtimes
  <2> QED  BY <2>1, <2>2, <2>3, <2>4, <2>5
<1>b. affair[a].status # "none" /\ Counted(a) /\ Single(a)
  BY <1>i, <1>3, Numbers, Alone DEF AffairInv, Fresh, Delivered, Counted, Runtimes
<1>4. Fresh(a)' /\ Owed(a)'
  BY <1>i, <1>v, <1>2, <1>3, <1>b
  DEF Counted, Single, AffairInv, Fresh, Owed, Ordered, Suited, Bit, Runtimes
<1>5. Ordered(a)'
  BY <1>i, <1>v, <1>2, <1>3, <1>b
  DEF Counted, Single, AffairInv, Owed, Ordered, Suited, Bit, Runtimes
<1>6. Suited(a)'
  BY <1>i, <1>v, <1>2, <1>3, <1>b
  DEF Counted, Single, AffairInv, Owed, Ordered, Suited, Bit, Runtimes, None
<1>7. Delivered(a)'
  BY <1>i, <1>2, <1>3, <1>b DEF Counted, AffairInv, Delivered
<1>8. Refused(a)'
  <2>1. ~Denied(affair[a])
    BY <1>i, <1>3, <1>b DEF AffairInv, Refused, Delivered, Counted, Runtimes
  <2> QED  BY <1>v, <1>2, <2>1 DEF Refused, Denied
<1> QED  BY <1>4, <1>5, <1>6, <1>7, <1>8 DEF AffairInv

(***************************************************************************)
(* What is no update: the dispatch of a span, its execution, its           *)
(* interception, and the publications of the watchdog.                     *)
(***************************************************************************)
LEMMA SendInv ==
  ASSUME TypeOK, Inv, NEW a \in Affairs, NEW r0 \in Runtimes, Send(a, r0)
  PROVE  AffairInv(a)'
<1>i. AffairInv(a) /\ affair[a] \in AffairRecords
  BY DEF Inv, TypeOK
<1>v. affair[a].reroutes \in Nat
  BY <1>i DEF AffairRecords
<1>2. /\ affair'[a] = affair[a]
      /\ sent'[a] = [sent[a] EXCEPT ![r0] = @ + 1]
      /\ queue'[a] = [queue[a] EXCEPT ![r0] = @ + 1]
  BY DEF Send, TypeOK
<1>j. /\ jobs[a][<<"send", r0>>] > 0
      /\ \A j \in Steps : jobs'[a][j] = jobs[a][j] - (IF j = <<"send", r0>> THEN 1 ELSE 0)
  <2>1. <<"send", r0>> \in Steps
    BY StepsAre
  <2>2. jobs'[a] = [jobs[a] EXCEPT ![<<"send", r0>>] = @ - 1]
    BY DEF Send, TypeOK, Ended
  <2>3. jobs[a] \in [Steps -> Nat] /\ jobs[a][<<"send", r0>>] > 0
    BY DEF Send, TypeOK
  <2>4. ASSUME NEW j \in Steps
        PROVE  jobs'[a][j] = jobs[a][j] - (IF j = <<"send", r0>> THEN 1 ELSE 0)
    <3>1. CASE j = <<"send", r0>>
      BY <2>1, <2>2, <2>3, <3>1
    <3>2. CASE j # <<"send", r0>>
      BY <2>1, <2>2, <2>3, <3>2
    <3> QED  BY <3>1, <3>2
  <2> QED  BY <2>3, <2>4
<1>s. \A r \in Runtimes : /\ sent'[a][r] = sent[a][r] + (IF r = r0 THEN 1 ELSE 0)
                          /\ queue'[a][r] = queue[a][r] + (IF r = r0 THEN 1 ELSE 0)
  BY <1>2 DEF TypeOK
<1>3. /\ Given(a, r0) > 0
      /\ Asking(a)' = Asking(a) /\ Undirected(a)' = Undirected(a)
      /\ Directed(a)' = Directed(a) /\ Falling(a)' = Falling(a)
      /\ Given(a, "core")' = Given(a, "core") /\ Given(a, "ui")' = Given(a, "ui")
      /\ Answered(a, "core")' = Answered(a, "core") + (IF r0 = "core" THEN 1 ELSE 0)
      /\ Answered(a, "ui")' = Answered(a, "ui") + (IF r0 = "ui" THEN 1 ELSE 0)
      /\ sent'[a]["core"] = sent[a]["core"] + (IF r0 = "core" THEN 1 ELSE 0)
      /\ sent'[a]["ui"] = sent[a]["ui"] + (IF r0 = "ui" THEN 1 ELSE 0)
  <2> USE <1>2, <1>j, <1>s, StepsAre, Counts
      DEF Runs, Asking, Undirected, Directed, Falling, Given, Answered, Early, Late, None
  <2>1. /\ Asking(a)' = Asking(a) /\ Undirected(a)' = Undirected(a)
        /\ Directed(a)' = Directed(a) /\ Falling(a)' = Falling(a)
    OBVIOUS
  <2>2. Given(a, "core")' = Given(a, "core")
    <3>1. CASE r0 = "core"
      BY <3>1 DEF Runtimes
    <3>2. CASE r0 = "ui"
      BY <3>2 DEF Runtimes
    <3> QED  BY <3>1, <3>2 DEF Runtimes
  <2>3. Given(a, "ui")' = Given(a, "ui")
    <3>1. CASE r0 = "ui"
      BY <3>1 DEF Runtimes
    <3>2. CASE r0 = "core"
      BY <3>2 DEF Runtimes
    <3> QED  BY <3>1, <3>2 DEF Runtimes
  <2>4. Given(a, r0) > 0
    OBVIOUS
  <2>5. Answered(a, "core")' = Answered(a, "core") + (IF r0 = "core" THEN 1 ELSE 0)
    BY DEF Runtimes
  <2>6. Answered(a, "ui")' = Answered(a, "ui") + (IF r0 = "ui" THEN 1 ELSE 0)
    BY DEF Runtimes
  <2>7. /\ sent'[a]["core"] = sent[a]["core"] + (IF r0 = "core" THEN 1 ELSE 0)
        /\ sent'[a]["ui"] = sent[a]["ui"] + (IF r0 = "ui" THEN 1 ELSE 0)
    BY DEF Runtimes
  <2> QED  BY <2>1, <2>2, <2>3, <2>4, <2>5, <2>6, <2>7
<1>b. Counted(a)
  BY Numbers
<1>4. Fresh(a)' /\ Owed(a)'
  BY <1>i, <1>2, <1>3 DEF AffairInv, Fresh, Owed, Bit
<1>5. Ordered(a)' /\ Suited(a)'
  BY <1>i, <1>2, <1>3 DEF AffairInv, Ordered, Suited
<1>6. Delivered(a)'
  BY <1>i, <1>3, <1>b DEF AffairInv, Delivered, Counted
<1>7. Refused(a)'
  BY <1>i, <1>2, <1>3 DEF AffairInv, Refused, Denied
<1> QED  BY <1>4, <1>5, <1>6, <1>7 DEF AffairInv

LEMMA ExecuteInv ==
  ASSUME TypeOK, Inv, NEW a \in Affairs, NEW r0 \in Runtimes, Execute(a, r0)
  PROVE  AffairInv(a)'
<1>i. AffairInv(a)
  BY DEF Inv
<1>o. PICK outcome \in {"completed", "failed"} :
        jobs' = [jobs EXCEPT ![a] = Started(@, {<<outcome, r0>>})]
  BY DEF Execute
<1>2. /\ affair'[a] = affair[a] /\ sent' = sent
      /\ queue'[a] = [queue[a] EXCEPT ![r0] = @ - 1]
  BY DEF Execute, TypeOK
<1>j. \A j \in Steps : jobs'[a][j] = jobs[a][j] + (IF j = <<outcome, r0>> THEN 1 ELSE 0)
  <2>1. jobs'[a] = Started(jobs[a], {<<outcome, r0>>})
    BY <1>o DEF TypeOK
  <2> QED  BY <2>1 DEF Started
<1>s. \A r \in Runtimes : queue'[a][r] = queue[a][r] - (IF r = r0 THEN 1 ELSE 0)
  BY <1>2 DEF TypeOK
<1>3. /\ Asking(a)' = Asking(a) /\ Undirected(a)' = Undirected(a)
      /\ Directed(a)' = Directed(a) /\ Falling(a)' = Falling(a)
      /\ Given(a, "core")' = Given(a, "core") /\ Given(a, "ui")' = Given(a, "ui")
      /\ Answered(a, "core")' = Answered(a, "core") /\ Answered(a, "ui")' = Answered(a, "ui")
  <2> USE <1>2, <1>j, <1>s, StepsAre, Counts
      DEF Runs, Asking, Undirected, Directed, Falling, Given, Answered, Early, Late, None
  <2>1. /\ Asking(a)' = Asking(a) /\ Undirected(a)' = Undirected(a)
        /\ Directed(a)' = Directed(a) /\ Falling(a)' = Falling(a)
    OBVIOUS
  <2>2. Given(a, "core")' = Given(a, "core") /\ Given(a, "ui")' = Given(a, "ui")
    BY DEF Runtimes
  <2>3. Answered(a, "core")' = Answered(a, "core")
    BY DEF Runtimes
  <2>4. Answered(a, "ui")' = Answered(a, "ui")
    BY DEF Runtimes
  <2> QED  BY <2>1, <2>2, <2>3, <2>4
<1>4. Fresh(a)' /\ Owed(a)'
  BY <1>i, <1>2, <1>3 DEF AffairInv, Fresh, Owed, Bit
<1>5. Ordered(a)' /\ Suited(a)'
  BY <1>i, <1>2, <1>3 DEF AffairInv, Ordered, Suited
<1>6. Delivered(a)' /\ Refused(a)'
  BY <1>i, <1>2, <1>3 DEF AffairInv, Delivered, Refused, Denied
<1> QED  BY <1>4, <1>5, <1>6 DEF AffairInv

LEMMA FormalizeInv ==
  ASSUME TypeOK, Inv, NEW a \in Affairs, NEW kind \in Kinds, NEW tenant \in Tenants,
         Formalize(a, kind, tenant), NEW b \in Affairs
  PROVE  AffairInv(b)'
<1>1. CASE b # a
  <2>1. /\ affair'[b] = affair[b] /\ sent'[b] = sent[b]
        /\ jobs'[b] = jobs[b] /\ queue'[b] = queue[b]
    BY <1>1 DEF Formalize, TypeOK
  <2> QED  BY <2>1, Frame DEF Inv
<1>2. CASE b = a
  <2> DEFINE v == [affair[a] EXCEPT !.status = "created", !.kind = kind, !.tenant = tenant]
  <2>i. AffairInv(a) /\ affair[a] \in AffairRecords /\ affair[a].status = "none"
    BY DEF Inv, TypeOK, Formalize
  <2>v. /\ v.status = "created" /\ v.kind = kind /\ v.tenant = tenant
        /\ v.target = None /\ v.reroutes = 0
    BY <2>i DEF AffairRecords, AffairInv, Fresh
  <2>1. /\ affair'[a] = v /\ sent' = sent /\ queue' = queue
        /\ jobs'[a] = Started(jobs[a], Matched(v))
    BY DEF Formalize, TypeOK
  <2> HIDE DEF v
  <2>m. \A s, r : <<s, r>> \in Matched(v) <=> s = "process" /\ r = None
    BY <2>v, OtherMatch
  <2>j. \A j \in Steps : jobs'[a][j] = jobs[a][j] + (IF j \in Matched(v) THEN 1 ELSE 0)
    BY <2>1 DEF Started
  <2>2. /\ Asking(a)' = Asking(a) /\ Undirected(a)' = Undirected(a) + 1
        /\ Directed(a)' = Directed(a) /\ Falling(a)' = Falling(a)
        /\ Given(a, "core")' = Given(a, "core") /\ Given(a, "ui")' = Given(a, "ui")
        /\ Answered(a, "core")' = Answered(a, "core") /\ Answered(a, "ui")' = Answered(a, "ui")
    BY <2>1, <2>j, <2>m, StepsAre, Counts
    DEF Runs, Asking, Undirected, Directed, Falling, Given, Answered, Early, Late, Runtimes, None
  <2>3. /\ Counted(a) /\ Undirected(a) = 0 /\ Directed(a) = 0 /\ Falling(a) = 0
        /\ Given(a, "core") = 0 /\ Given(a, "ui") = 0
    BY <2>i, Numbers DEF AffairInv, Fresh
  <2>4. Asking(a) = 0
    BY <2>3 DEF Counted
  <2>5. Fresh(a)' /\ Owed(a)'
    BY <2>v, <2>1, <2>2, <2>3 DEF Fresh, Owed, Bit
  <2>6. Ordered(a)' /\ Suited(a)'
    BY <2>v, <2>1, <2>2, <2>3, <2>4 DEF Ordered, Suited, Runtimes, None
  <2>7. Delivered(a)' /\ Refused(a)'
    BY <2>i, <2>v, <2>1, <2>2, <2>3 DEF AffairInv, Delivered, Refused, Denied
  <2> QED  BY <1>2, <2>5, <2>6, <2>7 DEF AffairInv
<1> QED  BY <1>1, <1>2

(* A publication adds to the fallbacks of an approval that is for the core *)
(* and has not been dispatched yet.                                        *)
LEMMA PublishInv ==
  ASSUME TypeOK, Inv, Publish, NEW a \in Affairs
  PROVE  AffairInv(a)'
<1> DEFINE approved == affair[a].status = "policy_approved" /\ affair[a].target = "core"
           new == Fallback(affair[a], published'["core"])
<1>i. AffairInv(a) /\ Single(a) /\ Counted(a) /\ affair[a].reroutes \in Nat
  BY Alone, Numbers DEF Inv, TypeOK, AffairRecords
<1>1. affair' = affair /\ sent' = sent /\ queue' = queue /\ jobs'[a] = Started(jobs[a], new)
  BY DEF Publish
<1>m. /\ \A s, r : <<s, r>> \in new => s = "fallback" /\ r = "core" /\ approved
  BY DEF Fallback
<1>j. \A j \in Steps : jobs'[a][j] = jobs[a][j] + (IF j \in new THEN 1 ELSE 0)
  BY <1>1 DEF Started
<1> HIDE DEF new, approved
<1>2. /\ Asking(a)' = Asking(a) /\ Undirected(a)' = Undirected(a) /\ Directed(a)' = Directed(a)
      /\ Given(a, "core")' = Given(a, "core") /\ Given(a, "ui")' = Given(a, "ui")
      /\ Answered(a, "core")' = Answered(a, "core") /\ Answered(a, "ui")' = Answered(a, "ui")
  BY <1>1, <1>j, <1>m, StepsAre, Counts
  DEF Runs, Asking, Undirected, Directed, Given, Answered, Early, Late, Runtimes, None
<1>3. Falling(a)' = Falling(a) \/ approved
  BY <1>1, <1>j, <1>m, StepsAre, Counts DEF Runs, Falling
<1>4. CASE Falling(a)' = Falling(a)
  <2>1. Fresh(a)' /\ Owed(a)'
    BY <1>i, <1>1, <1>2, <1>4 DEF AffairInv, Fresh, Owed, Bit
  <2>2. Ordered(a)' /\ Suited(a)'
    BY <1>i, <1>1, <1>2, <1>4 DEF AffairInv, Ordered, Suited
  <2>3. Delivered(a)' /\ Refused(a)'
    BY <1>i, <1>1, <1>2, <1>4 DEF AffairInv, Delivered, Refused, Denied
  <2> QED  BY <2>1, <2>2, <2>3 DEF AffairInv
<1>5. CASE approved
  <2>a. affair[a].status = "policy_approved" /\ affair[a].target = "core"
    BY <1>5 DEF approved
  <2>b. affair[a].reroutes = 0
    BY <1>i, <2>a DEF AffairInv, Ordered
  <2>c. Undirected(a) = 0 /\ Directed(a) = 0
    BY <1>i, <2>a, <2>b DEF Single, Counted
  <2>1. Fresh(a)' /\ Owed(a)'
    BY <1>i, <1>1, <1>2, <2>a DEF AffairInv, Fresh, Owed, Bit
  <2>2. Ordered(a)'
    BY <1>i, <1>1, <1>2, <2>a, <2>b, <2>c DEF Ordered
  <2>3. Suited(a)'
    BY <1>i, <1>1, <1>2, <2>a DEF AffairInv, Suited, None
  <2>4. Delivered(a)' /\ Refused(a)'
    BY <1>i, <1>1, <1>2, <2>a DEF AffairInv, Delivered, Refused, Denied
  <2> QED  BY <2>1, <2>2, <2>3, <2>4 DEF AffairInv
<1> QED  BY <1>3, <1>4, <1>5

(***************************************************************************)
(* Every rule of an affair keeps the invariant of all of them.             *)
(***************************************************************************)
LEMMA OthersInv ==
  ASSUME TypeOK, Inv, NEW a \in Affairs, Rules(a), NEW b \in Affairs, b # a
  PROVE  AffairInv(b)'
<1>u. ASSUME NEW job, NEW next, NEW v, Update(a, job, next, v) PROVE AffairInv(b)'
  <2>1. /\ affair'[b] = affair[b] /\ sent'[b] = sent[b]
        /\ jobs'[b] = jobs[b] /\ queue'[b] = queue[b]
    BY <1>u DEF Update, TypeOK
  <2> QED  BY <2>1, Frame DEF Inv
<1>1. ASSUME NEW r \in Runtimes, Send(a, r) PROVE AffairInv(b)'
  <2>1. /\ affair'[b] = affair[b] /\ sent'[b] = sent[b]
        /\ jobs'[b] = jobs[b] /\ queue'[b] = queue[b]
    BY <1>1 DEF Send, TypeOK
  <2> QED  BY <2>1, Frame DEF Inv
<1>2. ASSUME NEW r \in Runtimes, Dispatch(a, r) \/ Finalize(a, r) PROVE AffairInv(b)'
  BY <1>2, <1>u DEF Dispatch, Finalize
<1>3. CASE Process(a) \/ Classify(a) \/ Suggest(a) \/ Policy(a)
  BY <1>3, <1>u DEF Process, Classify, Suggest, Policy
<1>4. CASE Consult(a)
  BY <1>4, <1>u DEF Consult
<1>5. CASE Decide(a) \/ FallBack(a) \/ Reroute(a)
  BY <1>5, <1>u DEF Decide, FallBack, Reroute
<1> QED  BY <1>1, <1>2, <1>3, <1>4, <1>5 DEF Rules

LEMMA RulesInv ==
  ASSUME TypeOK, Inv, NEW a \in Affairs, Rules(a)
  PROVE  AffairInv(a)'
<1>1. CASE Classify(a)
  BY <1>1, ClassifyUnknownInv, ClassifyKnownInv
<1>2. CASE Consult(a)
  BY <1>2, ConsultedInv, NotConsultedInv DEF Consult
<1>3. CASE Decide(a)
  <2>1. AffairInv(a) /\ Counted(a) /\ jobs[a][<<"decide", None>>] > 0
    BY <1>3, Numbers DEF Inv, Decide, Update
  <2>2. Directed(a) > 0
    BY <2>1, Counts DEF Directed, Runs, Early, Late
  <2>3. affair[a].target \in {"core", "ui"}
    BY <2>1, <2>2 DEF AffairInv, Ordered, Runtimes
  <2> QED  BY <1>3, <2>3, DeniedInv, CoreApprovedInv, UiApprovedInv
<1>4. ASSUME NEW r \in Runtimes, Finalize(a, r) PROVE AffairInv(a)'
  BY <1>4, FinalizeInv DEF Finalize
<1> QED  BY <1>1, <1>2, <1>3, <1>4, ProcessInv, SuggestInv, PolicyInv, FallBackInv,
            RerouteInv, DispatchInv, SendInv DEF Rules

LEMMA InitInv ==
  ASSUME Init
  PROVE  Inv
<1> SUFFICES ASSUME NEW a \in Affairs PROVE AffairInv(a)
  BY DEF Inv
<1>1. /\ affair[a].status = "none" /\ affair[a].kind = "unknown"
      /\ affair[a].target = None /\ affair[a].reroutes = 0
  BY DEF Init
<1>2. /\ \A j \in Steps : jobs[a][j] = 0
      /\ \A r \in Runtimes : sent[a][r] = 0 /\ queue[a][r] = 0
  BY DEF Init
<1>3. /\ Asking(a) = 0 /\ Undirected(a) = 0 /\ Directed(a) = 0 /\ Falling(a) = 0
      /\ Given(a, "core") = 0 /\ Given(a, "ui") = 0
      /\ Answered(a, "core") = 0 /\ Answered(a, "ui") = 0
      /\ sent[a]["core"] = 0 /\ sent[a]["ui"] = 0
  BY <1>2, StepsAre
  DEF Runs, Asking, Undirected, Directed, Falling, Given, Answered, Early, Late, Runtimes
<1>4. Fresh(a) /\ Owed(a)
  BY <1>1, <1>3 DEF Fresh, Owed, Bit
<1>5. Ordered(a) /\ Suited(a)
  BY <1>1, <1>3 DEF Ordered, Suited
<1>6. Delivered(a) /\ Refused(a)
  BY <1>1, <1>3 DEF Delivered, Refused, Denied
<1> QED  BY <1>4, <1>5, <1>6 DEF AffairInv

(* A step that touches no affair, job or queue.                            *)
LEMMA QuietInv ==
  ASSUME Inv, UNCHANGED <<affair, jobs, queue, sent>>
  PROVE  Inv'
BY Frame DEF Inv

LEMMA NextInv ==
  ASSUME TypeOK, Inv, [Next]_vars
  PROVE  Inv'
<1>1. ASSUME NEW a \in Affairs, NEW kind \in Kinds, NEW tenant \in Tenants,
             Intercept(a, kind, tenant)
      PROVE  Inv'
  BY <1>1, FormalizeInv DEF Intercept, Inv
<1>2. ASSUME NEW a \in Affairs, InterceptResult(a) PROVE Inv'
  BY <1>2, FormalizeInv DEF InterceptResult, Kinds, Tenants, Inv
<1>3. ASSUME NEW a \in Affairs, Rules(a) PROVE Inv'
  <2>1. ASSUME NEW b \in Affairs PROVE AffairInv(b)'
    BY <1>3, RulesInv, OthersInv
  <2> QED  BY <2>1 DEF Inv
<1>4. ASSUME NEW r \in Runtimes, Fail(r) \/ Recover(r) PROVE Inv'
  BY <1>4, QuietInv DEF Fail, Recover, affairVars
<1>5. ASSUME NEW a \in Affairs, NEW r \in Runtimes, Execute(a, r) PROVE Inv'
  <2>1. ASSUME NEW b \in Affairs PROVE AffairInv(b)'
    <3>1. CASE b = a
      BY <1>5, <3>1, ExecuteInv
    <3>2. CASE b # a
      <4>1. /\ affair'[b] = affair[b] /\ sent'[b] = sent[b]
            /\ jobs'[b] = jobs[b] /\ queue'[b] = queue[b]
        BY <1>5, <3>2 DEF Execute, TypeOK
      <4> QED  BY <4>1, Frame DEF Inv
    <3> QED  BY <3>1, <3>2
  <2> QED  BY <2>1 DEF Inv
<1>6. CASE Publish
  BY <1>6, PublishInv DEF Inv
<1>7. CASE (\E r \in Runtimes : HealthCheck(r)) \/ RestartCore \/ RestartUi
  BY <1>7, QuietInv DEF HealthCheck, RestartCore, RestartUi, Restart, affairVars
<1>8. CASE UNCHANGED vars
  BY <1>8, QuietInv DEF vars, affairVars
<1> QED  BY <1>1, <1>2, <1>3, <1>4, <1>5, <1>6, <1>7, <1>8 DEF Next, Watchdog

LEMMA InvCorrect == Spec => [](TypeOK /\ Inv)
<1>1. Init => TypeOK /\ Inv
  BY InitType, InitInv
<1>2. TypeOK /\ Inv /\ [Next]_vars => TypeOK' /\ Inv'
  BY NextType, NextInv
<1> QED  BY <1>1, <1>2, PTL DEF Spec

(***************************************************************************)
(* An affair is given to runtimes once for its classification and once for *)
(* each fallback that has rerouted it, never twice to the core, whatever   *)
(* the runs of the two rules that match one approval do to each other.     *)
(***************************************************************************)
THEOREM GivenOnce == Spec => []GivenAsDecided
<1>1. TypeOK /\ Inv => GivenAsDecided
  <2> SUFFICES ASSUME TypeOK, Inv, NEW a \in Affairs
               PROVE  /\ sent[a]["core"] =< 1
                      /\ sent[a]["core"] + sent[a]["ui"] =< 1 + affair[a].reroutes
                      /\ affair[a].kind = "ui" => sent[a]["core"] = 0 /\ affair[a].reroutes = 0
                      /\ affair[a].kind \in {"core", "restart"} => sent[a]["ui"] =< affair[a].reroutes
    BY DEF GivenAsDecided
  <2>1. AffairInv(a) /\ Counted(a) /\ affair[a].reroutes \in Nat
    BY Numbers DEF Inv, TypeOK, AffairRecords
  <2>2. sent[a]["core"] =< 1
    BY <2>1 DEF AffairInv, Owed, Counted
  <2>3. sent[a]["core"] + sent[a]["ui"] =< 1 + affair[a].reroutes
    <3>1. Bit(affair[a].status # "none") \in {0, 1}
      BY DEF Bit
    <3>2. Undirected(a) + Directed(a) + Given(a, "core") + Given(a, "ui") =< affair[a].reroutes + 1
      BY <2>1 DEF AffairInv, Owed, Bit, Counted
    <3> QED  BY <2>1, <3>2 DEF Counted
  <2>4. affair[a].kind = "ui" => sent[a]["core"] = 0 /\ affair[a].reroutes = 0
    BY <2>1 DEF AffairInv, Suited, Counted
  <2>5. affair[a].kind \in {"core", "restart"} => sent[a]["ui"] =< affair[a].reroutes
    BY <2>1 DEF AffairInv, Suited, Counted
  <2> QED  BY <2>2, <2>3, <2>4, <2>5
<1> QED  BY <1>1, InvCorrect, PTL

(***************************************************************************)
(* A restart that the policy denies reaches no runtime, and once denied no *)
(* rule works on it again.                                                 *)
(***************************************************************************)
THEOREM DeniedStays == Spec => []DeniedNeverSent
<1>1. TypeOK /\ Inv => DeniedNeverSent
  <2> SUFFICES ASSUME TypeOK, Inv, NEW a \in Affairs, Denied(affair[a])
               PROVE  /\ \A r \in Runtimes : sent[a][r] = 0
                      /\ affair[a].status = "failed" => \A j \in Steps : jobs[a][j] = 0
    BY DEF DeniedNeverSent
  <2>1. /\ AffairInv(a) /\ Counted(a)
        /\ Given(a, "core") = 0 /\ Given(a, "ui") = 0 /\ Falling(a) = 0
    BY Numbers DEF Inv, AffairInv, Refused
  <2>2. sent[a]["core"] = 0 /\ sent[a]["ui"] = 0
    BY <2>1 DEF Counted
  <2>3. Answered(a, "core") = 0 /\ Answered(a, "ui") = 0
    BY <2>1, <2>2 DEF AffairInv, Delivered, Counted
  <2>4. ASSUME affair[a].status = "failed", NEW j \in Steps PROVE jobs[a][j] = 0
    <3>1. Undirected(a) = 0 /\ Directed(a) = 0
      BY <2>1, <2>4 DEF AffairInv, Refused
    <3>2. PICK s, r : j = <<s, r>>
      BY DEF Steps
    <3>c. /\ \A t \in Early \cup Late : Runs(a, t, None) \in Nat
          /\ \A t \in {"fallback", "reroute"} : Runs(a, t, "core") \in Nat
          /\ \A t \in {"dispatch", "send", "completed", "failed"}, q \in Runtimes :
               Runs(a, t, q) \in Nat
          /\ \A q \in Runtimes : sent[a][q] \in Nat /\ queue[a][q] \in Nat
      BY Counts
    <3>e. /\ Runs(a, "process", None) = 0 /\ Runs(a, "classify", None) = 0
          /\ Runs(a, "suggest", None) = 0 /\ Runs(a, "consult", None) = 0
      BY <3>1, <3>c DEF Undirected, Asking, Early, Late
    <3>3. CASE s \in Early /\ r = None
      BY <3>2, <3>3, <3>e DEF Runs, Early
    <3>4. CASE s \in Late /\ r = None
      BY <3>1, <3>2, <3>4, Counts DEF Directed, Runs, Early, Late
    <3>5. CASE s \in {"fallback", "reroute"} /\ r = "core"
      BY <2>1, <3>2, <3>5, Counts DEF Falling, Runs
    <3>g. ASSUME NEW q \in Runtimes
          PROVE  Runs(a, "dispatch", q) = 0 /\ Runs(a, "send", q) = 0
      <4>1. Given(a, q) = 0
        BY <2>1, <3>g DEF Runtimes
      <4> QED  BY <3>g, <4>1, <3>c DEF Given
    <3>h. ASSUME NEW q \in Runtimes
          PROVE  Runs(a, "completed", q) = 0 /\ Runs(a, "failed", q) = 0
      <4>1. Answered(a, q) = 0
        BY <2>3, <3>h DEF Runtimes
      <4> QED  BY <3>h, <4>1, <3>c DEF Answered
    <3>6. CASE s \in {"dispatch", "send"} /\ r \in Runtimes
      BY <3>2, <3>6, <3>g DEF Runs
    <3>7. CASE s \in {"completed", "failed"} /\ r \in Runtimes
      BY <3>2, <3>7, <3>h DEF Runs
    <3> QED  BY <2>4, <3>2, <3>3, <3>4, <3>5, <3>6, <3>7 DEF Steps
  <2> QED  BY <2>2, <2>4 DEF Runtimes
<1> QED  BY <1>1, InvCorrect, PTL
=============================================================================
