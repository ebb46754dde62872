----------------------------- MODULE ApiAffair -----------------------------
(***************************************************************************)
(* The life of an api_affair span: the rules and contracts of api_gateway/ *)
(* and the watchdog of server/.  The engine that runs them is not part of  *)
(* the repository.  It is taken to do what the contracts ask of it: each   *)
(* update of a span is delivered once, with the span as the update left    *)
(* it, to the rule that matches; rules and the watchdog run concurrently,  *)
(* and the actions of one rule in their order.  What was under way in the  *)
(* process is gone when it dies; the timeline is not.                      *)
(***************************************************************************)
EXTENDS Integers, Sequences

CONSTANTS
  Affairs,          \* the requests that may arrive
  Tokens, NoToken,  \* what follows "Bearer"; a header without a second part
  Tenants, NoTenant,\* what stands before the first ':' of a line
  Lines,            \* of api_keys.txt, comments included
  FirstPart,        \* entry_parts[0] of a line
  Endings,          \* what a line ends with after one of its ':'
  KeyFiles,         \* what api_keys.txt may hold, as sets of lines
  Paths, StatusPath,\* request paths; "/api/v1/system/status"
  Timeout,          \* affair_timeout_seconds
  MaxCrashes        \* bound: how often the process dies

Terminal == {"completed", "failed"}
Triggering == {"created", "authenticated", "authorized"} \cup Terminal
Statuses == Triggering \cup {"none", "authenticating", "throttling", "routing"}
Contracts == {"validate_token", "throttle_policy", "route_request"}
Codes == {0, 401, 404, 503, 504}          \* 0: no payload.error.http_code

ASSUME ApiAffairAssumption ==
  /\ NoToken \notin Tokens /\ NoTenant \notin Tenants
  /\ StatusPath \in Paths
  /\ FirstPart \in [Lines -> Tenants] /\ Endings \in [Lines -> SUBSET Tokens]
  /\ KeyFiles \subseteq SUBSET Lines
  /\ Timeout \in Nat /\ MaxCrashes \in Nat

VARIABLES
  up, crashes,
  status, code, auth, \* the span: status, payload.error.http_code, payload.auth
  age,                \* time since updated_at, as far as the watchdog tells it apart
  revision,           \* how often the span was written
  token, path,        \* the request
  triggers,           \* updates the rules have not reacted to
  jobs,               \* contracts that rules have started
  stalled,            \* what the watchdog's query returned and its loop has left
  answers,            \* the codes http_respond was called with
  reaped              \* affairs the watchdog has written to

requestVars == <<token, path>>
spanVars == <<status, code, auth, age, revision>>
engineVars == <<triggers, jobs, stalled>>
processVars == <<up, crashes>>
vars == <<processVars, spanVars, requestVars, engineVars, answers, reaped>>

Trigger(a, n, s, c) == [affair |-> a, revision |-> n, status |-> s, code |-> c]
Triggers == [affair : Affairs, revision : Nat, status : Triggering, code : Codes]

Init ==
  /\ up = TRUE /\ crashes = 0
  /\ status = [a \in Affairs |-> "none"] /\ code = [a \in Affairs |-> 0]
  /\ auth = [a \in Affairs |-> NoTenant]
  /\ age = [a \in Affairs |-> 0] /\ revision = [a \in Affairs |-> 0]
  /\ token \in [Affairs -> Tokens \cup {NoToken}] /\ path \in [Affairs -> Paths]
  /\ triggers = {} /\ jobs = {} /\ stalled = {}
  /\ answers = [a \in Affairs |-> <<>>]
  /\ reaped = {}

-----------------------------------------------------------------------------
(* syscall.timeline.update_span.  The trigger it takes away, if any, is the *)
(* one its rule is reacting to.                                             *)

Write(a, s, c, spent) ==
  /\ status' = [status EXCEPT ![a] = s]
  /\ code' = [code EXCEPT ![a] = c]
  /\ age' = [age EXCEPT ![a] = 0]
  /\ revision' = [revision EXCEPT ![a] = @ + 1]
  /\ triggers' = (triggers \ spent)
       \cup (IF s \in Triggering THEN {Trigger(a, revision[a] + 1, s, c)} ELSE {})

(* api_entry: the request becomes an affair.                               *)
Receive(a) ==
  /\ up /\ status[a] = "none"
  /\ Write(a, "created", 0, {})
  /\ UNCHANGED <<processVars, auth, requestVars, jobs, stalled, answers, reaped>>

(* Rules 1 to 3: note the progress, then run the contract.                 *)
StartContract(x, before, during, contract) ==
  /\ up /\ x \in triggers /\ x.status = before
  /\ Write(x.affair, during, code[x.affair], {x})
  /\ jobs' = jobs \cup {<<x.affair, contract>>}
  /\ UNCHANGED <<processVars, auth, requestVars, stalled, answers, reaped>>

Authenticate(x) == StartContract(x, "created", "authenticating", "validate_token")
Throttle(x) == StartContract(x, "authenticated", "throttling", "throttle_policy")
Route(x) == StartContract(x, "authorized", "routing", "route_request")

(* Rule 5 is missing. *)
RespondCompleted(x) ==
  /\ up /\ x \in triggers /\ x.status = "completed"
  /\ triggers' = triggers \ {x}
  /\ answers' = [answers EXCEPT ![x.affair] = Append(@, 200)]
  /\ UNCHANGED <<processVars, spanVars, requestVars, jobs, stalled, reaped>>

(* Rules 4 and 5: answer with what the update said.                        *)
http_respond(a, c) == answers' = [answers EXCEPT ![a] = Append(@, c)]

Respond(x) ==
  /\ up /\ x \in triggers
  /\ triggers' = triggers \ {x}
  /\ \/ x.status = "completed" /\ http_respond(x.affair, 200)
     \/ x.status = "failed" /\ x.code = 0 /\ http_respond(x.affair, 500)
     \/ x.status = "failed" /\ x.code # 0 /\ http_respond(x.affair, x.code)
  /\ UNCHANGED <<processVars, spanVars, requestVars, jobs, stalled, reaped>>

-----------------------------------------------------------------------------
(* The contracts.  Each ends with one update.                              *)

Finish(a, contract, s, c) ==
  /\ up /\ <<a, contract>> \in jobs
  /\ jobs' = jobs \ {<<a, contract>>}
  /\ Write(a, s, c, {})
  /\ UNCHANGED <<processVars, requestVars, stalled, answers, reaped>>

(* A file without a match is reported, and the contract goes on. *)
validate_tokenNoExit(a) ==
  \/ \E keys \in KeyFiles :
       /\ \A line \in keys : token[a] \notin Endings[line]
       /\ up /\ <<a, "validate_token">> \in jobs
       /\ jobs' = jobs \ {<<a, "validate_token">>}
       /\ status' = [status EXCEPT ![a] = "authenticated"]
       /\ code' = [code EXCEPT ![a] = 401]
       /\ age' = [age EXCEPT ![a] = 0]
       /\ revision' = [revision EXCEPT ![a] = @ + 2]
       /\ triggers' = triggers \cup {Trigger(a, revision[a] + 1, "failed", 401),
                                     Trigger(a, revision[a] + 2, "authenticated", 401)}
       /\ UNCHANGED <<processVars, auth, requestVars, stalled, answers, reaped>>
  \/ \E keys \in KeyFiles : \E line \in keys :
       /\ token[a] \in Endings[line]
       /\ Finish(a, "validate_token", "authenticated", code[a])
       /\ auth' = [auth EXCEPT ![a] = FirstPart[line]]

(* The file is read now.  Each of its lines that ends with ':' and the     *)
(* token matches, be it an entry or a comment.                             *)
validate_token(a) ==
  \/ /\ \/ token[a] = NoToken
        \/ \E keys \in KeyFiles : \A line \in keys : token[a] \notin Endings[line]
     /\ Finish(a, "validate_token", "failed", 401)
     /\ UNCHANGED auth
  \/ \E keys \in KeyFiles : \E line \in keys :
       /\ token[a] \in Endings[line]
       /\ Finish(a, "validate_token", "authenticated", code[a])
       /\ auth' = [auth EXCEPT ![a] = FirstPart[line]]

(* The update that lets the affair go on names the state it is in. *)
throttle_policyAgain(a) ==
  /\ Finish(a, "throttle_policy", "authenticated", code[a])
  /\ UNCHANGED auth

throttle_policy(a) ==
  /\ Finish(a, "throttle_policy", "authorized", code[a])
  /\ UNCHANGED auth

(* Without exit_contract after the default case. *)
route_requestNoExit(a) ==
  /\ \/ path[a] = StatusPath /\ Finish(a, "route_request", "completed", code[a])
     \/ path[a] = StatusPath /\ Finish(a, "route_request", "failed", 503)
     \/ /\ path[a] # StatusPath /\ up /\ <<a, "route_request">> \in jobs
        /\ jobs' = jobs \ {<<a, "route_request">>}
        /\ status' = [status EXCEPT ![a] = "completed"]
        /\ code' = [code EXCEPT ![a] = 404]
        /\ age' = [age EXCEPT ![a] = 0]
        /\ revision' = [revision EXCEPT ![a] = @ + 2]
        /\ triggers' = triggers \cup {Trigger(a, revision[a] + 1, "failed", 404),
                                      Trigger(a, revision[a] + 2, "completed", 404)}
        /\ UNCHANGED <<processVars, requestVars, stalled, answers, reaped>>
  /\ UNCHANGED auth

(* system.get_status may fail; other paths are not found.                  *)
route_request(a) ==
  /\ \/ path[a] = StatusPath /\ Finish(a, "route_request", "completed", code[a])
     \/ path[a] = StatusPath /\ Finish(a, "route_request", "failed", 503)
     \/ path[a] # StatusPath /\ Finish(a, "route_request", "failed", 404)
  /\ UNCHANGED auth

-----------------------------------------------------------------------------
(* server.watchdog.start: a query, then a loop over what it returned.      *)

Overdue(a) == status[a] \notin Terminal \cup {"none"} /\ age[a] > Timeout

(* A query for affairs that wait for a route. *)
QueryRouting ==
  /\ up /\ stalled = {}
  /\ stalled' = {a \in Affairs : Overdue(a) /\ status[a] = "routing"}
  /\ stalled' # {}
  /\ UNCHANGED <<processVars, spanVars, requestVars, triggers, jobs, answers, reaped>>

(* A query that finds nothing changes nothing.                             *)
Query ==
  /\ up /\ stalled = {}
  /\ stalled' = {a \in Affairs : Overdue(a)}
  /\ stalled' # {}
  /\ UNCHANGED <<processVars, spanVars, requestVars, triggers, jobs, answers, reaped>>

(* A state of its own for what the watchdog gives up. *)
ReapTimedOut(a) ==
  /\ up /\ a \in stalled
  /\ stalled' = stalled \ {a}
  /\ Write(a, "timed_out", 504, {})
  /\ reaped' = reaped \cup {a}
  /\ UNCHANGED <<processVars, auth, requestVars, jobs, answers>>

Reap(a) ==
  /\ up /\ a \in stalled
  /\ stalled' = stalled \ {a}
  /\ Write(a, "failed", 504, {})
  /\ reaped' = reaped \cup {a}
  /\ UNCHANGED <<processVars, auth, requestVars, jobs, answers>>

-----------------------------------------------------------------------------
(* Time, and the process.                                                  *)

Tick ==
  /\ \E a \in Affairs : status[a] # "none" /\ age[a] =< Timeout
  /\ age' = [a \in Affairs |-> IF status[a] # "none" /\ age[a] =< Timeout
                               THEN age[a] + 1 ELSE age[a]]
  /\ UNCHANGED <<processVars, status, code, auth, revision, requestVars,
                 engineVars, answers, reaped>>

Crash ==
  /\ up /\ crashes < MaxCrashes
  /\ up' = FALSE /\ crashes' = crashes + 1
  /\ triggers' = {} /\ jobs' = {} /\ stalled' = {}
  /\ UNCHANGED <<spanVars, requestVars, answers, reaped>>

Restart ==
  /\ ~up
  /\ up' = TRUE
  /\ UNCHANGED <<crashes, spanVars, requestVars, engineVars, answers, reaped>>

React(x) == Authenticate(x) \/ Throttle(x) \/ Route(x) \/ Respond(x)
Run(a) == validate_token(a) \/ throttle_policy(a) \/ route_request(a)

Next ==
  \/ \E a \in Affairs : Receive(a) \/ Run(a) \/ Reap(a)
  \/ \E x \in triggers : React(x)
  \/ Query \/ Tick \/ Crash \/ Restart

Spec == Init /\ [][Next]_vars

(* The process is restarted (systemd: Restart=on-failure) and its watchdog *)
(* runs; nothing is asked of rules and contracts.                          *)
WatchdogFairness ==
  /\ WF_vars(Tick) /\ WF_vars(Query) /\ WF_vars(Restart)
  /\ \A a \in Affairs : WF_vars(Reap(a))
WatchdogSpec == Spec /\ WatchdogFairness

-----------------------------------------------------------------------------
(* Types; there is an affair as soon as there is anything about it.        *)
TypeOK ==
  /\ up \in BOOLEAN /\ crashes \in 0..MaxCrashes
  /\ status \in [Affairs -> Statuses] /\ code \in [Affairs -> Codes]
  /\ auth \in [Affairs -> Tenants \cup {NoTenant}]
  /\ age \in [Affairs -> 0..(Timeout + 1)] /\ revision \in [Affairs -> Nat]
  /\ token \in [Affairs -> Tokens \cup {NoToken}] /\ path \in [Affairs -> Paths]
  /\ triggers \subseteq Triggers /\ jobs \subseteq Affairs \X Contracts
  /\ stalled \subseteq Affairs /\ reaped \subseteq Affairs
  /\ answers \in [Affairs -> Seq(Codes \cup {200, 500})]

Answered(a, c) == \E i \in DOMAIN answers[a] : answers[a][i] = c

Listed ==
  {e \in Tenants \X Tokens :
     \E line \in UNION KeyFiles : e[1] = FirstPart[line] /\ e[2] \in Endings[line]}

(* 200 is only answered to a request for the one route there is, whose     *)
(* token ends a line of the key file that begins with the tenant named in  *)
(* the span: whatever rules, late contracts, the watchdog and restarts do  *)
(* to the span in between.  That the line is an entry is not said: the     *)
(* comment that shows the format is a line as well.                        *)
OkOnlyIfAdmitted ==
  \A a \in Affairs : Answered(a, 200) =>
    path[a] = StatusPath /\ <<auth[a], token[a]>> \in Listed

(* One request, one answer, unless the watchdog has stepped in.            *)
OneAnswerUnlessReaped ==
  \A a \in Affairs \ reaped : Len(answers[a]) =< 1

(* api_gateway/README.md lists the states in order (the code has two more, *)
(* throttling and authorized); only the watchdog leaves that order.        *)
Lifecycle ==
  {<<"none", "created">>, <<"created", "authenticating">>,
   <<"authenticating", "authenticated">>, <<"authenticating", "failed">>,
   <<"authenticated", "throttling">>, <<"throttling", "authorized">>,
   <<"authorized", "routing">>, <<"routing", "completed">>, <<"routing", "failed">>}

LifecycleKept ==
  [][\A a \in Affairs \ reaped' :
       status'[a] # status[a] => <<status[a], status'[a]>> \in Lifecycle]_vars

(* An affair the watchdog has left alone is in one pair of hands: a rule   *)
(* that is to react to its last update, a contract, or, once answered,     *)
(* nobody.  OneAnswerUnlessReaped and LifecycleKept rest on this.          *)
Doing == [validate_token |-> "authenticating", throttle_policy |-> "throttling",
          route_request |-> "routing"]

OneHand ==
  \A a \in Affairs \ reaped :
    /\ \A x \in triggers : x.affair = a =>
         /\ x.status = status[a]
         /\ \A y \in triggers : y.affair = a => y = x
         /\ \A j \in jobs : j[1] # a
    /\ \A j \in jobs : j[1] = a => Doing[j[2]] = status[a]

Unanswered ==
  \A a \in Affairs \ reaped :
    \/ status[a] = "none"
    \/ \E x \in triggers : x.affair = a
    \/ \E j \in jobs : j[1] = a
    => answers[a] = <<>>

Untouched == \A a \in Affairs : status[a] = "none" => a \notin reaped \cup stalled

(* What an update or a contract under way owes to the checks before it.    *)
Admitted(a) == <<auth[a], token[a]>> \in Listed

Grounds ==
  /\ \A x \in triggers :
       /\ x.status \in {"authenticated", "authorized", "completed"} => Admitted(x.affair)
       /\ x.status = "completed" => path[x.affair] = StatusPath
  /\ \A j \in jobs : j[2] # "validate_token" => Admitted(j[1])

(* No affair stays in between for ever: contracts may hang, rules may not  *)
(* fire and the process may die, the watchdog still brings every affair to *)
(* a terminal state, and late contracts do not keep it out of one.         *)
Settles ==
  \A a \in Affairs : status[a] = "created" ~> [](status[a] \in Terminal)

(* If rules do fire, every request is answered, unless the process dies.   *)
RulesFire == WF_vars(\E x \in triggers : React(x))
EveryAffairAnswered ==
  RulesFire => \A a \in Affairs :
    status[a] = "created" ~> answers[a] # <<>> \/ crashes > 0

(* api_gateway/README.md calls completed and failed the terminal states.   *)
TerminalIsFinal ==
  [][\A a \in Affairs : status[a] \in Terminal => status'[a] = status[a]]_vars
=============================================================================
