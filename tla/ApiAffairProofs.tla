--------------------------- MODULE ApiAffairProofs ---------------------------
(***************************************************************************)
(* What holds of the affairs for any number of requests, any key files,    *)
(* any timeout and any number of deaths of the process.                    *)
(***************************************************************************)
EXTENDS ApiAffair, TLAPS

(* The values that are written are of the right sort.                      *)
LEMMA Sorts ==
  /\ Triggering = {"created", "authenticated", "authorized", "completed", "failed"}
  /\ Triggering \subseteq Statuses
  /\ {"authenticating", "throttling", "routing", "none"} \subseteq Statuses \ Triggering
  /\ Contracts = {"validate_token", "throttle_policy", "route_request"}
  /\ Codes = {0, 401, 404, 503, 504}
  /\ Terminal = {"completed", "failed"}
BY DEF Terminal, Triggering, Statuses, Contracts, Codes

LEMMA TriggerSorts ==
  ASSUME TypeOK, NEW x \in triggers
  PROVE  x.affair \in Affairs /\ x.status \in Triggering /\ x.code \in Codes
BY DEF TypeOK, Triggers

LEMMA NewTrigger ==
  ASSUME TypeOK, NEW a \in Affairs, NEW s \in Triggering, NEW c \in Codes
  PROVE  /\ Trigger(a, revision[a] + 1, s, c) \in Triggers
         /\ Trigger(a, revision[a] + 1, s, c).affair = a
         /\ Trigger(a, revision[a] + 1, s, c).status = s
<1>1. revision[a] + 1 \in Nat
  BY DEF TypeOK
<1> QED
  BY <1>1 DEF Trigger, Triggers

(* What an update writes, and the rest, which most steps leave alone.      *)
SpanType ==
  /\ status \in [Affairs -> Statuses] /\ code \in [Affairs -> Codes]
  /\ age \in [Affairs -> 0..(Timeout + 1)] /\ revision \in [Affairs -> Nat]
  /\ triggers \subseteq Triggers

RestType ==
  /\ up \in BOOLEAN /\ crashes \in 0..MaxCrashes
  /\ auth \in [Affairs -> Tenants \cup {NoTenant}]
  /\ token \in [Affairs -> Tokens \cup {NoToken}] /\ path \in [Affairs -> Paths]
  /\ jobs \subseteq Affairs \X Contracts
  /\ stalled \subseteq Affairs /\ reaped \subseteq Affairs
  /\ answers \in [Affairs -> Seq(Codes \cup {200, 500})]

LEMMA TypeParts ==
  /\ TypeOK <=> SpanType /\ RestType
  /\ TypeOK' <=> SpanType' /\ RestType'
<1>1. TypeOK <=> SpanType /\ RestType
  BY Zenon DEF TypeOK, SpanType, RestType
<1>2. TypeOK' <=> SpanType' /\ RestType'
  BY Zenon DEF TypeOK, SpanType, RestType
<1> QED
  BY <1>1, <1>2

LEMMA WriteType ==
  ASSUME TypeOK, NEW a \in Affairs, NEW s \in Statuses, NEW c \in Codes, NEW spent,
         Write(a, s, c, spent)
  PROVE  SpanType'
<1>1. /\ status \in [Affairs -> Statuses] /\ code \in [Affairs -> Codes]
      /\ age \in [Affairs -> 0..(Timeout + 1)] /\ revision \in [Affairs -> Nat]
      /\ triggers \subseteq Triggers
  BY DEF TypeOK
<1>2. 0 \in 0..(Timeout + 1)
  BY ApiAffairAssumption
<1>3. triggers' \subseteq Triggers
  BY <1>1, NewTrigger DEF Write
<1>4. status' \in [Affairs -> Statuses] /\ code' \in [Affairs -> Codes]
  BY <1>1 DEF Write
<1>5. age' \in [Affairs -> 0..(Timeout + 1)] /\ revision' \in [Affairs -> Nat]
  BY <1>1, <1>2 DEF Write
<1> QED
  BY <1>3, <1>4, <1>5 DEF SpanType

(* The first three rules.                                                  *)
LEMMA StartType ==
  ASSUME TypeOK, NEW x \in triggers, NEW s, NEW d \in Statuses, NEW k \in Contracts,
         StartContract(x, s, d, k)
  PROVE  TypeOK'
<1>1. x.affair \in Affairs /\ code[x.affair] \in Codes
  BY TriggerSorts DEF TypeOK
<1>2. Write(x.affair, d, code[x.affair], {x})
  BY DEF StartContract
<1>3. SpanType'
  BY <1>1, <1>2, WriteType
<1>4. RestType
  BY TypeParts
<1>5. jobs' \subseteq Affairs \X Contracts
  BY <1>1, <1>4 DEF RestType, StartContract
<1>6. RestType'
  BY <1>4, <1>5 DEF RestType, StartContract, processVars, requestVars
<1> QED
  BY <1>3, <1>6, TypeParts

(* The three contracts, reduced to the update each ends with.              *)
Outcomes == {"authenticated", "authorized", "completed", "failed"}

LEMMA ValidateOutcome ==
  ASSUME TypeOK, NEW a \in Affairs, validate_token(a)
  PROVE  \/ Finish(a, "validate_token", "failed", 401) /\ auth' = auth
         \/ /\ Finish(a, "validate_token", "authenticated", code[a])
            /\ \E t \in Tenants :
                 /\ auth' = [auth EXCEPT ![a] = t]
                 /\ <<t, token[a]>> \in Listed
BY ApiAffairAssumption DEF validate_token, Listed

LEMMA ThrottleOutcome ==
  ASSUME TypeOK, NEW a \in Affairs, throttle_policy(a)
  PROVE  Finish(a, "throttle_policy", "authorized", code[a]) /\ auth' = auth
BY DEF throttle_policy

LEMMA RouteOutcome ==
  ASSUME TypeOK, NEW a \in Affairs, route_request(a)
  PROVE  /\ auth' = auth
         /\ \/ path[a] = StatusPath /\ Finish(a, "route_request", "completed", code[a])
            \/ \E c \in Codes : Finish(a, "route_request", "failed", c)
BY Sorts DEF route_request

(* What the last update of a contract does, part by part.                  *)
LEMMA FinishParts ==
  ASSUME TypeOK, NEW a \in Affairs, NEW k \in Contracts, NEW s \in Outcomes,
         NEW c \in Codes, Finish(a, k, s, c)
  PROVE  /\ <<a, k>> \in jobs /\ jobs' = jobs \ {<<a, k>>}
         /\ triggers' = triggers \cup {Trigger(a, revision[a] + 1, s, c)}
         /\ status' = [status EXCEPT ![a] = s]
         /\ UNCHANGED <<up, crashes, token, path, stalled, answers, reaped>>
<1>1. s \in Triggering
  BY Sorts DEF Outcomes
<1>2. triggers \ {} = triggers
  OBVIOUS
<1> QED
  BY <1>1, <1>2 DEF Finish, Write, processVars, requestVars

LEMMA FinishType ==
  ASSUME TypeOK, NEW a \in Affairs, NEW k \in Contracts, NEW s \in Outcomes,
         NEW c \in Codes, Finish(a, k, s, c),
         auth' \in [Affairs -> Tenants \cup {NoTenant}]
  PROVE  TypeOK'
<1>1. s \in Statuses
  BY Sorts DEF Outcomes
<1>2. Write(a, s, c, {})
  BY DEF Finish
<1>3. SpanType'
  BY <1>1, <1>2, WriteType
<1>4. RestType
  BY TypeParts
<1>5. jobs' \subseteq Affairs \X Contracts
  BY <1>4 DEF RestType, Finish
<1>6. RestType'
  BY <1>4, <1>5 DEF RestType, Finish, processVars, requestVars
<1> QED
  BY <1>3, <1>6, TypeParts

(* The variables keep their types.                                         *)
LEMMA TypeStep == TypeOK /\ [Next]_vars => TypeOK'
<1> SUFFICES ASSUME TypeOK, [Next]_vars PROVE TypeOK'
  OBVIOUS
<1>1. ASSUME NEW a \in Affairs, Receive(a) PROVE TypeOK'
  <2>1. "created" \in Statuses /\ 0 \in Codes /\ Write(a, "created", 0, {})
    BY <1>1, Sorts DEF Receive
  <2>2. SpanType'
    BY <2>1, WriteType
  <2>3. RestType'
    BY <1>1, TypeParts DEF RestType, Receive, processVars, requestVars
  <2> QED
    BY <2>2, <2>3, TypeParts
<1>2. ASSUME NEW x \in triggers, Authenticate(x) PROVE TypeOK'
  BY <1>2, StartType, Sorts DEF Authenticate
<1>3. ASSUME NEW x \in triggers, Throttle(x) PROVE TypeOK'
  BY <1>3, StartType, Sorts DEF Throttle
<1>4. ASSUME NEW x \in triggers, Route(x) PROVE TypeOK'
  BY <1>4, StartType, Sorts DEF Route
<1>5. ASSUME NEW x \in triggers, Respond(x) PROVE TypeOK'
  <2>1. x.affair \in Affairs /\ x.code \in Codes
    BY TriggerSorts
  <2>2. \A c \in Codes \cup {200, 500} : http_respond(x.affair, c) =>
          answers' \in [Affairs -> Seq(Codes \cup {200, 500})]
    BY <2>1 DEF TypeOK, http_respond
  <2>3. answers' \in [Affairs -> Seq(Codes \cup {200, 500})]
    BY <1>5, <2>1, <2>2 DEF Respond
  <2> QED
    BY <1>5, <2>3 DEF TypeOK, Respond, processVars, spanVars, requestVars
<1>6. ASSUME NEW a \in Affairs, validate_token(a) PROVE TypeOK'
  <2>1. auth \in [Affairs -> Tenants \cup {NoTenant}] /\ code[a] \in Codes
    BY DEF TypeOK
  <2>2. CASE Finish(a, "validate_token", "failed", 401) /\ auth' = auth
    <3>1. auth' \in [Affairs -> Tenants \cup {NoTenant}]
      BY <2>1, <2>2
    <3> QED
      BY <2>2, <3>1, FinishType, Sorts DEF Outcomes
  <2>3. ASSUME NEW t \in Tenants, auth' = [auth EXCEPT ![a] = t],
               Finish(a, "validate_token", "authenticated", code[a])
        PROVE  TypeOK'
    <3>1. auth' \in [Affairs -> Tenants \cup {NoTenant}]
      BY <2>1, <2>3
    <3> QED
      BY <2>1, <2>3, <3>1, FinishType, Sorts DEF Outcomes
  <2> QED
    BY <1>6, <2>2, <2>3, ValidateOutcome
<1>7. ASSUME NEW a \in Affairs, throttle_policy(a) PROVE TypeOK'
  <2>1. auth' \in [Affairs -> Tenants \cup {NoTenant}]
    BY SMTT(20), <1>7, ThrottleOutcome DEF TypeOK
  <2>2. code[a] \in Codes
    BY DEF TypeOK
  <2> QED
    BY <1>7, <2>1, <2>2, ThrottleOutcome, FinishType, Sorts DEF Outcomes
<1>8. ASSUME NEW a \in Affairs, route_request(a) PROVE TypeOK'
  <2>1. auth' \in [Affairs -> Tenants \cup {NoTenant}]
    BY SMTT(20), <1>8, RouteOutcome DEF TypeOK
  <2>2. code[a] \in Codes
    BY DEF TypeOK
  <2> QED
    BY <1>8, <2>1, <2>2, RouteOutcome, FinishType, Sorts DEF Outcomes
<1>9. ASSUME NEW a \in Affairs, Reap(a) PROVE TypeOK'
  <2>1. "failed" \in Statuses /\ 504 \in Codes /\ Write(a, "failed", 504, {})
    BY <1>9, Sorts DEF Reap
  <2>2. SpanType'
    BY <2>1, WriteType
  <2>3. RestType'
    BY <1>9, TypeParts DEF RestType, Reap, processVars, requestVars
  <2> QED
    BY <2>2, <2>3, TypeParts
<1>10. CASE Query
  BY <1>10 DEF TypeOK, Query, processVars, spanVars, requestVars
<1>11. CASE Tick
  <2>1. age' \in [Affairs -> 0..(Timeout + 1)]
    BY <1>11, ApiAffairAssumption DEF Tick, TypeOK
  <2> QED
    BY <1>11, <2>1 DEF TypeOK, Tick, processVars, requestVars, engineVars
<1>12. CASE Crash
  <2>1. crashes' \in 0..MaxCrashes
    BY <1>12, ApiAffairAssumption DEF Crash, TypeOK
  <2> QED
    BY <1>12, <2>1 DEF TypeOK, Crash, spanVars, requestVars
<1>13. CASE Restart
  BY <1>13 DEF TypeOK, Restart, spanVars, requestVars, engineVars
<1>14. CASE UNCHANGED vars
  BY <1>14 DEF TypeOK, vars, processVars, spanVars, requestVars, engineVars
<1> QED
  BY <1>1, <1>2, <1>3, <1>4, <1>5, <1>6, <1>7, <1>8, <1>9, <1>10, <1>11, <1>12, <1>13,
     <1>14 DEF Next, React, Run

LEMMA FinishUntouched ==
  ASSUME TypeOK, Untouched, NEW a \in Affairs, NEW k \in Contracts,
         NEW s \in Outcomes, NEW c \in Codes, Finish(a, k, s, c)
  PROVE  Untouched'
<1>1. status' = [status EXCEPT ![a] = s] /\ reaped' = reaped /\ stalled' = stalled
  BY FinishParts
<1> QED
  BY <1>1 DEF TypeOK, Untouched, Outcomes

(* The watchdog only writes to affairs there are.                          *)
LEMMA UntouchedStep == TypeOK /\ Untouched /\ [Next]_vars => Untouched'
<1> SUFFICES ASSUME TypeOK, Untouched, [Next]_vars PROVE Untouched'
  OBVIOUS
<1>1. ASSUME NEW a \in Affairs, Receive(a) PROVE Untouched'
  BY <1>1 DEF TypeOK, Untouched, Receive, Write, processVars, requestVars
<1>2. ASSUME NEW x \in triggers, Authenticate(x) PROVE Untouched'
  BY <1>2, TriggerSorts, Sorts DEF TypeOK, Untouched, Authenticate, StartContract,
     Write, processVars, requestVars
<1>3. ASSUME NEW x \in triggers, Throttle(x) PROVE Untouched'
  BY <1>3, TriggerSorts, Sorts DEF TypeOK, Untouched, Throttle, StartContract, Write,
     processVars, requestVars
<1>4. ASSUME NEW x \in triggers, Route(x) PROVE Untouched'
  BY <1>4, TriggerSorts, Sorts DEF TypeOK, Untouched, Route, StartContract, Write,
     processVars, requestVars
<1>5. ASSUME NEW x \in triggers, Respond(x) PROVE Untouched'
  BY <1>5 DEF TypeOK, Untouched, Respond, http_respond, processVars, spanVars, requestVars
<1>6. ASSUME NEW a \in Affairs, validate_token(a) PROVE Untouched'
  <2>2. code[a] \in Codes
    BY DEF TypeOK
  <2> QED
    BY <1>6, <2>2, ValidateOutcome, FinishUntouched, Sorts DEF Outcomes
<1>7. ASSUME NEW a \in Affairs, throttle_policy(a) PROVE Untouched'
  <2>2. code[a] \in Codes
    BY DEF TypeOK
  <2> QED
    BY <1>7, <2>2, ThrottleOutcome, FinishUntouched, Sorts DEF Outcomes
<1>8. ASSUME NEW a \in Affairs, route_request(a) PROVE Untouched'
  <2>2. code[a] \in Codes
    BY DEF TypeOK
  <2> QED
    BY <1>8, <2>2, RouteOutcome, FinishUntouched, Sorts DEF Outcomes
<1>9. ASSUME NEW a \in Affairs, Reap(a) PROVE Untouched'
  BY <1>9 DEF TypeOK, Untouched, Reap, Write, processVars, requestVars
<1>10. CASE Query
  BY <1>10, Sorts DEF TypeOK, Untouched, Query, Overdue, processVars, spanVars, requestVars
<1>11. CASE Tick
  BY <1>11 DEF TypeOK, Untouched, Tick, processVars, requestVars, engineVars
<1>12. CASE Crash
  BY <1>12 DEF TypeOK, Untouched, Crash, spanVars, requestVars
<1>13. CASE Restart
  BY <1>13 DEF TypeOK, Untouched, Restart, spanVars, requestVars, engineVars
<1>14. CASE UNCHANGED vars
  BY <1>14 DEF TypeOK, Untouched, vars, processVars, spanVars, requestVars, engineVars
<1> QED
  BY <1>1, <1>2, <1>3, <1>4, <1>5, <1>6, <1>7, <1>8, <1>9, <1>10, <1>11, <1>12, <1>13,
     <1>14 DEF Next, React, Run

(* OneHand, affair by affair.                                              *)
Hand(b) ==
  /\ \A x \in triggers : x.affair = b =>
       /\ x.status = status[b]
       /\ \A y \in triggers : y.affair = b => y = x
       /\ \A j \in jobs : j[1] # b
  /\ \A j \in jobs : j[1] = b => Doing[j[2]] = status[b]

(* A step that touches another affair.                                     *)
LEMMA OthersHand ==
  ASSUME NEW b, Hand(b), status'[b] = status[b],
         \A x \in triggers' : x.affair = b => x \in triggers,
         \A j \in jobs' : j[1] = b => j \in jobs
  PROVE  Hand(b)'
BY DEF Hand

(* An affair without triggers and contracts gets a trigger.                *)
LEMMA TriggeredHand ==
  ASSUME NEW b, NEW x, x.affair = b, x.status = status'[b],
         \A y \in triggers' : y.affair = b => y = x,
         \A j \in jobs' : j[1] # b
  PROVE  Hand(b)'
BY DEF Hand

LEMMA StartHand ==
  ASSUME TypeOK, OneHand, NEW x \in triggers, NEW s, NEW d \in Statuses \ Triggering,
         NEW k \in Contracts, Doing[k] = d, StartContract(x, s, d, k)
  PROVE  OneHand'
<1>1. x.affair \in Affairs
  BY TriggerSorts
<1>2. /\ triggers' = triggers \ {x} /\ jobs' = jobs \cup {<<x.affair, k>>}
      /\ status' = [status EXCEPT ![x.affair] = d] /\ reaped' = reaped
  BY DEF StartContract, Write
<1>3. status \in [Affairs -> Statuses]
  BY DEF TypeOK
<1>4. ASSUME NEW b \in Affairs \ reaped PROVE Hand(b)'
  <2>1. Hand(b)
    BY DEF OneHand, Hand
  <2>2. CASE b # x.affair
    BY <1>1, <1>2, <1>3, <2>1, <2>2, OthersHand
  <2>3. CASE b = x.affair
    <3>1. \A y \in triggers' : y.affair # b
      BY <1>2, <2>1, <2>3 DEF Hand
    <3>2. \A j \in jobs' : j[1] = b => j = <<b, k>>
      BY <1>2, <2>1, <2>3 DEF Hand
    <3>3. status'[b] = d
      BY <1>2, <1>3, <2>3
    <3> QED
      BY <3>1, <3>2, <3>3 DEF Hand
  <2> QED
    BY <2>2, <2>3
<1> QED
  BY <1>2, <1>4 DEF OneHand, Hand

LEMMA FinishHand ==
  ASSUME TypeOK, OneHand, NEW a \in Affairs, NEW k \in Contracts,
         NEW s \in Outcomes, NEW c \in Codes, Finish(a, k, s, c)
  PROVE  OneHand'
<1> DEFINE new == Trigger(a, revision[a] + 1, s, c)
<1>1. /\ <<a, k>> \in jobs /\ jobs' = jobs \ {<<a, k>>}
      /\ triggers' = triggers \cup {new}
      /\ status' = [status EXCEPT ![a] = s] /\ reaped' = reaped
  BY FinishParts
<1>2. new.affair = a /\ new.status = s
  BY NewTrigger, Sorts DEF Outcomes
<1>3. status \in [Affairs -> Statuses] /\ jobs \subseteq Affairs \X Contracts
  BY DEF TypeOK
<1> HIDE DEF new
<1>4. ASSUME NEW b \in Affairs \ reaped PROVE Hand(b)'
  <2>1. Hand(b)
    BY DEF OneHand, Hand
  <2>2. CASE b # a
    BY <1>1, <1>2, <1>3, <2>1, <2>2, OthersHand
  <2>3. CASE b = a
    <3>1. \A y \in triggers : y.affair # a
      BY <1>1, <2>1, <2>3 DEF Hand
    <3>2. \A j \in jobs : j[1] = a => j = <<a, k>>
      <4> SUFFICES ASSUME NEW j \in jobs, j[1] = a PROVE j[2] = k
        BY <1>3
      <4>1. Doing[j[2]] = status[a] /\ Doing[k] = status[a]
        BY <1>1, <2>1, <2>3 DEF Hand
      <4> QED
        BY <1>3, <4>1, Sorts DEF Doing
    <3> QED
      BY <1>1, <1>2, <1>3, <2>3, <3>1, <3>2, TriggeredHand
  <2> QED
    BY <2>2, <2>3
<1> QED
  BY <1>1, <1>4 DEF OneHand, Hand

(* Unreaped affairs stay in one pair of hands.                             *)
LEMMA OneHandStep == TypeOK /\ OneHand /\ [Next]_vars => OneHand'
<1> SUFFICES ASSUME TypeOK, OneHand, [Next]_vars PROVE OneHand'
  OBVIOUS
<1>1. ASSUME NEW a \in Affairs, Receive(a) PROVE OneHand'
  <2> DEFINE new == Trigger(a, revision[a] + 1, "created", 0)
  <2>1. /\ status[a] = "none" /\ status' = [status EXCEPT ![a] = "created"]
        /\ triggers' = triggers \cup {new} /\ jobs' = jobs /\ reaped' = reaped
    BY <1>1, Sorts DEF Receive, Write
  <2>2. new.affair = a /\ new.status = "created"
    BY NewTrigger, Sorts
  <2>3. status \in [Affairs -> Statuses] /\ jobs \subseteq Affairs \X Contracts
    BY DEF TypeOK
  <2> HIDE DEF new
  <2>4. ASSUME NEW b \in Affairs \ reaped PROVE Hand(b)'
    <3>1. Hand(b)
      BY DEF OneHand, Hand
    <3>2. CASE b # a
      BY <2>1, <2>2, <2>3, <3>1, <3>2, OthersHand
    <3>3. CASE b = a
      <4>1. \A y \in triggers : y.affair # a
        BY <2>1, <3>1, <3>3, TriggerSorts, Sorts DEF Hand
      <4>2. \A j \in jobs : j[1] # a
        BY <2>1, <2>3, <3>1, <3>3, Sorts DEF Hand, Doing
      <4> QED
        BY <2>1, <2>2, <2>3, <3>3, <4>1, <4>2, TriggeredHand
    <3> QED
      BY <3>2, <3>3
  <2> QED
    BY <2>1, <2>4 DEF OneHand, Hand
<1>2. ASSUME NEW x \in triggers, Authenticate(x) PROVE OneHand'
  BY <1>2, StartHand, Sorts DEF Authenticate, Doing
<1>3. ASSUME NEW x \in triggers, Throttle(x) PROVE OneHand'
  BY <1>3, StartHand, Sorts DEF Throttle, Doing
<1>4. ASSUME NEW x \in triggers, Route(x) PROVE OneHand'
  BY <1>4, StartHand, Sorts DEF Route, Doing
<1>5. ASSUME NEW x \in triggers, Respond(x) PROVE OneHand'
  BY <1>5 DEF TypeOK, OneHand, Respond, http_respond, processVars, spanVars, requestVars
<1>6. ASSUME NEW a \in Affairs, validate_token(a) PROVE OneHand'
  <2>2. code[a] \in Codes
    BY DEF TypeOK
  <2> QED
    BY <1>6, <2>2, ValidateOutcome, FinishHand, Sorts DEF Outcomes
<1>7. ASSUME NEW a \in Affairs, throttle_policy(a) PROVE OneHand'
  <2>2. code[a] \in Codes
    BY DEF TypeOK
  <2> QED
    BY <1>7, <2>2, ThrottleOutcome, FinishHand, Sorts DEF Outcomes
<1>8. ASSUME NEW a \in Affairs, route_request(a) PROVE OneHand'
  <2>2. code[a] \in Codes
    BY DEF TypeOK
  <2> QED
    BY <1>8, <2>2, RouteOutcome, FinishHand, Sorts DEF Outcomes
<1>9. ASSUME NEW a \in Affairs, Reap(a) PROVE OneHand'
  <2>1. /\ status' = [status EXCEPT ![a] = "failed"] /\ jobs' = jobs
        /\ triggers' = triggers \cup {Trigger(a, revision[a] + 1, "failed", 504)}
        /\ reaped' = reaped \cup {a}
    BY <1>9, Sorts DEF Reap, Write
  <2>2. Trigger(a, revision[a] + 1, "failed", 504).affair = a
    BY NewTrigger, Sorts
  <2>3. ASSUME NEW b \in Affairs \ reaped' PROVE Hand(b)'
    <3>1. Hand(b) /\ b # a
      BY <2>1, <2>3 DEF OneHand, Hand
    <3> QED
      BY <2>1, <2>2, <3>1, OthersHand DEF TypeOK
  <2> QED
    BY <2>3 DEF OneHand, Hand
<1>10. CASE Query
  BY <1>10 DEF TypeOK, OneHand, Query, processVars, spanVars, requestVars
<1>11. CASE Tick
  BY <1>11 DEF TypeOK, OneHand, Tick, processVars, requestVars, engineVars
<1>12. CASE Crash
  BY <1>12 DEF TypeOK, OneHand, Crash, spanVars, requestVars
<1>13. CASE Restart
  BY <1>13 DEF TypeOK, OneHand, Restart, spanVars, requestVars, engineVars
<1>14. CASE UNCHANGED vars
  BY <1>14 DEF TypeOK, OneHand, vars, processVars, spanVars, requestVars, engineVars
<1> QED
  BY <1>1, <1>2, <1>3, <1>4, <1>5, <1>6, <1>7, <1>8, <1>9, <1>10, <1>11, <1>12, <1>13,
     <1>14 DEF Next, React, Run

LEMMA FinishUnanswered ==
  ASSUME TypeOK, Unanswered, NEW a \in Affairs, NEW k \in Contracts,
         NEW s \in Outcomes, NEW c \in Codes, Finish(a, k, s, c)
  PROVE  Unanswered'
<1> DEFINE new == Trigger(a, revision[a] + 1, s, c)
<1>1. /\ <<a, k>> \in jobs /\ jobs' = jobs \ {<<a, k>>}
      /\ triggers' = triggers \cup {new} /\ answers' = answers
      /\ status' = [status EXCEPT ![a] = s] /\ reaped' = reaped
  BY FinishParts
<1>2. new.affair = a /\ s # "none"
  BY NewTrigger, Sorts DEF Outcomes
<1> HIDE DEF new
<1> QED
  BY <1>1, <1>2 DEF Unanswered, TypeOK

(* An affair that is being worked on has not been answered.                *)
LEMMA UnansweredStep == TypeOK /\ OneHand /\ Unanswered /\ [Next]_vars => Unanswered'
<1> SUFFICES ASSUME TypeOK, OneHand, Unanswered, [Next]_vars PROVE Unanswered'
  OBVIOUS
<1>1. ASSUME NEW a \in Affairs, Receive(a) PROVE Unanswered'
  <2>1. Trigger(a, revision[a] + 1, "created", 0).affair = a
    BY NewTrigger, Sorts
  <2> QED
    BY <1>1, <2>1, Sorts DEF TypeOK, Unanswered, Receive, Write
<1>2. ASSUME NEW x \in triggers, Authenticate(x) PROVE Unanswered'
  <2>1. x.affair \in Affairs
    BY TriggerSorts
  <2> QED
    BY <1>2, <2>1, Sorts DEF TypeOK, Unanswered, Authenticate, StartContract, Write
<1>3. ASSUME NEW x \in triggers, Throttle(x) PROVE Unanswered'
  <2>1. x.affair \in Affairs
    BY TriggerSorts
  <2> QED
    BY <1>3, <2>1, Sorts DEF TypeOK, Unanswered, Throttle, StartContract, Write
<1>4. ASSUME NEW x \in triggers, Route(x) PROVE Unanswered'
  <2>1. x.affair \in Affairs
    BY TriggerSorts
  <2> QED
    BY <1>4, <2>1, Sorts DEF TypeOK, Unanswered, Route, StartContract, Write
<1>5. ASSUME NEW x \in triggers, Respond(x) PROVE Unanswered'
  <2>1. x.affair \in Affairs /\ x.status # "none"
    BY TriggerSorts, Sorts
  <2>2. /\ triggers' = triggers \ {x} /\ jobs' = jobs /\ status' = status /\ reaped' = reaped
        /\ \A b \in Affairs : b # x.affair => answers'[b] = answers[b]
    BY <1>5 DEF Respond, http_respond, TypeOK, spanVars
  <2>3. x.affair \notin reaped =>
          /\ status[x.affair] = x.status
          /\ \A y \in triggers' : y.affair # x.affair
          /\ \A j \in jobs' : j[1] # x.affair
    BY <2>1, <2>2 DEF OneHand
  <2> QED
    BY <2>1, <2>2, <2>3 DEF Unanswered
<1>6. ASSUME NEW a \in Affairs, validate_token(a) PROVE Unanswered'
  <2>2. code[a] \in Codes
    BY DEF TypeOK
  <2> QED
    BY <1>6, <2>2, ValidateOutcome, FinishUnanswered, Sorts DEF Outcomes
<1>7. ASSUME NEW a \in Affairs, throttle_policy(a) PROVE Unanswered'
  <2>2. code[a] \in Codes
    BY DEF TypeOK
  <2> QED
    BY <1>7, <2>2, ThrottleOutcome, FinishUnanswered, Sorts DEF Outcomes
<1>8. ASSUME NEW a \in Affairs, route_request(a) PROVE Unanswered'
  <2>2. code[a] \in Codes
    BY DEF TypeOK
  <2> QED
    BY <1>8, <2>2, RouteOutcome, FinishUnanswered, Sorts DEF Outcomes
<1>9. ASSUME NEW a \in Affairs, Reap(a) PROVE Unanswered'
  <2>1. Trigger(a, revision[a] + 1, "failed", 504).affair = a
    BY NewTrigger, Sorts
  <2> QED
    BY <1>9, <2>1, Sorts DEF TypeOK, Unanswered, Reap, Write
<1>10. CASE Query
  BY <1>10 DEF TypeOK, Unanswered, Query, processVars, spanVars, requestVars
<1>11. CASE Tick
  BY <1>11 DEF TypeOK, Unanswered, Tick, processVars, requestVars, engineVars
<1>12. CASE Crash
  BY <1>12 DEF TypeOK, Unanswered, Crash, spanVars, requestVars
<1>13. CASE Restart
  BY <1>13 DEF TypeOK, Unanswered, Restart, spanVars, requestVars, engineVars
<1>14. CASE UNCHANGED vars
  BY <1>14 DEF TypeOK, Unanswered, vars, processVars, spanVars, requestVars, engineVars
<1> QED
  BY <1>1, <1>2, <1>3, <1>4, <1>5, <1>6, <1>7, <1>8, <1>9, <1>10, <1>11, <1>12, <1>13,
     <1>14 DEF Next, React, Run

(* Only http_respond adds answers, and the rule it is called by is not run *)
(* for an unreaped affair that has one.                                    *)
LEMMA RespondParts ==
  ASSUME TypeOK, NEW x \in triggers, Respond(x)
  PROVE  /\ x.affair \in Affairs
         /\ triggers' = triggers \ {x}
         /\ UNCHANGED <<up, crashes, status, code, auth, token, path, jobs, stalled, reaped>>
         /\ \E c \in Codes \cup {200, 500} :
              /\ answers' = [answers EXCEPT ![x.affair] = Append(@, c)]
              /\ c = 200 => x.status = "completed"
<1>1. x.affair \in Affairs /\ x.code \in Codes
  BY TriggerSorts
<1>2. /\ triggers' = triggers \ {x}
      /\ UNCHANGED <<up, crashes, status, code, auth, token, path, jobs, stalled, reaped>>
  BY DEF Respond, processVars, spanVars, requestVars
<1>3. \/ http_respond(x.affair, 200) /\ x.status = "completed"
      \/ http_respond(x.affair, 500)
      \/ http_respond(x.affair, x.code)
  BY DEF Respond
<1>4. \E c \in Codes \cup {200, 500} :
        http_respond(x.affair, c) /\ (c = 200 => x.status = "completed")
  <2>1. CASE http_respond(x.affair, 200) /\ x.status = "completed"
    BY <2>1
  <2>2. CASE http_respond(x.affair, 500)
    BY <2>2
  <2>3. CASE http_respond(x.affair, x.code)
    <3>1. x.code # 200
      BY <1>1 DEF Codes
    <3> QED
      BY <1>1, <2>3, <3>1
  <2> QED
    BY <1>3, <2>1, <2>2, <2>3
<1> QED
  BY ZenonT(40), <1>1, <1>2, <1>4 DEF http_respond

LEMMA OthersAnswer ==
  ASSUME TypeOK, [Next]_vars
  PROVE  answers' = answers \/ \E x \in triggers : Respond(x)
BY ZenonT(40) DEF Next, React, Run, Receive, Authenticate, Throttle, Route, StartContract, validate_token,
       throttle_policy, route_request, Finish, Reap, Query, Tick, Crash, Restart, vars

LEMMA ReapedGrows == [Next]_vars => reaped \subseteq reaped'
BY ZenonT(40) DEF Next, React, Run, Receive, Authenticate, Throttle, Route, Respond, StartContract,
       validate_token, throttle_policy, route_request, Finish, Reap, Query, Tick, Crash,
       Restart, vars

LEMMA OneAnswerStep ==
  TypeOK /\ Unanswered /\ OneAnswerUnlessReaped /\ [Next]_vars => OneAnswerUnlessReaped'
<1> SUFFICES ASSUME TypeOK, Unanswered, OneAnswerUnlessReaped, [Next]_vars
             PROVE  OneAnswerUnlessReaped'
  OBVIOUS
<1>1. reaped \subseteq reaped'
  BY ReapedGrows
<1>2. CASE answers' = answers
  BY <1>1, <1>2 DEF OneAnswerUnlessReaped
<1>3. ASSUME NEW x \in triggers, Respond(x) PROVE OneAnswerUnlessReaped'
  <2>1. PICK c \in Codes \cup {200, 500} :
          answers' = [answers EXCEPT ![x.affair] = Append(@, c)]
    BY <1>3, RespondParts
  <2>2. x.affair \in Affairs /\ reaped' = reaped
    BY <1>3, RespondParts
  <2>3. ASSUME NEW a \in Affairs \ reaped PROVE Len(answers'[a]) =< 1
    <3>1. CASE a # x.affair
      BY <2>1, <2>2, <3>1 DEF OneAnswerUnlessReaped, TypeOK
    <3>2. CASE a = x.affair
      <4>1. answers[a] = <<>>
        BY <3>2 DEF Unanswered
      <4>2. answers'[a] = Append(<<>>, c)
        BY <2>1, <2>2, <3>2, <4>1 DEF TypeOK
      <4> QED
        BY <4>2
    <3> QED
      BY <3>1, <3>2
  <2> QED
    BY <2>2, <2>3 DEF OneAnswerUnlessReaped
<1> QED
  BY <1>2, <1>3, OthersAnswer

(* Requests do not change, and who is admitted stays admitted.             *)
LEMMA AdmittedStays ==
  ASSUME TypeOK, [Next]_vars
  PROVE  /\ token' = token /\ path' = path
         /\ \A b \in Affairs : Admitted(b) => Admitted(b)'
<1>1. token' = token /\ path' = path
  BY ZenonT(40) DEF Next, React, Run, Receive, Authenticate, Throttle, Route, Respond, StartContract,
         validate_token, throttle_policy, route_request, Finish, Reap, Query, Tick, Crash,
         Restart, vars, requestVars
<1>2. auth' = auth \/ \E a \in Affairs : validate_token(a)
  BY DEF Next, React, Run, Receive, Authenticate, Throttle, Route, Respond, StartContract,
         throttle_policy, route_request, Reap, Query, Tick, Crash, Restart, vars, spanVars
<1>3. CASE auth' = auth
  BY <1>1, <1>3 DEF Admitted
<1>4. ASSUME NEW a \in Affairs, validate_token(a)
      PROVE  \A b \in Affairs : Admitted(b) => Admitted(b)'
  <2>1. auth' = auth \/ \E t \in Tenants : /\ auth' = [auth EXCEPT ![a] = t]
                                           /\ <<t, token[a]>> \in Listed
    BY <1>4, ValidateOutcome
  <2> QED
    BY ZenonT(40), <1>1, <2>1 DEF Admitted, TypeOK
<1> QED
  BY <1>1, <1>2, <1>3, <1>4

LEMMA StartGrounds ==
  ASSUME TypeOK, Grounds, NEW x \in triggers, NEW s, NEW d \in Statuses \ Triggering,
         NEW k \in Contracts, StartContract(x, s, d, k),
         k # "validate_token" => Admitted(x.affair),
         path' = path, \A b \in Affairs : Admitted(b) => Admitted(b)'
  PROVE  Grounds'
<1>1. triggers' = triggers \ {x} /\ jobs' = jobs \cup {<<x.affair, k>>}
  BY DEF StartContract, Write
<1>2. x.affair \in Affairs /\ jobs \subseteq Affairs \X Contracts
  BY TriggerSorts DEF TypeOK
<1>3. \A y \in triggers : y.affair \in Affairs
  BY TriggerSorts
<1> QED
  BY <1>1, <1>2, <1>3 DEF Grounds

LEMMA FinishGrounds ==
  ASSUME TypeOK, Grounds, NEW a \in Affairs, NEW k \in Contracts,
         NEW s \in Outcomes, NEW c \in Codes, Finish(a, k, s, c),
         s # "failed" => Admitted(a)',
         s = "completed" => path[a] = StatusPath,
         path' = path, \A b \in Affairs : Admitted(b) => Admitted(b)'
  PROVE  Grounds'
<1> DEFINE new == Trigger(a, revision[a] + 1, s, c)
<1>1. jobs' = jobs \ {<<a, k>>} /\ triggers' = triggers \cup {new}
  BY FinishParts
<1>2. new.affair = a /\ new.status = s
  BY NewTrigger, Sorts DEF Outcomes
<1> HIDE DEF new
<1>3. jobs \subseteq Affairs \X Contracts /\ \A y \in triggers : y.affair \in Affairs
  BY TriggerSorts DEF TypeOK
<1> QED
  BY <1>1, <1>2, <1>3 DEF Grounds

(* Fewer triggers and jobs owe less.                                       *)
LEMMA LessGrounds ==
  ASSUME TypeOK, Grounds, triggers' \subseteq triggers, jobs' \subseteq jobs,
         path' = path, \A b \in Affairs : Admitted(b) => Admitted(b)'
  PROVE  Grounds'
<1>1. jobs \subseteq Affairs \X Contracts /\ \A y \in triggers : y.affair \in Affairs
  BY TriggerSorts DEF TypeOK
<1> QED
  BY <1>1 DEF Grounds

(* Later stages stand on the checks of earlier ones.                       *)
LEMMA GroundsStep == TypeOK /\ Grounds /\ [Next]_vars => Grounds'
<1> SUFFICES ASSUME TypeOK, Grounds, [Next]_vars PROVE Grounds'
  OBVIOUS
<1>1. ASSUME NEW a \in Affairs, Receive(a) PROVE Grounds'
  <2> DEFINE new == Trigger(a, revision[a] + 1, "created", 0)
  <2>1. triggers' = triggers \cup {new} /\ jobs' = jobs
    BY <1>1, Sorts DEF Receive, Write
  <2>2. new.affair = a /\ new.status = "created"
    BY NewTrigger, Sorts
  <2> HIDE DEF new
  <2>3. jobs \subseteq Affairs \X Contracts /\ \A y \in triggers : y.affair \in Affairs
    BY TriggerSorts DEF TypeOK
  <2> QED
    BY <2>1, <2>2, <2>3, AdmittedStays DEF Grounds
<1>2. ASSUME NEW x \in triggers, Authenticate(x) PROVE Grounds'
  BY <1>2, StartGrounds, AdmittedStays, Sorts DEF Authenticate, Grounds, StartContract
<1>3. ASSUME NEW x \in triggers, Throttle(x) PROVE Grounds'
  BY <1>3, StartGrounds, AdmittedStays, Sorts DEF Throttle, Grounds, StartContract
<1>4. ASSUME NEW x \in triggers, Route(x) PROVE Grounds'
  BY <1>4, StartGrounds, AdmittedStays, Sorts DEF Route, Grounds, StartContract
<1>5. ASSUME NEW x \in triggers, Respond(x) PROVE Grounds'
  BY <1>5, RespondParts, LessGrounds, AdmittedStays
<1>6. ASSUME NEW a \in Affairs, validate_token(a) PROVE Grounds'
  <2>1. CASE Finish(a, "validate_token", "failed", 401)
    BY <2>1, FinishGrounds, AdmittedStays, Sorts DEF Outcomes
  <2>2. ASSUME NEW t \in Tenants, auth' = [auth EXCEPT ![a] = t],
               <<t, token[a]>> \in Listed,
               Finish(a, "validate_token", "authenticated", code[a])
        PROVE  Grounds'
    <3>1. code[a] \in Codes /\ Admitted(a)'
      BY ZenonT(40), <2>2, AdmittedStays DEF TypeOK, Admitted
    <3> QED
      BY <2>2, <3>1, FinishGrounds, AdmittedStays, Sorts DEF Outcomes
  <2> QED
    BY ZenonT(40), <1>6, <2>1, <2>2, ValidateOutcome
<1>7. ASSUME NEW a \in Affairs, throttle_policy(a) PROVE Grounds'
  <2>1. code[a] \in Codes /\ Finish(a, "throttle_policy", "authorized", code[a])
    BY <1>7, ThrottleOutcome DEF TypeOK
  <2>2. Admitted(a)
    BY <1>7, Sorts DEF Grounds, throttle_policy, Finish
  <2> QED
    BY <2>1, <2>2, FinishGrounds, AdmittedStays, Sorts DEF Outcomes
<1>8. ASSUME NEW a \in Affairs, route_request(a) PROVE Grounds'
  <2>1. Admitted(a)
    BY <1>8, Sorts DEF Grounds, route_request, Finish
  <2>2. code[a] \in Codes
    BY DEF TypeOK
  <2> QED
    BY <1>8, <2>1, <2>2, RouteOutcome, FinishGrounds, AdmittedStays, Sorts DEF Outcomes
<1>9. ASSUME NEW a \in Affairs, Reap(a) PROVE Grounds'
  <2> DEFINE new == Trigger(a, revision[a] + 1, "failed", 504)
  <2>1. triggers' = triggers \cup {new} /\ jobs' = jobs
    BY <1>9, Sorts DEF Reap, Write
  <2>2. new.affair = a /\ new.status = "failed"
    BY NewTrigger, Sorts
  <2> HIDE DEF new
  <2>3. jobs \subseteq Affairs \X Contracts /\ \A y \in triggers : y.affair \in Affairs
    BY TriggerSorts DEF TypeOK
  <2> QED
    BY <2>1, <2>2, <2>3, AdmittedStays DEF Grounds
<1>10. CASE Query
  BY <1>10, LessGrounds, AdmittedStays DEF Query
<1>11. CASE Tick
  BY <1>11, LessGrounds, AdmittedStays DEF Tick, engineVars
<1>12. CASE Crash
  BY <1>12, LessGrounds, AdmittedStays DEF Crash
<1>13. CASE Restart
  BY <1>13, LessGrounds, AdmittedStays DEF Restart, engineVars
<1>14. CASE UNCHANGED vars
  BY <1>14, LessGrounds, AdmittedStays DEF vars, engineVars
<1> QED
  BY <1>1, <1>2, <1>3, <1>4, <1>5, <1>6, <1>7, <1>8, <1>9, <1>10, <1>11, <1>12, <1>13,
     <1>14 DEF Next, React, Run

LEMMA OkStep == TypeOK /\ Grounds /\ OkOnlyIfAdmitted /\ [Next]_vars => OkOnlyIfAdmitted'
<1> SUFFICES ASSUME TypeOK, Grounds, OkOnlyIfAdmitted, [Next]_vars,
                    NEW a \in Affairs, Answered(a, 200)'
             PROVE  path'[a] = StatusPath /\ Admitted(a)'
  BY DEF OkOnlyIfAdmitted, Admitted
<1>1. path' = path /\ (Admitted(a) => Admitted(a)')
  BY AdmittedStays
<1>2. CASE Answered(a, 200)
  BY <1>1, <1>2 DEF OkOnlyIfAdmitted, Admitted
<1>3. ASSUME ~Answered(a, 200), NEW x \in triggers, Respond(x)
      PROVE  path[a] = StatusPath /\ Admitted(a)
  <2>1. PICK c \in Codes \cup {200, 500} :
          /\ answers' = [answers EXCEPT ![x.affair] = Append(@, c)]
          /\ c = 200 => x.status = "completed"
    BY SMTT(20), <1>3, RespondParts
  <2>2. PICK i \in DOMAIN answers'[a] : answers'[a][i] = 200
    BY DEF Answered
  <2>3. answers[a] \in Seq(Codes \cup {200, 500}) /\ answers \in [Affairs -> Seq(Codes \cup {200, 500})]
    BY DEF TypeOK
  <2>4. a = x.affair
    BY <1>3, <2>1, <2>2, <2>3 DEF Answered
  <2>5. answers'[a] = Append(answers[a], c)
    BY <2>1, <2>3, <2>4
  <2>6. c = 200
    BY <1>3, <2>2, <2>3, <2>5 DEF Answered
  <2> QED
    BY <2>1, <2>4, <2>6 DEF Grounds
<1>4. CASE answers' = answers
  BY <1>2, <1>4 DEF Answered
<1> QED
  BY <1>1, <1>2, <1>3, <1>4, OthersAnswer

-----------------------------------------------------------------------------
(* The inductive invariant.                                                *)
IInv == /\ TypeOK /\ Untouched /\ OneHand /\ Unanswered /\ OneAnswerUnlessReaped
        /\ Grounds /\ OkOnlyIfAdmitted

THEOREM Invariance == Spec => []IInv
<1>1. Init => IInv
  <2> SUFFICES ASSUME Init PROVE IInv
    OBVIOUS
  <2>1. TypeOK
    <3>1. 0 \in 0..(Timeout + 1) /\ 0 \in 0..MaxCrashes /\ 0 \in Codes /\ "none" \in Statuses
      BY ApiAffairAssumption, Sorts
    <3> QED
      BY <3>1 DEF Init, TypeOK
  <2>2. Untouched /\ OneHand /\ Unanswered /\ Grounds
    BY DEF Init, Untouched, OneHand, Unanswered, Grounds
  <2>3. \A a \in Affairs : answers[a] = <<>>
    BY DEF Init
  <2>4. OneAnswerUnlessReaped /\ OkOnlyIfAdmitted
    BY <2>3 DEF OneAnswerUnlessReaped, OkOnlyIfAdmitted, Answered
  <2> QED
    BY <2>1, <2>2, <2>4 DEF IInv
<1>2. IInv /\ [Next]_vars => IInv'
  BY TypeStep, UntouchedStep, OneHandStep, UnansweredStep, OneAnswerStep, GroundsStep, OkStep
  DEF IInv
<1> QED
  BY <1>1, <1>2, PTL DEF Spec

(* Type correctness of the affairs.                                        *)
THEOREM TypeCorrect == Spec => []TypeOK
<1>1. IInv => TypeOK
  BY DEF IInv
<1> QED
  BY <1>1, Invariance, PTL

(* 200 means: a known route, asked for with a token that ends a line of    *)
(* the key file, one that begins with the tenant the span names.           *)
THEOREM OkJustified == Spec => []OkOnlyIfAdmitted
<1>1. IInv => OkOnlyIfAdmitted
  BY DEF IInv
<1> QED
  BY <1>1, Invariance, PTL

(* An affair the watchdog leaves alone is answered at most once.           *)
THEOREM OneAnswer == Spec => []OneAnswerUnlessReaped
<1>1. IInv => OneAnswerUnlessReaped
  BY DEF IInv
<1> QED
  BY <1>1, Invariance, PTL

(* It follows the documented life cycle, whatever happens around it.       *)
THEOREM InOrder == Spec => LifecycleKept
<1>1. IInv /\ [Next]_vars =>
        \A a \in Affairs \ reaped' :
          status'[a] # status[a] => <<status[a], status'[a]>> \in Lifecycle
  <2> SUFFICES ASSUME IInv, [Next]_vars, NEW a \in Affairs \ reaped', status'[a] # status[a]
               PROVE  <<status[a], status'[a]>> \in Lifecycle
    OBVIOUS
  <2>1. TypeOK /\ OneHand /\ a \notin reaped
    BY ReapedGrows DEF IInv
  <2>2. status \in [Affairs -> Statuses]
    BY <2>1 DEF TypeOK
  <2>3. ASSUME NEW b \in Affairs, Receive(b) PROVE <<status[a], status'[a]>> \in Lifecycle
    BY <2>2, <2>3 DEF Receive, Write, Lifecycle
  <2>4. ASSUME NEW x \in triggers, NEW s, NEW d, NEW k, StartContract(x, s, d, k),
               <<s, d>> \in Lifecycle
        PROVE  <<status[a], status'[a]>> \in Lifecycle
    <3>1. status' = [status EXCEPT ![x.affair] = d] /\ x.status = s
      BY <2>4 DEF StartContract, Write
    <3>2. x.affair = a
      BY <2>2, <3>1
    <3>3. status[a] = s
      BY <2>1, <3>1, <3>2 DEF OneHand
    <3> QED
      BY <2>2, <2>4, <3>1, <3>2, <3>3
  <2>5. ASSUME NEW x \in triggers, Authenticate(x) \/ Throttle(x) \/ Route(x)
        PROVE  <<status[a], status'[a]>> \in Lifecycle
    BY <2>4, <2>5 DEF Authenticate, Throttle, Route, Lifecycle
  <2>6. ASSUME NEW b \in Affairs, NEW k \in Contracts, NEW s \in Outcomes, NEW c \in Codes,
               Finish(b, k, s, c), <<Doing[k], s>> \in Lifecycle
        PROVE  <<status[a], status'[a]>> \in Lifecycle
    <3>1. <<b, k>> \in jobs /\ status' = [status EXCEPT ![b] = s]
      BY <2>1, <2>6, FinishParts
    <3>2. b = a
      BY <2>2, <3>1
    <3>3. Doing[k] = status[a]
      BY <2>1, <3>1, <3>2 DEF OneHand
    <3> QED
      BY <2>2, <2>6, <3>1, <3>2, <3>3
  <2>7. ASSUME NEW b \in Affairs, Run(b) PROVE <<status[a], status'[a]>> \in Lifecycle
    <3>1. code[b] \in Codes
      BY <2>1 DEF TypeOK
    <3>2. CASE validate_token(b)
      BY <2>1, <2>6, <3>1, <3>2, ValidateOutcome, Sorts DEF Outcomes, Doing, Lifecycle
    <3>3. CASE throttle_policy(b)
      BY <2>1, <2>6, <3>1, <3>3, ThrottleOutcome, Sorts DEF Outcomes, Doing, Lifecycle
    <3>4. CASE route_request(b)
      BY <2>1, <2>6, <3>1, <3>4, RouteOutcome, Sorts DEF Outcomes, Doing, Lifecycle
    <3> QED
      BY <2>7, <3>2, <3>3, <3>4 DEF Run
  <2>8. ASSUME NEW b \in Affairs, Reap(b) PROVE FALSE
    BY <2>2, <2>8 DEF Reap, Write
  <2>9. ASSUME NEW x \in triggers, Respond(x) PROVE FALSE
    BY <2>9 DEF Respond, spanVars
  <2>10. CASE Query \/ Tick \/ Crash \/ Restart \/ UNCHANGED vars
    BY <2>10 DEF Query, Tick, Crash, Restart, vars, spanVars
  <2> QED
    BY <2>3, <2>5, <2>7, <2>8, <2>9, <2>10 DEF Next, React
<1> QED
  BY <1>1, Invariance, PTL DEF Spec, LifecycleKept
=============================================================================
