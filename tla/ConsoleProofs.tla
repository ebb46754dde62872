---------------------------- MODULE ConsoleProofs ----------------------------
(***************************************************************************)
(* Type correctness of Console and Guardian, and that the guardian keeps   *)
(* the right verdict on every proposed span, for any number of affairs, of *)
(* spans and of clauses.                                                   *)
(***************************************************************************)
EXTENDS Console, SequenceTheorems, TLAPS

GoalRecords ==
  [status : {"none", "received", "interpreting", "evaluated", "failed",
             "validating_constitutionality", "ready_for_execution"},
   at : {"none", "interpret", "switch", "invoke", "answered", "validate", "enforce",
         "stopped", "end"},
   wanted : {"none"} \cup DOMAIN Known \cup Unknown, unparsable : BOOLEAN,
   proposed : Seq(Proposals), validated : Seq([span : Proposals, valid : BOOLEAN]),
   clause : 1..(Len(Clauses) + 1), valid : BOOLEAN]

(* How far the affair of a goal, v, has come.  Started says that nothing   *)
(* has been checked yet.                                                   *)
Started(v) == v.validated = <<>> /\ v.clause = 1 /\ v.valid = TRUE

Verdicts(v) ==
  /\ Len(v.validated) =< Len(v.proposed)
  /\ \A i \in 1..Len(v.validated) :
       v.validated[i] = [span |-> v.proposed[i], valid |-> Passes(v.proposed[i])]

Current(v) ==
  /\ v.valid <=> \A c \in 1..(v.clause - 1) :
                   <<v.proposed[Len(v.validated) + 1], Clauses[c]>> \notin Violates
  /\ Len(v.validated) = Len(v.proposed) => v.clause = 1

Phase(v) ==
  /\ v.at \notin {"enforce", "stopped", "end"} => Started(v)
  /\ v.status = "ready_for_execution" => v.at = "end"
  /\ v.at = "end" => Len(v.validated) = Len(v.proposed)

(* What has been registered for goal g: the violations of the spans with a *)
(* verdict, and those of the clauses passed by the one being checked.      *)
Registered(g, v, registered) ==
  \A i \in Nat \ {0}, c \in DOMAIN Clauses :
    <<g, i, c>> \in registered <=>
      /\ i =< Len(v.validated) \/ (i = Len(v.validated) + 1 /\ c < v.clause)
      /\ <<v.proposed[i], Clauses[c]>> \in Violates

GoalInv(g) ==
  /\ Verdicts(goal[g]) /\ Current(goal[g]) /\ Phase(goal[g])
  /\ Registered(g, goal[g], violations)

Inv == \A g \in Goals : GoalInv(g)

LEMMA Assumed ==
  /\ \A w \in DOMAIN Known : Known[w] \in Seq(Proposals)
  /\ \A r \in Responses : r \in Seq(Proposals)
  /\ Len(Clauses) \in Nat /\ DOMAIN Clauses = 1..Len(Clauses)
BY GuardianAssumption

LEMMA TypeOfGoals == GuardianTypeOK <=>
  /\ goal \in [Goals -> GoalRecords]
  /\ violations \subseteq Goals \X (Nat \ {0}) \X DOMAIN Clauses
BY DEF GuardianTypeOK, GoalRecords

LEMMA FieldTypes ==
  ASSUME GuardianTypeOK, NEW g \in Goals
  PROVE  /\ goal[g] \in GoalRecords
         /\ goal[g].proposed \in Seq(Proposals)
         /\ goal[g].validated \in Seq([span : Proposals, valid : BOOLEAN])
         /\ Len(goal[g].validated) \in Nat /\ Len(goal[g].proposed) \in Nat
<1>1. goal[g] \in GoalRecords
  BY TypeOfGoals
<1>2. /\ goal[g].proposed \in Seq(Proposals)
      /\ goal[g].validated \in Seq([span : Proposals, valid : BOOLEAN])
  BY <1>1 DEF GoalRecords
<1> QED  BY <1>1, <1>2, LenProperties

(***************************************************************************)
(* A step of one affair.                                                   *)
(***************************************************************************)
LEMMA Step ==
  ASSUME GuardianTypeOK, Inv, NEW g \in Goals, NEW v \in GoalRecords, NEW from,
         Goes(g, from, v), violations' \subseteq Goals \X (Nat \ {0}) \X DOMAIN Clauses,
         Verdicts(v), Current(v), Phase(v), Registered(g, v, violations'),
         \A h \in Goals \ {g} : \A i, c : <<h, i, c>> \in violations' <=> <<h, i, c>> \in violations
  PROVE  GuardianTypeOK' /\ Inv'
<1>1. goal' = [goal EXCEPT ![g] = v] /\ goal \in [Goals -> GoalRecords]
  BY TypeOfGoals DEF Goes
<1>2. GuardianTypeOK'
  <2>1. goal' \in [Goals -> GoalRecords]
    BY <1>1
  <2> QED  BY <2>1 DEF GuardianTypeOK, GoalRecords
<1>3. ASSUME NEW h \in Goals PROVE GoalInv(h)'
  <2>1. CASE h = g
    <3>1. goal'[h] = v
      BY <1>1, <2>1
    <3> QED  BY <2>1, <3>1 DEF GoalInv, Verdicts, Current, Phase, Registered, Started, Passes
  <2>2. CASE h # g
    <3>1. goal'[h] = goal[h]
      BY <1>1, <2>2
    <3>2. GoalInv(h)
      BY DEF Inv
    <3> QED  BY <2>2, <3>1, <3>2
             DEF GoalInv, Verdicts, Current, Phase, Registered, Started, Passes
  <2> QED  BY <2>1, <2>2
<1> QED  BY <1>2, <1>3 DEF Inv

(* A step on nothing but where the affair is, its status, what was wanted, *)
(* proposed or has failed, before the first verdict.                       *)
LEMMA EarlyStep ==
  ASSUME GuardianTypeOK, Inv, NEW g \in Goals, NEW v \in GoalRecords, NEW from,
         Goes(g, from, v), from \notin {"enforce", "stopped", "end"}, UNCHANGED violations,
         v.validated = goal[g].validated, v.clause = goal[g].clause, v.valid = goal[g].valid,
         v.status # "ready_for_execution", v.at # "end"
  PROVE  GuardianTypeOK' /\ Inv'
<1>1. GoalInv(g) /\ goal[g] \in GoalRecords /\ goal[g].at = from
  BY TypeOfGoals DEF Inv, Goes
<1>2. Started(goal[g])
  BY <1>1 DEF GoalInv, Phase
<1>3. Len(v.validated) = 0 /\ v.clause = 1 /\ v.valid = TRUE /\ Started(v)
  BY <1>2 DEF Started
<1>4. Len(v.proposed) \in Nat
  BY DEF GoalRecords
<1>5. Verdicts(v) /\ Current(v) /\ Phase(v)
  BY <1>3, <1>4 DEF Verdicts, Current, Phase
<1>6. Registered(g, v, violations')
  <2>1. ASSUME NEW i \in Nat \ {0}, NEW c \in DOMAIN Clauses
        PROVE  /\ <<g, i, c>> \notin violations
               /\ ~(i =< Len(v.validated) \/ (i = Len(v.validated) + 1 /\ c < v.clause))
    <3>1. /\ ~(i =< 0 \/ (i = 1 /\ c < 1))
          /\ Len(goal[g].validated) = 0 /\ goal[g].clause = 1
      BY <1>2, Assumed DEF Started
    <3>2. <<g, i, c>> \in violations <=>
            /\ i =< Len(goal[g].validated)
                 \/ (i = Len(goal[g].validated) + 1 /\ c < goal[g].clause)
            /\ <<goal[g].proposed[i], Clauses[c]>> \in Violates
      BY <1>1 DEF GoalInv, Registered
    <3>3. <<g, i, c>> \notin violations
      BY <3>1, <3>2
    <3> QED  BY <1>3, <3>1, <3>3
  <2> QED  BY <2>1 DEF Registered
<1> QED  BY <1>5, <1>6, Step DEF GuardianTypeOK

LEMMA EarlyRules ==
  ASSUME GuardianTypeOK, Inv, NEW g \in Goals,
         \/ \E w \in DOMAIN Known \cup Unknown : Receive(g, w)
         \/ Interpret(g) \/ Resolve(g) \/ Invoke(g) \/ Propose(g) \/ ProposeStops(g) \/ Validate(g)
  PROVE  GuardianTypeOK' /\ Inv'
<1>g. goal[g] \in GoalRecords
  BY TypeOfGoals
<1>1. ASSUME NEW w \in DOMAIN Known \cup Unknown, Receive(g, w) PROVE GuardianTypeOK' /\ Inv'
  <2> DEFINE v == [goal[g] EXCEPT !.status = "received", !.at = "interpret", !.wanted = w]
  <2>1. /\ v \in GoalRecords /\ v.validated = goal[g].validated /\ v.clause = goal[g].clause
        /\ v.valid = goal[g].valid /\ v.status = "received" /\ v.at = "interpret"
    BY <1>g DEF GoalRecords
  <2>2. Goes(g, "none", v) /\ UNCHANGED violations
    BY <1>1 DEF Receive
  <2> HIDE DEF v
  <2> QED  BY <2>1, <2>2, EarlyStep
<1>2. CASE Interpret(g)
  <2> DEFINE v == [goal[g] EXCEPT !.status = "interpreting", !.at = "switch"]
  <2>1. /\ v \in GoalRecords /\ v.validated = goal[g].validated /\ v.clause = goal[g].clause
        /\ v.valid = goal[g].valid /\ v.status = "interpreting" /\ v.at = "switch"
    BY <1>g DEF GoalRecords
  <2>2. Goes(g, "interpret", v) /\ UNCHANGED violations
    BY <1>2 DEF Interpret
  <2> HIDE DEF v
  <2> QED  BY <2>1, <2>2, EarlyStep
<1>3. CASE Resolve(g) /\ goal[g].wanted \in DOMAIN Known
  <2> DEFINE p == Known[goal[g].wanted]
             v == [goal[g] EXCEPT !.status = "evaluated", !.at = "validate", !.proposed = p]
  <2>0. p \in Seq(Proposals)
    BY <1>3, Assumed
  <2>1. /\ v \in GoalRecords /\ v.validated = goal[g].validated /\ v.clause = goal[g].clause
        /\ v.valid = goal[g].valid /\ v.status = "evaluated" /\ v.at = "validate"
    BY <1>g, <2>0 DEF GoalRecords
  <2>2. Goes(g, "switch", v) /\ UNCHANGED violations
    BY <1>3 DEF Resolve
  <2> HIDE DEF v
  <2> QED  BY <2>1, <2>2, EarlyStep
<1>4. CASE Resolve(g) /\ goal[g].wanted \notin DOMAIN Known
  <2> DEFINE v == [goal[g] EXCEPT !.at = "invoke"]
  <2>1. /\ v \in GoalRecords /\ v.validated = goal[g].validated /\ v.clause = goal[g].clause
        /\ v.valid = goal[g].valid /\ v.status = goal[g].status /\ v.at = "invoke"
    BY <1>g DEF GoalRecords
  <2>2. Goes(g, "switch", v) /\ UNCHANGED violations
    BY <1>4 DEF Resolve
  <2>3. goal[g].status # "ready_for_execution"
    BY <2>2 DEF Goes, Inv, GoalInv, Phase
  <2> HIDE DEF v
  <2> QED  BY <2>1, <2>2, <2>3, EarlyStep
<1>5. ASSUME NEW r \in Responses, UNCHANGED violations,
             Goes(g, "invoke", [goal[g] EXCEPT !.at = "answered", !.proposed = r])
      PROVE  GuardianTypeOK' /\ Inv'
  <2> DEFINE v == [goal[g] EXCEPT !.at = "answered", !.proposed = r]
  <2>0. r \in Seq(Proposals)
    BY Assumed
  <2>1. /\ v \in GoalRecords /\ v.validated = goal[g].validated /\ v.clause = goal[g].clause
        /\ v.valid = goal[g].valid /\ v.status = goal[g].status /\ v.at = "answered"
    BY <1>g, <2>0 DEF GoalRecords
  <2>2. Goes(g, "invoke", v)
    BY <1>5
  <2>3. goal[g].status # "ready_for_execution"
    BY <2>2 DEF Goes, Inv, GoalInv, Phase
  <2> HIDE DEF v
  <2> QED  BY <1>5, <2>1, <2>2, <2>3, EarlyStep
<1>6. ASSUME UNCHANGED violations,
             Goes(g, "invoke", [goal[g] EXCEPT !.status = "failed", !.at = "answered",
                                               !.unparsable = TRUE])
      PROVE  GuardianTypeOK' /\ Inv'
  <2> DEFINE v == [goal[g] EXCEPT !.status = "failed", !.at = "answered", !.unparsable = TRUE]
  <2>1. /\ v \in GoalRecords /\ v.validated = goal[g].validated /\ v.clause = goal[g].clause
        /\ v.valid = goal[g].valid /\ v.status = "failed" /\ v.at = "answered"
    BY <1>g DEF GoalRecords
  <2>2. Goes(g, "invoke", v)
    BY <1>6
  <2> HIDE DEF v
  <2> QED  BY <1>6, <2>1, <2>2, EarlyStep
<1>7. CASE Propose(g)
  <2> DEFINE v == [goal[g] EXCEPT !.status = "evaluated", !.at = "validate"]
  <2>1. /\ v \in GoalRecords /\ v.validated = goal[g].validated /\ v.clause = goal[g].clause
        /\ v.valid = goal[g].valid /\ v.status = "evaluated" /\ v.at = "validate"
    BY <1>g DEF GoalRecords
  <2>2. Goes(g, "answered", v) /\ UNCHANGED violations
    BY <1>7 DEF Propose
  <2> HIDE DEF v
  <2> QED  BY <2>1, <2>2, EarlyStep
<1>8. CASE Validate(g)
  <2> DEFINE v == [goal[g] EXCEPT !.status = "validating_constitutionality", !.at = "enforce"]
  <2>1. /\ v \in GoalRecords /\ v.validated = goal[g].validated /\ v.clause = goal[g].clause
        /\ v.valid = goal[g].valid /\ v.status = "validating_constitutionality"
        /\ v.at = "enforce"
    BY <1>g DEF GoalRecords
  <2>2. Goes(g, "validate", v) /\ UNCHANGED violations
    BY <1>8 DEF Validate
  <2> HIDE DEF v
  <2> QED  BY <2>1, <2>2, EarlyStep
<1>9. ASSUME UNCHANGED violations,
             Goes(g, "invoke", [goal[g] EXCEPT !.at = "answered", !.unparsable = TRUE])
      PROVE  GuardianTypeOK' /\ Inv'
  <2> DEFINE v == [goal[g] EXCEPT !.at = "answered", !.unparsable = TRUE]
  <2>1. /\ v \in GoalRecords /\ v.validated = goal[g].validated /\ v.clause = goal[g].clause
        /\ v.valid = goal[g].valid /\ v.status = goal[g].status /\ v.at = "answered"
    BY <1>g DEF GoalRecords
  <2>2. Goes(g, "invoke", v)
    BY <1>9
  <2>3. goal[g].status # "ready_for_execution"
    BY <2>2 DEF Goes, Inv, GoalInv, Phase
  <2> HIDE DEF v
  <2> QED  BY <1>9, <2>1, <2>2, <2>3, EarlyStep
<1>10. CASE ProposeStops(g)
  <2> DEFINE v == [goal[g] EXCEPT !.at = "stopped"]
  <2>1. /\ v \in GoalRecords /\ v.validated = goal[g].validated /\ v.clause = goal[g].clause
        /\ v.valid = goal[g].valid /\ v.status = goal[g].status /\ v.at = "stopped"
    BY <1>g DEF GoalRecords
  <2>2. Goes(g, "answered", v) /\ UNCHANGED violations
    BY <1>10 DEF ProposeStops
  <2>3. goal[g].status # "ready_for_execution"
    BY <2>2 DEF Goes, Inv, GoalInv, Phase
  <2> HIDE DEF v
  <2> QED  BY <2>1, <2>2, <2>3, EarlyStep
<1> QED  BY <1>1, <1>2, <1>3, <1>4, <1>5, <1>6, <1>7, <1>8, <1>9, <1>10 DEF Invoke

(***************************************************************************)
(* The steps of the check.                                                 *)
(***************************************************************************)
LEMMA EnforceStep ==
  ASSUME GuardianTypeOK, Inv, NEW g \in Goals, Enforce(g)
  PROVE  GuardianTypeOK' /\ Inv'
<1> DEFINE u == goal[g]
           k == Len(u.validated)
           c == u.clause
           passed == <<u.proposed[k + 1], Clauses[c]>> \notin Violates
           v == [u EXCEPT !.clause = c + 1, !.valid = u.valid /\ passed]
<1>1. u \in GoalRecords /\ k \in Nat /\ Len(u.proposed) \in Nat /\ u.at = "enforce"
  BY FieldTypes DEF Enforce, Goes
<1>2. /\ k < Len(u.proposed) /\ c =< Len(Clauses) /\ c \in Nat \ {0}
      /\ Goes(g, "enforce", v)
      /\ violations' = IF passed THEN violations ELSE violations \cup {<<g, k + 1, c>>}
  BY <1>1, Assumed DEF Enforce, Left, Checked, GoalRecords
<1>3. GoalInv(g)
  BY DEF Inv
<1>4. /\ v.validated = u.validated /\ v.proposed = u.proposed /\ v.clause = c + 1
      /\ v.status = u.status /\ v.at = u.at
      /\ v.valid = (u.valid /\ passed)
  BY <1>1 DEF GoalRecords
<1>5. v \in GoalRecords
  <2>1. c + 1 \in 1..(Len(Clauses) + 1) /\ (u.valid /\ passed) \in BOOLEAN
    BY <1>2, Assumed
  <2> QED  BY <1>1, <2>1 DEF GoalRecords
<1> HIDE DEF v
<1>6. violations' \subseteq Goals \X (Nat \ {0}) \X DOMAIN Clauses
  BY <1>1, <1>2, Assumed, TypeOfGoals
<1>7. Verdicts(v)
  BY <1>3, <1>4 DEF GoalInv, Verdicts
<1>8. Current(v)
  <2>1. u.valid <=> \A d \in 1..(c - 1) : <<u.proposed[k + 1], Clauses[d]>> \notin Violates
    BY <1>3 DEF GoalInv, Current
  <2>2. \A d : d \in 1..((c + 1) - 1) <=> d \in 1..(c - 1) \/ d = c
    BY <1>2
  <2>3. (u.valid /\ passed)
          <=> \A d \in 1..((c + 1) - 1) : <<u.proposed[k + 1], Clauses[d]>> \notin Violates
    BY <2>1, <2>2
  <2>4. Len(v.validated) # Len(v.proposed)
    BY <1>1, <1>2, <1>4
  <2>5. v.valid <=> (u.valid /\ passed)
    BY <1>4
  <2> QED  BY <1>4, <2>3, <2>4, <2>5 DEF Current
<1>9. Phase(v)
  BY <1>1, <1>3, <1>4 DEF GoalInv, Phase
<1>10. Registered(g, v, violations')
  <2> SUFFICES ASSUME NEW i \in Nat \ {0}, NEW d \in DOMAIN Clauses
               PROVE  <<g, i, d>> \in violations' <=>
                        /\ i =< k \/ (i = k + 1 /\ d < c + 1)
                        /\ <<u.proposed[i], Clauses[d]>> \in Violates
    BY <1>4 DEF Registered
  <2>1. <<g, i, d>> \in violations <=>
          /\ i =< k \/ (i = k + 1 /\ d < c)
          /\ <<u.proposed[i], Clauses[d]>> \in Violates
    BY <1>3 DEF GoalInv, Registered
  <2>2. d \in Nat /\ (d < c + 1 <=> d < c \/ d = c)
    BY <1>2, Assumed
  <2>3. <<g, i, d>> \in violations' <=>
          <<g, i, d>> \in violations \/ (i = k + 1 /\ d = c /\ ~passed)
    BY <1>2
  <2> QED  BY <1>1, <1>2, <2>1, <2>2, <2>3
<1>11. \A h \in Goals \ {g} : \A i, d : <<h, i, d>> \in violations' <=> <<h, i, d>> \in violations
  BY <1>2
<1> QED  BY <1>2, <1>5, <1>6, <1>7, <1>8, <1>9, <1>10, <1>11, Step

LEMMA VerdictStep ==
  ASSUME GuardianTypeOK, Inv, NEW g \in Goals, Verdict(g)
  PROVE  GuardianTypeOK' /\ Inv'
<1> DEFINE u == goal[g]
           k == Len(u.validated)
           e == [span |-> u.proposed[k + 1], valid |-> u.valid]
           v == [u EXCEPT !.validated = Append(u.validated, e), !.clause = 1, !.valid = TRUE]
<1>1. /\ u \in GoalRecords /\ k \in Nat /\ Len(u.proposed) \in Nat /\ u.at = "enforce"
      /\ u.proposed \in Seq(Proposals)
      /\ u.validated \in Seq([span : Proposals, valid : BOOLEAN])
  BY FieldTypes DEF Verdict, Goes
<1>2. /\ k < Len(u.proposed) /\ u.clause > Len(Clauses) /\ u.clause = Len(Clauses) + 1
      /\ Goes(g, "enforce", v)
      /\ UNCHANGED violations
  BY <1>1, Assumed DEF Verdict, Left, Checked, GoalRecords
<1>3. GoalInv(g)
  BY DEF Inv
<1>4. e \in [span : Proposals, valid : BOOLEAN]
  BY <1>1, <1>2 DEF GoalRecords
<1>5. /\ Append(u.validated, e) \in Seq([span : Proposals, valid : BOOLEAN])
      /\ Len(Append(u.validated, e)) = k + 1
      /\ Append(u.validated, e)[k + 1] = e
      /\ \A i \in 1..k : Append(u.validated, e)[i] = u.validated[i]
  BY <1>1, <1>4
<1>6. /\ v.validated = Append(u.validated, e) /\ v.proposed = u.proposed /\ v.clause = 1
      /\ v.status = u.status /\ v.at = u.at /\ v.valid = TRUE
  BY <1>1 DEF GoalRecords
<1>7. v \in GoalRecords
  <2>1. 1 \in 1..(Len(Clauses) + 1)
    BY Assumed
  <2>2. Append(u.validated, e) \in Seq([span : Proposals, valid : BOOLEAN])
    BY <1>5
  <2> HIDE DEF e
  <2> QED  BY <1>1, <2>1, <2>2 DEF GoalRecords
<1> HIDE DEF v
<1>8. Verdicts(v)
  <2>1. u.valid <=> Passes(u.proposed[k + 1])
    <3>1. u.valid <=> \A d \in 1..(u.clause - 1) : <<u.proposed[k + 1], Clauses[d]>> \notin Violates
      BY <1>3 DEF GoalInv, Current
    <3>2. 1..(u.clause - 1) = DOMAIN Clauses
      BY <1>2, Assumed
    <3> QED  BY <3>1, <3>2 DEF Passes
  <2>2. u.valid \in BOOLEAN /\ Passes(u.proposed[k + 1]) \in BOOLEAN
    BY <1>1 DEF GoalRecords, Passes
  <2>3. u.valid = Passes(u.proposed[k + 1])
    BY <2>1, <2>2
  <2>4. \A i \in 1..k : u.validated[i] = [span |-> u.proposed[i], valid |-> Passes(u.proposed[i])]
    BY <1>3 DEF GoalInv, Verdicts
  <2>5. \A i \in 1..(k + 1) : i \in 1..k \/ i = k + 1
    BY <1>1
  <2>6. e = [span |-> u.proposed[k + 1], valid |-> Passes(u.proposed[k + 1])]
    BY <2>3
  <2>7. \A i \in 1..(k + 1) :
          Append(u.validated, e)[i] = [span |-> u.proposed[i], valid |-> Passes(u.proposed[i])]
    BY <1>5, <2>4, <2>5, <2>6
  <2>8. k + 1 =< Len(u.proposed)
    BY <1>1, <1>2
  <2> QED  BY <1>5, <1>6, <2>7, <2>8 DEF Verdicts
<1>9. Current(v)
  BY <1>6 DEF Current
<1>10. Phase(v)
  BY <1>1, <1>3, <1>6 DEF GoalInv, Phase
<1>11. Registered(g, v, violations')
  <2> SUFFICES ASSUME NEW i \in Nat \ {0}, NEW d \in DOMAIN Clauses
               PROVE  <<g, i, d>> \in violations <=>
                        /\ i =< k + 1 \/ (i = k + 2 /\ d < 1)
                        /\ <<u.proposed[i], Clauses[d]>> \in Violates
    BY <1>1, <1>2, <1>5, <1>6 DEF Registered
  <2>1. <<g, i, d>> \in violations <=>
          /\ i =< k \/ (i = k + 1 /\ d < u.clause)
          /\ <<u.proposed[i], Clauses[d]>> \in Violates
    BY <1>3 DEF GoalInv, Registered
  <2>2. d < u.clause /\ ~(d < 1)
    BY <1>2, Assumed
  <2> QED  BY <1>1, <2>1, <2>2
<1> QED  BY <1>2, <1>7, <1>8, <1>9, <1>10, <1>11, Step DEF GuardianTypeOK

LEMMA StopStep ==
  ASSUME GuardianTypeOK, Inv, NEW g \in Goals, EnforceStops(g)
  PROVE  GuardianTypeOK' /\ Inv'
<1> DEFINE u == goal[g]
           v == [u EXCEPT !.at = "stopped"]
<1>1. u \in GoalRecords
  BY FieldTypes
<1>2. Goes(g, "enforce", v) /\ UNCHANGED violations /\ u.at = "enforce"
  BY DEF EnforceStops, Goes
<1>3. GoalInv(g)
  BY DEF Inv
<1>4. /\ v.validated = u.validated /\ v.proposed = u.proposed /\ v.clause = u.clause
      /\ v.valid = u.valid /\ v.status = u.status /\ v.at = "stopped"
  BY <1>1 DEF GoalRecords
<1>5. v \in GoalRecords
  BY <1>1 DEF GoalRecords
<1> HIDE DEF v
<1>6. Verdicts(v) /\ Current(v)
  BY <1>3, <1>4 DEF GoalInv, Verdicts, Current
<1>7. Phase(v)
  BY <1>2, <1>3, <1>4 DEF GoalInv, Phase
<1>8. Registered(g, v, violations')
  BY <1>2, <1>3, <1>4 DEF GoalInv, Registered
<1> QED  BY <1>2, <1>5, <1>6, <1>7, <1>8, Step DEF GuardianTypeOK

LEMMA ReadyStep ==
  ASSUME GuardianTypeOK, Inv, NEW g \in Goals, Ready(g)
  PROVE  GuardianTypeOK' /\ Inv'
<1> DEFINE u == goal[g]
           v == [u EXCEPT !.status = "ready_for_execution", !.at = "end"]
<1>1. u \in GoalRecords /\ Len(u.validated) \in Nat /\ Len(u.proposed) \in Nat
  BY FieldTypes
<1>2. Goes(g, "enforce", v) /\ UNCHANGED violations /\ Len(u.validated) >= Len(u.proposed)
  BY <1>1 DEF Ready, Left
<1>3. GoalInv(g)
  BY DEF Inv
<1>4. /\ v.validated = u.validated /\ v.proposed = u.proposed /\ v.clause = u.clause
      /\ v.valid = u.valid /\ v.at = "end"
  BY <1>1 DEF GoalRecords
<1>5. v \in GoalRecords
  BY <1>1 DEF GoalRecords
<1> HIDE DEF v
<1>6. Verdicts(v) /\ Current(v)
  BY <1>3, <1>4 DEF GoalInv, Verdicts, Current
<1>7. Phase(v)
  BY <1>1, <1>2, <1>3, <1>4 DEF GoalInv, Verdicts, Phase
<1>8. Registered(g, v, violations')
  BY <1>2, <1>3, <1>4 DEF GoalInv, Registered
<1> QED  BY <1>2, <1>5, <1>6, <1>7, <1>8, Step DEF GuardianTypeOK

LEMMA GuardianStep ==
  ASSUME GuardianTypeOK, Inv, [GuardianNext]_guardianVars
  PROVE  GuardianTypeOK' /\ Inv'
<1>1. CASE UNCHANGED guardianVars
  <2>1. GuardianTypeOK'
    BY <1>1 DEF guardianVars, GuardianTypeOK
  <2>2. Inv'
    BY <1>1 DEF guardianVars, Inv, GoalInv, Verdicts, Current, Phase, Registered, Started, Passes
  <2> QED  BY <2>1, <2>2
<1>2. CASE GuardianNext
  BY <1>2, EarlyRules, EnforceStep, VerdictStep, StopStep, ReadyStep DEF GuardianNext, GoalRules
<1> QED  BY <1>1, <1>2

LEMMA GuardianStart ==
  ASSUME GuardianInit
  PROVE  GuardianTypeOK /\ Inv
<1> DEFINE v == [status |-> "none", at |-> "none", wanted |-> "none", unparsable |-> FALSE,
                 proposed |-> <<>>, validated |-> <<>>, clause |-> 1, valid |-> TRUE]
<1>1. goal = [g \in Goals |-> v] /\ violations = {}
  BY DEF GuardianInit
<1>2. v \in GoalRecords
  BY Assumed, EmptySeq DEF GoalRecords
<1>3. /\ v.validated = <<>> /\ v.proposed = <<>> /\ v.clause = 1 /\ v.valid = TRUE
      /\ v.at = "none" /\ v.status = "none"
  OBVIOUS
<1> HIDE DEF v
<1>4. GuardianTypeOK
  BY <1>1, <1>2, TypeOfGoals
<1>5. ASSUME NEW g \in Goals PROVE GoalInv(g)
  <2>1. goal[g] = v /\ Len(goal[g].validated) = 0 /\ Len(goal[g].proposed) = 0
    BY <1>1, <1>3, EmptySeq
  <2>2. Verdicts(goal[g]) /\ Current(goal[g]) /\ Phase(goal[g])
    BY <1>3, <2>1 DEF Verdicts, Current, Phase, Started
  <2>3. Registered(g, goal[g], violations)
    BY <1>1, <1>3, <2>1, Assumed DEF Registered
  <2> QED  BY <2>2, <2>3 DEF GoalInv
<1> QED  BY <1>4, <1>5 DEF Inv

(***************************************************************************)
(* The commands.                                                           *)
(***************************************************************************)
CommandRecords ==
  [status : {"none", "input_received", "evaluating", "completed", "failed"},
   line : Lines \cup {""}, payload : {"none", "error", "undefined", "executed", "history"}]
EvalRecords ==
  [at : {"none", "start", "execute", "finish", "end"}, tries : 0..Attempts,
   result : {"undefined", "executed"}]

CommandTypeOK ==
  /\ input \in Lines \cup {""}
  /\ command \in [Commands -> CommandRecords]
  /\ eval \in [Commands -> EvalRecords]
  /\ history \in [Commands -> {"none", "query", "end"}]

(* A command that has yet to be executed has attempts left, and one that   *)
(* has not been entered is not evaluated.                                  *)
AttemptsLeft(c) ==
  /\ command[c].status = "none" => eval[c].at = "none"
  /\ eval[c].at \in {"none", "start", "execute"} => eval[c].tries < Attempts

CommandInv == CommandTypeOK /\ \A c \in Commands : AttemptsLeft(c)

(* A step of one command, which leaves its record as m and e.              *)
LEMMA CommandStep ==
  ASSUME CommandInv, NEW c \in Commands, NEW m \in CommandRecords, NEW e \in EvalRecords,
         command' = [command EXCEPT ![c] = m], eval' = [eval EXCEPT ![c] = e],
         input' \in Lines \cup {""}, history' \in [Commands -> {"none", "query", "end"}],
         m.status = "none" => e.at = "none",
         e.at \in {"none", "start", "execute"} => e.tries < Attempts
  PROVE  CommandInv'
<1>1. CommandTypeOK'
  BY DEF CommandInv, CommandTypeOK
<1>2. ASSUME NEW d \in Commands PROVE AttemptsLeft(d)'
  <2>1. CASE d = c
    BY <2>1 DEF CommandInv, CommandTypeOK, AttemptsLeft
  <2>2. CASE d # c
    BY <2>2 DEF CommandInv, CommandTypeOK, AttemptsLeft
  <2> QED  BY <2>1, <2>2
<1> QED  BY <1>1, <1>2 DEF CommandInv

LEMMA CommandFields ==
  ASSUME CommandInv, NEW c \in Commands
  PROVE  /\ command[c] \in CommandRecords /\ eval[c] \in EvalRecords /\ AttemptsLeft(c)
         /\ command = [command EXCEPT ![c] = command[c]]
         /\ eval = [eval EXCEPT ![c] = eval[c]]
BY DEF CommandInv, CommandTypeOK

LEMMA CreateStep ==
  ASSUME CommandInv, NEW c \in Commands, NEW line \in Lines, Create(c, line),
         input' \in Lines \cup {""}, UNCHANGED history
  PROVE  CommandInv'
<1> DEFINE m == [status |-> "input_received", line |-> line, payload |-> "none"]
           e == [eval[c] EXCEPT !.at = "start"]
<1>1. m \in CommandRecords /\ m.status = "input_received"
  BY DEF CommandRecords
<1>2. e \in EvalRecords /\ e.tries < Attempts
  BY CommandFields DEF Create, EvalRecords, AttemptsLeft
<1>3. command' = [command EXCEPT ![c] = m] /\ eval' = [eval EXCEPT ![c] = e]
  BY DEF Create, CommandInv, CommandTypeOK
<1>4. history' \in [Commands -> {"none", "query", "end"}]
  BY DEF CommandInv, CommandTypeOK
<1> HIDE DEF m, e
<1> QED  BY <1>1, <1>2, <1>3, <1>4, CommandStep

LEMMA CommandRulesStep ==
  ASSUME CommandInv, NEW c \in Commands, CommandRules(c)
  PROVE  CommandInv'
<1>c. /\ command[c] \in CommandRecords /\ eval[c] \in EvalRecords /\ AttemptsLeft(c)
      /\ command = [command EXCEPT ![c] = command[c]] /\ eval = [eval EXCEPT ![c] = eval[c]]
      /\ input \in Lines \cup {""} /\ history \in [Commands -> {"none", "query", "end"}]
      /\ command \in [Commands -> CommandRecords]
  BY CommandFields DEF CommandInv, CommandTypeOK
<1>1. CASE Begin(c)
  <2> DEFINE m == [command[c] EXCEPT !.status = "evaluating"]
             e == [eval[c] EXCEPT !.at = "execute"]
  <2>1. m \in CommandRecords /\ m.status = "evaluating"
    BY <1>c DEF CommandRecords
  <2>2. e \in EvalRecords /\ e.tries < Attempts
    BY <1>1, <1>c DEF Begin, Evaluates, EvalRecords, AttemptsLeft
  <2>3. /\ command' = [command EXCEPT ![c] = m] /\ eval' = [eval EXCEPT ![c] = e]
        /\ input' = input /\ history' \in [Commands -> {"none", "query", "end"}]
    BY <1>1, <1>c DEF Begin, Evaluates
  <2> HIDE DEF m, e
  <2> QED  BY <1>c, <2>1, <2>2, <2>3, CommandStep
<1>2. CASE Execute(c)
  <2> DEFINE e == [eval[c] EXCEPT !.at = "finish", !.result = "executed"]
  <2>1. e \in EvalRecords /\ e.at = "finish" /\ command[c].status # "none"
    BY <1>2, <1>c DEF Execute, Evaluates, EvalRecords, AttemptsLeft
  <2>2. UNCHANGED <<command, input, history>> /\ eval' = [eval EXCEPT ![c] = e]
    BY <1>2 DEF Execute, Evaluates
  <2> HIDE DEF e
  <2>3. /\ command' = [command EXCEPT ![c] = command[c]]
        /\ input' \in Lines \cup {""} /\ history' \in [Commands -> {"none", "query", "end"}]
    BY <1>c, <2>2
  <2> QED  BY <1>c, <2>1, <2>2, <2>3, CommandStep
<1>3. CASE ExecuteFails(c)
  <2> DEFINE m == [command[c] EXCEPT !.status = "failed", !.payload = "error"]
             at == IF eval[c].tries + 1 < Attempts THEN "execute" ELSE "finish"
             e == [eval[c] EXCEPT !.tries = @ + 1, !.at = at]
  <2>1. m \in CommandRecords /\ m.status = "failed"
    BY <1>c DEF CommandRecords
  <2>2. eval[c].tries \in 0..Attempts /\ eval[c].tries < Attempts
    BY <1>3, <1>c DEF ExecuteFails, Evaluates, EvalRecords, AttemptsLeft
  <2>3. eval[c].tries + 1 \in 0..Attempts /\ at \in {"execute", "finish"}
    BY <2>2 DEF Attempts
  <2>4. e.tries = eval[c].tries + 1 /\ e.at = at /\ e \in EvalRecords
    BY <1>c, <2>3 DEF EvalRecords
  <2>5. e.at \in {"none", "start", "execute"} => e.tries < Attempts
    BY <2>4
  <2>6. /\ eval' = [eval EXCEPT ![c] = e] /\ input' = input /\ history' = history
        /\ \/ command' = [command EXCEPT ![c] = m]
           \/ command' = [command EXCEPT ![c] = command[c]]
    BY <1>3, <1>c DEF ExecuteFails, Evaluates
  <2>7. command[c].status # "none"
    BY <1>3, <1>c DEF ExecuteFails, Evaluates, AttemptsLeft
  <2> HIDE DEF m, e
  <2>8. CASE command' = [command EXCEPT ![c] = m]
    BY <1>c, <2>1, <2>4, <2>5, <2>6, <2>8, CommandStep
  <2>9. CASE command' = [command EXCEPT ![c] = command[c]]
    BY <1>c, <2>4, <2>5, <2>6, <2>7, <2>9, CommandStep
  <2> QED  BY <2>6, <2>8, <2>9
<1>4. CASE Finish(c)
  <2> DEFINE m == [command[c] EXCEPT !.status = "completed", !.payload = eval[c].result]
             e == [eval[c] EXCEPT !.at = "end"]
  <2>0. eval[c].result \in {"undefined", "executed"}
    BY <1>c DEF EvalRecords
  <2>1. m \in CommandRecords /\ m.status = "completed"
    BY <1>c, <2>0 DEF CommandRecords
  <2>2. e \in EvalRecords /\ e.at = "end"
    BY <1>c DEF EvalRecords
  <2>3. /\ command' = [command EXCEPT ![c] = m] /\ eval' = [eval EXCEPT ![c] = e]
        /\ input' = input /\ history' = history
    BY <1>4, <1>c DEF Finish, Evaluates
  <2> HIDE DEF m, e
  <2> QED  BY <1>c, <2>1, <2>2, <2>3, CommandStep
<1>5. CASE History(c)
  <2>1. /\ input' = input /\ history' \in [Commands -> {"none", "query", "end"}]
        /\ eval' = [eval EXCEPT ![c] = eval[c]]
    BY <1>5, <1>c DEF History
  <2>2. ASSUME NEW status \in {"completed", "failed"}, NEW payload \in {"history", "error"},
               command' = [command EXCEPT ![c].status = status, ![c].payload = payload]
        PROVE  CommandInv'
    <3> DEFINE m == [command[c] EXCEPT !.status = status, !.payload = payload]
    <3>1. m \in CommandRecords /\ m.status # "none"
      BY <1>c DEF CommandRecords
    <3>2. command' = [command EXCEPT ![c] = m]
      BY <1>c, <2>2
    <3>3. eval[c].at \in {"none", "start", "execute"} => eval[c].tries < Attempts
      BY <1>c DEF AttemptsLeft
    <3> HIDE DEF m
    <3> QED  BY <1>c, <2>1, <3>1, <3>2, <3>3, CommandStep
  <2> QED  BY <1>5, <2>2 DEF History
<1> QED  BY <1>1, <1>2, <1>3, <1>4, <1>5 DEF CommandRules

LEMMA NextStep ==
  ASSUME GuardianTypeOK, Inv, CommandInv, [Next]_vars
  PROVE  GuardianTypeOK' /\ Inv' /\ CommandInv'
<1>q. UNCHANGED consoleVars => CommandInv'
  BY DEF consoleVars, CommandInv, CommandTypeOK, AttemptsLeft
<1>1. CASE GuardianNext /\ UNCHANGED consoleVars
  BY <1>1, <1>q, GuardianStep
<1>2. ASSUME NEW line \in Lines, ReadLine(line) PROVE GuardianTypeOK' /\ Inv' /\ CommandInv'
  <2>1. CASE input' = line /\ UNCHANGED <<command, eval, history>>
    BY <1>2, <2>1, GuardianStep DEF ReadLine, CommandInv, CommandTypeOK, AttemptsLeft
  <2>2. ASSUME NEW c \in Commands, Create(c, line), UNCHANGED <<input, history>>
        PROVE  CommandInv'
    <3>1. input' \in Lines \cup {""}
      BY <2>2 DEF CommandInv, CommandTypeOK
    <3> QED  BY <2>2, <3>1, CreateStep
  <2> QED  BY <1>2, <2>1, <2>2, GuardianStep DEF ReadLine
<1>3. CASE Confirm
  <2>1. CASE UNCHANGED <<command, eval>>
    BY <1>3, <2>1, GuardianStep DEF Confirm, CommandInv, CommandTypeOK, AttemptsLeft
  <2>2. ASSUME NEW c \in Commands, Create(c, input) PROVE CommandInv'
    <3>1. input \in Lines /\ input' \in Lines \cup {""} /\ UNCHANGED history
      BY <1>3 DEF Confirm, CommandInv, CommandTypeOK
    <3> QED  BY <2>2, <3>1, CreateStep
  <2> QED  BY <1>3, <2>1, <2>2, GuardianStep DEF Confirm
<1>4. ASSUME NEW c \in Commands, CommandRules(c) PROVE GuardianTypeOK' /\ Inv' /\ CommandInv'
  <2>1. UNCHANGED guardianVars
    BY <1>4 DEF CommandRules, Begin, Execute, ExecuteFails, Finish, History, Evaluates
  <2> QED  BY <1>4, <2>1, GuardianStep, CommandRulesStep
<1>5. CASE UNCHANGED vars
  BY <1>5, <1>q, GuardianStep DEF vars
<1> QED  BY <1>1, <1>2, <1>3, <1>4, <1>5 DEF Next

LEMMA InvCorrect == Spec => [](GuardianTypeOK /\ Inv /\ CommandInv)
<1>1. Init => GuardianTypeOK /\ Inv /\ CommandInv
  <2> SUFFICES ASSUME Init PROVE GuardianTypeOK /\ Inv /\ CommandInv
    OBVIOUS
  <2>1. GuardianTypeOK /\ Inv
    BY GuardianStart DEF Init
  <2> DEFINE m == [status |-> "none", line |-> "", payload |-> "none"]
             e == [at |-> "none", tries |-> 0, result |-> "undefined"]
  <2>2. m \in CommandRecords /\ e \in EvalRecords /\ e.tries < Attempts /\ e.at = "none"
    BY DEF CommandRecords, EvalRecords, Attempts
  <2>3. /\ input = "" /\ history = [c \in Commands |-> "none"]
        /\ command = [c \in Commands |-> m] /\ eval = [c \in Commands |-> e]
    BY DEF Init
  <2> HIDE DEF m, e
  <2>4. CommandTypeOK /\ \A c \in Commands : AttemptsLeft(c)
    BY <2>2, <2>3 DEF CommandTypeOK, AttemptsLeft
  <2> QED  BY <2>1, <2>4 DEF CommandInv
<1>2. GuardianTypeOK /\ Inv /\ CommandInv /\ [Next]_vars => GuardianTypeOK' /\ Inv' /\ CommandInv'
  BY NextStep
<1> QED  BY <1>1, <1>2, PTL DEF Spec

(***************************************************************************)
(* Every variable of the REPL and of the guardian keeps its type: no       *)
(* command is tried more than twice, and no check goes past the clauses.   *)
(***************************************************************************)
THEOREM TypeCorrect == Spec => []TypeOK
<1>1. GuardianTypeOK /\ Inv /\ CommandInv => TypeOK
  BY DEF CommandInv, CommandTypeOK, CommandRecords, EvalRecords, TypeOK
<1> QED  BY <1>1, InvCorrect, PTL

(***************************************************************************)
(* A goal that is ready has the right verdict on every span, and every     *)
(* violation of it was registered and nothing else.                        *)
(***************************************************************************)
THEOREM VerdictsCorrect == Spec => []VerdictsKept
<1>1. GuardianTypeOK /\ Inv => VerdictsKept
  <2> SUFFICES ASSUME GuardianTypeOK, Inv, NEW g \in Goals,
                      goal[g].status = "ready_for_execution"
               PROVE  /\ goal[g].validated =
                           [k \in DOMAIN goal[g].proposed |->
                              [span |-> goal[g].proposed[k], valid |-> Passes(goal[g].proposed[k])]]
                      /\ \A k \in DOMAIN goal[g].proposed, c \in DOMAIN Clauses :
                           <<goal[g].proposed[k], Clauses[c]>> \in Violates
                             <=> <<g, k, c>> \in violations
    BY DEF VerdictsKept
  <2>1. /\ GoalInv(g) /\ Len(goal[g].validated) = Len(goal[g].proposed)
        /\ goal[g].proposed \in Seq(Proposals)
        /\ goal[g].validated \in Seq([span : Proposals, valid : BOOLEAN])
    BY FieldTypes DEF Inv, GoalInv, Phase
  <2>2. /\ DOMAIN goal[g].proposed = 1..Len(goal[g].proposed)
        /\ DOMAIN goal[g].validated = 1..Len(goal[g].proposed)
        /\ Len(goal[g].proposed) \in Nat
    BY <2>1, LenProperties
  <2>3. goal[g].validated =
          [k \in DOMAIN goal[g].proposed |->
             [span |-> goal[g].proposed[k], valid |-> Passes(goal[g].proposed[k])]]
    <3>1. \A k \in DOMAIN goal[g].proposed :
            goal[g].validated[k] =
              [span |-> goal[g].proposed[k], valid |-> Passes(goal[g].proposed[k])]
      BY <2>1, <2>2 DEF GoalInv, Verdicts
    <3>2. goal[g].validated = [k \in 1..Len(goal[g].proposed) |-> goal[g].validated[k]]
      BY <2>1, <2>2, LenProperties
    <3> QED  BY <2>2, <3>1, <3>2
  <2>4. ASSUME NEW k \in DOMAIN goal[g].proposed, NEW c \in DOMAIN Clauses
        PROVE  <<goal[g].proposed[k], Clauses[c]>> \in Violates <=> <<g, k, c>> \in violations
    <3>1. k \in Nat \ {0} /\ k =< Len(goal[g].validated)
      BY <2>1, <2>2
    <3> QED  BY <2>1, <3>1 DEF GoalInv, Registered
  <2> QED  BY <2>3, <2>4
<1> QED  BY <1>1, InvCorrect, PTL
=============================================================================
