------------------------------ MODULE Guardian ------------------------------
(***************************************************************************)
(* The LLM guardian (src/llm_guardian) and the constitution: a goal        *)
(* becomes a goal_affair, is turned into spans by a table or by a language *)
(* model, and every proposed span is held against every clause.            *)
(*                                                                         *)
(* The rules run on an engine that is not in the repository; see           *)
(* Dispatcher.  Here each update matches at most one rule, and the rules   *)
(* of one affair follow one another, so that an affair has one counter.    *)
(* As there, an action that fails and has no on_failure stops its contract *)
(* and the rule that called it, and updates of spans do not fail.          *)
(***************************************************************************)
EXTENDS Integers, Sequences

CONSTANTS
  Goals,        \* identities of goal_affair spans
  Known,        \* goals the table knows, with the spans it proposes
  Unknown,      \* other goals
  Responses,    \* lists of spans the language model may propose
  Clauses,      \* the clauses of the constitution, in order
  Violates      \* which spans violate which clauses

Proposals == UNION {{s[i] : i \in DOMAIN s} : s \in Responses \cup {Known[k] : k \in DOMAIN Known}}

ASSUME GuardianAssumption ==
  /\ Unknown \cap DOMAIN Known = {}
  /\ \A s \in Responses \cup {Known[k] : k \in DOMAIN Known} : s \in Seq(Proposals)
  /\ Clauses \in Seq({Clauses[i] : i \in DOMAIN Clauses})

VARIABLES
  goal,         \* the goal_affair spans, and where the rules are with them
  violations    \* what constitution.register_violation was told

guardianVars == <<goal, violations>>

GuardianInit ==
  /\ goal = [g \in Goals |-> [status |-> "none", at |-> "none", wanted |-> "none", unparsable |-> FALSE,
                              proposed |-> <<>>, validated |-> <<>>, clause |-> 1, valid |-> TRUE]]
  /\ violations = {}

Goes(g, from, v) == goal[g].at = from /\ goal' = [goal EXCEPT ![g] = v]

(* rule.instantiate_goal_affair.                                           *)
Receive(g, wanted) ==
  /\ Goes(g, "none", [goal[g] EXCEPT !.status = "received", !.at = "interpret", !.wanted = wanted])
  /\ UNCHANGED violations

(* rule.interpret_received_goals.                                          *)
Interpret(g) ==
  /\ Goes(g, "interpret", [goal[g] EXCEPT !.status = "interpreting", !.at = "switch"])
  /\ UNCHANGED violations

Resolve(g) ==
  /\ Goes(g, "switch",
       IF goal[g].wanted \in DOMAIN Known
       THEN [goal[g] EXCEPT !.status = "evaluated", !.at = "validate", !.proposed = Known[goal[g].wanted]]
       ELSE [goal[g] EXCEPT !.at = "invoke"])
  /\ UNCHANGED violations

(* llm_guardian.fallback_openai.  The model answers with spans, or with a  *)
(* text that is no JSON, or fails; the branch of the failure has no exit,  *)
(* and the failed affair goes on without a response.                       *)
Invoke(g) ==
  /\ \/ \E r \in Responses : Goes(g, "invoke", [goal[g] EXCEPT !.at = "answered", !.proposed = r])
     \/ Goes(g, "invoke", [goal[g] EXCEPT !.at = "answered", !.unparsable = TRUE])
     \/ Goes(g, "invoke", [goal[g] EXCEPT !.status = "failed", !.at = "answered", !.unparsable = TRUE])
  /\ UNCHANGED violations

(* What JSON_PARSE makes of no response is not said: nothing, and the      *)
(* failed affair is evaluated all the same, or it fails.                   *)
Propose(g) ==
  /\ goal[g].unparsable => goal[g].status = "failed"
  /\ Goes(g, "answered", [goal[g] EXCEPT !.status = "evaluated", !.at = "validate"])
  /\ UNCHANGED violations

(* JSON_PARSE fails: the affair stays as it is. *)
ProposeStops(g) ==
  /\ goal[g].unparsable
  /\ Goes(g, "answered", [goal[g] EXCEPT !.at = "stopped"])
  /\ UNCHANGED violations

(* rule.check_proposed_spans_against_constitution.                         *)
Validate(g) ==
  /\ Goes(g, "validate", [goal[g] EXCEPT !.status = "validating_constitutionality", !.at = "enforce"])
  /\ UNCHANGED violations

Checked(g) == goal[g].proposed[Len(goal[g].validated) + 1]
Left(g) == Len(goal[g].validated) < Len(goal[g].proposed)

(* Every clause decides anew: a span is what the last one says. *)
EnforceLast(g) ==
  LET c == goal[g].clause
      passed == <<Checked(g), Clauses[c]>> \notin Violates IN
  /\ Left(g) /\ c =< Len(Clauses)
  /\ Goes(g, "enforce", [goal[g] EXCEPT !.clause = c + 1, !.valid = passed])
  /\ violations' = IF passed THEN violations
                   ELSE violations \cup {<<g, Len(goal[g].validated) + 1, c>>}

(* constitution.enforce, one clause.                                       *)
Enforce(g) ==
  LET c == goal[g].clause
      passed == <<Checked(g), Clauses[c]>> \notin Violates IN
  /\ Left(g) /\ c =< Len(Clauses)
  /\ Goes(g, "enforce", [goal[g] EXCEPT !.clause = c + 1, !.valid = @ /\ passed])
  /\ violations' = IF passed THEN violations
                   ELSE violations \cup {<<g, Len(goal[g].validated) + 1, c>>}

(* Its actions and those of constitution.register_violation have no        *)
(* on_failure: the constitution cannot be read, a rule not be evaluated,   *)
(* or nobody notified, and neither the other clauses nor the other spans   *)
(* are looked at.                                                          *)
EnforceStops(g) ==
  /\ Left(g)
  /\ Goes(g, "enforce", [goal[g] EXCEPT !.at = "stopped"])
  /\ UNCHANGED violations

(* It returns the span with a flag, which is put on the list.              *)
Verdict(g) ==
  /\ Left(g) /\ goal[g].clause > Len(Clauses)
  /\ Goes(g, "enforce", [goal[g] EXCEPT
       !.validated = Append(@, [span |-> Checked(g), valid |-> goal[g].valid]),
       !.clause = 1, !.valid = TRUE])
  /\ UNCHANGED violations

Ready(g) ==
  /\ ~Left(g)
  /\ Goes(g, "enforce", [goal[g] EXCEPT !.status = "ready_for_execution", !.at = "end"])
  /\ UNCHANGED violations

GoalRules(g) ==
  \/ Interpret(g) \/ Resolve(g) \/ Invoke(g) \/ Propose(g) \/ ProposeStops(g)
  \/ Validate(g) \/ Enforce(g) \/ EnforceStops(g) \/ Verdict(g) \/ Ready(g)

GuardianNext ==
  \E g \in Goals : GoalRules(g) \/ \E w \in DOMAIN Known \cup Unknown : Receive(g, w)

-----------------------------------------------------------------------------
GuardianTypeOK ==
  /\ goal \in [Goals ->
       [status : {"none", "received", "interpreting", "evaluated", "failed",
                  "validating_constitutionality", "ready_for_execution"},
        at : {"none", "interpret", "switch", "invoke", "answered", "validate", "enforce",
              "stopped", "end"},
        wanted : {"none"} \cup DOMAIN Known \cup Unknown, unparsable : BOOLEAN,
        proposed : Seq(Proposals), validated : Seq([span : Proposals, valid : BOOLEAN]),
        clause : 1..(Len(Clauses) + 1), valid : BOOLEAN]]
  /\ violations \subseteq Goals \X (Nat \ {0}) \X DOMAIN Clauses

Passes(span) == \A c \in DOMAIN Clauses : <<span, Clauses[c]>> \notin Violates

(* When an affair is ready, there is a verdict on every proposed span, in  *)
(* the order proposed; the span is valid iff it violates no clause, not    *)
(* just the last one looked at; and what was registered for the affair is  *)
(* each violation of each span, whatever other affairs do meanwhile.       *)
VerdictsKept ==
  \A g \in Goals : goal[g].status = "ready_for_execution" =>
    /\ goal[g].validated =
         [k \in DOMAIN goal[g].proposed |->
            [span |-> goal[g].proposed[k], valid |-> Passes(goal[g].proposed[k])]]
    /\ \A k \in DOMAIN goal[g].proposed, c \in DOMAIN Clauses :
         <<goal[g].proposed[k], Clauses[c]>> \in Violates <=> <<g, k, c>> \in violations
=============================================================================
