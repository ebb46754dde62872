------------------------------ MODULE Console ------------------------------
(***************************************************************************)
(* The REPL (src/sovereign_repl): a line becomes a console_affair, which   *)
(* one rule evaluates through the guardian and, if it is "history",        *)
(* another rule answers at the same time.  The loop does not wait for      *)
(* either.  Goals come in meanwhile (Guardian).  The contract the rule     *)
(* calls, llm_guardian.interpret_and_execute, is nowhere defined: it       *)
(* succeeds or fails.  The rules that print and measure wait for types of  *)
(* span that nobody makes.                                                 *)
(***************************************************************************)
EXTENDS Guardian

CONSTANTS Commands   \* identities of console_affair spans

VARIABLES
  input,      \* the line read and not yet confirmed, or ""
  command,    \* the console_affair spans: status, line, payload
  eval,       \* where rule.eval_console_commands is with each
  history     \* where rule.handle_history_command is with each

consoleVars == <<input, command, eval, history>>
vars == <<guardianVars, consoleVars>>

Dangerous == {"state.flush", "state.rebuild_full", "selfheal"}
Lines == {"history", "state.flush", "help"}
Attempts == 2

Init ==
  /\ GuardianInit
  /\ input = ""
  /\ command = [c \in Commands |-> [status |-> "none", line |-> "", payload |-> "none"]]
  /\ eval = [c \in Commands |-> [at |-> "none", tries |-> 0, result |-> "undefined"]]
  /\ history = [c \in Commands |-> "none"]

-----------------------------------------------------------------------------
(* repl.entry.  A line that cannot be read is read again.                  *)
Create(c, line) ==
  /\ command[c].status = "none"
  /\ command' = [command EXCEPT ![c] = [status |-> "input_received", line |-> line, payload |-> "none"]]
  /\ eval' = [eval EXCEPT ![c].at = "start"]

ReadLine(line) ==
  /\ input = ""
  /\ \/ line \in Dangerous /\ input' = line /\ UNCHANGED <<command, eval>>
     \/ line \notin Dangerous /\ (\E c \in Commands : Create(c, line)) /\ UNCHANGED input
  /\ UNCHANGED <<guardianVars, history>>

Confirm ==
  /\ input # "" /\ input' = ""
  /\ (\E c \in Commands : Create(c, input)) \/ UNCHANGED <<command, eval>>
  /\ UNCHANGED <<guardianVars, history>>

-----------------------------------------------------------------------------
(* rule.eval_console_commands.                                             *)
Evaluates(c, from, e) ==
  /\ eval[c].at = from /\ eval' = [eval EXCEPT ![c] = e]
  /\ UNCHANGED <<guardianVars, input>>

Begin(c) ==
  /\ Evaluates(c, "start", [eval[c] EXCEPT !.at = "execute"])
  /\ command' = [command EXCEPT ![c].status = "evaluating"]
  /\ history' = [history EXCEPT ![c] = IF command[c].line = "history" THEN "query" ELSE @]

Execute(c) ==
  /\ Evaluates(c, "execute", [eval[c] EXCEPT !.at = "finish", !.result = "executed"])
  /\ UNCHANGED <<command, history>>

(* A command whose attempts have failed is put back to be evaluated. *)
ExecuteFailsRequeued(c) ==
  /\ Evaluates(c, "execute",
       IF eval[c].tries + 1 < Attempts THEN [eval[c] EXCEPT !.tries = @ + 1]
       ELSE [eval[c] EXCEPT !.tries = 0, !.at = "start"])
  /\ command' = [command EXCEPT ![c].status =
       IF eval[c].tries + 1 < Attempts THEN "failed" ELSE "input_received"]
  /\ UNCHANGED history

(* One attempt too many. *)
ExecuteFailsOnceMore(c) ==
  /\ Evaluates(c, "execute", [eval[c] EXCEPT !.tries = @ + 1,
       !.at = IF eval[c].tries =< Attempts THEN "execute" ELSE "finish"])
  /\ command' = [command EXCEPT ![c].status = "failed", ![c].payload = "error"]
  /\ UNCHANGED history

(* The affair is not updated when diagnostics.run, which is called before, *)
(* fails too.  Either way the attempt has failed, and is made again.       *)
ExecuteFails(c) ==
  /\ Evaluates(c, "execute", [eval[c] EXCEPT !.tries = @ + 1,
       !.at = IF eval[c].tries + 1 < Attempts THEN "execute" ELSE "finish"])
  /\ \/ command' = [command EXCEPT ![c].status = "failed", ![c].payload = "error"]
     \/ UNCHANGED command
  /\ UNCHANGED history

(* Also when every attempt has failed.                                     *)
Finish(c) ==
  /\ Evaluates(c, "finish", [eval[c] EXCEPT !.at = "end"])
  /\ command' = [command EXCEPT ![c].status = "completed", ![c].payload = eval[c].result]
  /\ UNCHANGED history

(* rule.handle_history_command.                                            *)
History(c) ==
  /\ history[c] = "query" /\ history' = [history EXCEPT ![c] = "end"]
  /\ \/ command' = [command EXCEPT ![c].status = "completed", ![c].payload = "history"]
     \/ command' = [command EXCEPT ![c].status = "failed", ![c].payload = "error"]
  /\ UNCHANGED <<guardianVars, input, eval>>

-----------------------------------------------------------------------------
CommandRules(c) == Begin(c) \/ Execute(c) \/ ExecuteFails(c) \/ Finish(c) \/ History(c)

Next ==
  \/ GuardianNext /\ UNCHANGED consoleVars
  \/ (\E line \in Lines : ReadLine(line)) \/ Confirm
  \/ \E c \in Commands : CommandRules(c)

Spec == Init /\ [][Next]_vars

(* The engine runs the rules that have been matched.  Nobody has to type.  *)
Fairness ==
  /\ \A g \in Goals : WF_vars(GoalRules(g) /\ UNCHANGED consoleVars)
  /\ \A c \in Commands :
       WF_vars(History(c)) /\ WF_vars(Begin(c) \/ Execute(c) \/ ExecuteFails(c) \/ Finish(c))

FairSpec == Spec /\ Fairness

-----------------------------------------------------------------------------
TypeOK ==
  /\ GuardianTypeOK
  /\ input \in Lines \cup {""}
  /\ command \in [Commands -> [status : {"none", "input_received", "evaluating", "completed", "failed"},
                               line : Lines \cup {""},
                               payload : {"none", "error", "undefined", "executed", "history"}]]
  /\ eval \in [Commands -> [at : {"none", "start", "execute", "finish", "end"},
                            tries : 0..Attempts, result : {"undefined", "executed"}]]
  /\ history \in [Commands -> {"none", "query", "end"}]

(* Every goal becomes ready with its verdicts, also when the model failed, *)
(* unless its rule was stopped by one of the failures that have no         *)
(* on_failure (an answer that is no JSON, an enforcement that fails): such *)
(* a goal stays for ever in the status it had.  Every command comes to     *)
(* rest in a final status, whatever fails (though "completed" may follow   *)
(* "failed").                                                              *)
Stopped(g) ==
  /\ goal[g].at = "stopped"
  /\ \/ goal[g].status \in {"interpreting", "failed"} /\ goal[g].unparsable
     \/ goal[g].status = "validating_constitutionality" /\ Left(g)

EveryIntentEnds ==
  /\ \A g \in Goals :
       goal[g].status = "received" ~> (goal[g].status = "ready_for_execution" \/ []Stopped(g))
  /\ \A c \in Commands :
       command[c].status = "input_received" ~> [](command[c].status \in {"completed", "failed"})
=============================================================================
