---------------------------- MODULE MCDispatcher ----------------------------
(* A small instance of Dispatcher for TLC: affairs meet at the watchdog    *)
(* only, so that one request is enough; the other affair is of its result, *)
(* and starts when the first, one of the core, has nothing left to do, and *)
(* runtimes and watchdog are as at the start.  Who asks matters for a      *)
(* restart only.                                                           *)
EXTENDS Dispatcher

CONSTANTS a1, a2

AsAtTheStart ==
  /\ \A r \in Runtimes : runtime[r] = "up" /\ published[r] = "up" /\ queue[a1][r] = 0
  /\ watch = Again /\ \A j \in Steps : jobs[a1][j] = 0

MCNext ==
  /\ Next
  /\ \A a \in Affairs \ {a1} :
       affair[a].status = "none" /\ affair'[a].status # "none" =>
         results > results' /\ affair[a1].kind = "core" /\ AsAtTheStart
  /\ affair'[a1].kind # "restart" => affair'[a1].tenant = "other"
MCSpec == Init /\ [][MCNext]_vars /\ Fairness
=============================================================================
