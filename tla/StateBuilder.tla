---------------------------- MODULE StateBuilder ----------------------------
(***************************************************************************)
(* The state builder (src/state_builder): a rule that applies every        *)
(* tracked span to the key-value store as it arrives, and a contract that  *)
(* flushes the store and replays the timeline through that rule.  The      *)
(* cases of the rule are those of the text in state_manifest.yml.          *)
(*                                                                         *)
(* The contracts run on an engine that is not in the repository.  What is  *)
(* taken from it: rules and contracts run concurrently, one action at a    *)
(* time; retry runs its body again from the start when an action of it has *)
(* failed, and after the last attempt the contract goes on                 *)
(* (error_strategy: log_and_continue); trigger_rule_for_span returns when  *)
(* the rule is done.  A call that fails may have been carried out: a       *)
(* trigger that fails may have started the rule, which then runs with      *)
(* nobody waiting for it.                                                  *)
(*                                                                         *)
(* Spans are numbered by their place on the timeline, and what a span      *)
(* writes is its number.  Spans of types without a case, and               *)
(* permission.revoked, which deletes a key that no case sets, are "other". *)
(* What the rules report (state.updated, state.kv.failed...) is left out.  *)
(***************************************************************************)
EXTENDS Integers, Sequences

CONSTANTS
  Users, NoUser,  \* user_id of spans; it may be missing
  Rebuilds,       \* requests of state.rebuild_full
  MaxSpans,       \* bound: spans on the timeline
  MaxFaults       \* bound: calls that fail

ASSUME StateBuilderAssumption ==
  NoUser \notin Users /\ MaxSpans \in Nat /\ MaxFaults \in Nat

VARIABLES
  timeline,   \* the tracked spans
  jobs,       \* runs of the rule: for which span, by whom, where
  store,      \* the key-value store
  rebuild,    \* each rebuild: where it is, and its affair
  faults,     \* calls that have failed so far
  missing,    \* history: spans given up by the rule or the replay since the last flush
  overtaken,  \* history: profiles written over by an older one since the last flush
  calm        \* history: since the start, or the last rebuild that began alone,
              \* no two runs or rebuilds have overlapped and no call has failed

vars == <<timeline, jobs, store, rebuild, faults, missing, overtaken, calm>>

Types == {"user.profile.created", "contract.signed", "other"}
Spans == [type : Types, user : Users \cup {NoUser}]
Attempts == 3
Own == "own"

(* The keys user:U:profile, contract:C:status and user:U:contracts.        *)
EmptyStore == [profile |-> [u \in Users |-> 0], signed |-> {}, list |-> [u \in Users |-> <<>>]]

(* A run of the rule for span i: of its arrival or of a rebuild, whose     *)
(* trigger was left when trigger is not 0 but the attempt that failed.     *)
Job(i, by, trigger) ==
  [span |-> i, by |-> by, trigger |-> trigger, at |-> "attempt", tries |-> 0]

Init ==
  /\ timeline = <<>> /\ jobs = {} /\ store = EmptyStore
  /\ rebuild = [b \in Rebuilds |-> [at |-> "idle", affair |-> "none", tries |-> 0,
                                    requested |-> 0, next |-> 1, upto |-> 0]]
  /\ faults = 0 /\ missing = {} /\ overtaken = {} /\ calm = TRUE

Active(b) == rebuild[b].at \in {"flush", "query", "replay"}
Quiet == jobs = {} /\ \A b \in Rebuilds : ~Active(b)

-----------------------------------------------------------------------------
(* rule.apply_state_changing_spans.                                        *)
Profiles(u) ==
  {i \in DOMAIN timeline : timeline[i] = [type |-> "user.profile.created", user |-> u]}

SetKey(st, i) ==
  IF timeline[i].type = "user.profile.created"
  THEN [st EXCEPT !.profile[timeline[i].user] = i]
  ELSE [st EXCEPT !.signed = @ \cup {i}]

ListAppend(st, i) == [st EXCEPT !.list[timeline[i].user] = Append(@, i)]

(* The newer profiles that writing profile i takes out of the store.       *)
Overtaken(i) ==
  LET u == timeline[i].user IN
  {k \in Profiles(u) : i \in Profiles(u) /\ i < k /\ k =< store.profile[u]}

Arrive(s) ==
  /\ Len(timeline) < MaxSpans
  /\ timeline' = Append(timeline, s)
  /\ jobs' = jobs \cup {Job(Len(timeline'), Own, 0)}
  /\ calm' = (calm /\ Quiet)
  /\ UNCHANGED <<store, rebuild, faults, missing, overtaken>>

Goes(j, at) == jobs' = (jobs \ {j}) \cup {[j EXCEPT !.at = at]}
Ends(j) == jobs' = jobs \ {j}

Writes(j) ==
  /\ store' = IF j.at = "set" THEN SetKey(store, j.span) ELSE ListAppend(store, j.span)
  /\ overtaken' = overtaken \cup Overtaken(j.span)

(* A span without user_id is reported and left.                            *)
Attempt(j) ==
  /\ j.at = "attempt"
  /\ IF timeline[j.span].user = NoUser \/ timeline[j.span].type = "other" THEN Ends(j) ELSE Goes(j, "set")
  /\ UNCHANGED <<timeline, store, rebuild, faults, missing, overtaken, calm>>

Set(j) ==
  /\ j.at = "set" /\ Writes(j)
  /\ IF timeline[j.span].type = "contract.signed" THEN Goes(j, "append") ELSE Ends(j)
  /\ UNCHANGED <<timeline, rebuild, faults, missing, calm>>

ListAppends(j) ==
  /\ j.at = "append" /\ Writes(j) /\ Ends(j)
  /\ UNCHANGED <<timeline, rebuild, faults, missing, calm>>

Fault == faults < MaxFaults /\ faults' = faults + 1 /\ calm' = FALSE

(* The attempts are counted from nought. *)
FailsOnceMore(j) ==
  /\ j.at \in {"set", "append"} /\ Fault
  /\ Writes(j) \/ UNCHANGED <<store, overtaken>>
  /\ IF j.tries < Attempts
     THEN /\ jobs' = (jobs \ {j}) \cup {[j EXCEPT !.at = "set", !.tries = @ + 1]}
          /\ UNCHANGED missing
     ELSE Ends(j) /\ missing' = missing \cup {j.span}
  /\ UNCHANGED <<timeline, rebuild>>

(* After the third attempt the rule goes on, and reports state.updated.    *)
Fails(j) ==
  /\ j.at \in {"set", "append"} /\ Fault
  /\ Writes(j) \/ UNCHANGED <<store, overtaken>>
  /\ IF j.tries + 1 < Attempts
     THEN /\ jobs' = (jobs \ {j}) \cup {[j EXCEPT !.at = "set", !.tries = @ + 1]}
          /\ UNCHANGED missing
     ELSE Ends(j) /\ missing' = missing \cup {j.span}
  /\ UNCHANGED <<timeline, rebuild>>

-----------------------------------------------------------------------------
(* state.rebuild_full.                                                     *)
(* Outside the maintenance window it only reports.  A backup that fails is *)
(* logged.                                                                 *)
Request(b) ==
  /\ rebuild[b].at = "idle"
  /\ \/ /\ rebuild' = [rebuild EXCEPT ![b].at = "skipped"]
        /\ UNCHANGED calm
     \/ /\ rebuild' = [rebuild EXCEPT ![b].at = "flush", ![b].affair = "started",
                                      ![b].requested = Len(timeline)]
        /\ calm' = Quiet
  /\ UNCHANGED <<timeline, jobs, store, faults, missing, overtaken>>

Flush(b) ==
  /\ rebuild[b].at = "flush"
  /\ store' = EmptyStore /\ missing' = {} /\ overtaken' = {}
  /\ rebuild' = [rebuild EXCEPT ![b].at = "query", ![b].tries = 0]
  /\ UNCHANGED <<timeline, jobs, faults, calm>>

(* state.flush catches the failure and exits.  Whether state.rebuild_full  *)
(* sees it is not said: if so it fails the affair and tries again, three   *)
(* times in all; if not, or after that, it goes on.                        *)
FlushFails(b) ==
  /\ rebuild[b].at = "flush" /\ Fault
  /\ store' \in {store, EmptyStore}
  /\ \/ rebuild' = [rebuild EXCEPT ![b].at = "query", ![b].tries = 0]
     \/ rebuild' = [rebuild EXCEPT ![b].affair = "failed",
          ![b].at = IF rebuild[b].tries + 1 < Attempts THEN "flush" ELSE "query",
          ![b].tries = IF rebuild[b].tries + 1 < Attempts THEN @ + 1 ELSE 0]
  /\ UNCHANGED <<timeline, jobs, missing, overtaken>>

(* The history is taken up to the time of the request. *)
QueryRequested(b) ==
  /\ rebuild[b].at = "query"
  /\ rebuild' = [rebuild EXCEPT ![b].at = "replay", ![b].upto = rebuild[b].requested]
  /\ UNCHANGED <<timeline, jobs, store, faults, missing, overtaken, calm>>

Query(b) ==
  /\ rebuild[b].at = "query"
  /\ rebuild' = [rebuild EXCEPT ![b].at = "replay", ![b].upto = Len(timeline)]
  /\ UNCHANGED <<timeline, jobs, store, faults, missing, overtaken, calm>>

Waits(b) == \E j \in jobs : j.by = b /\ j.trigger = 0

(* The next span is triggered without waiting for the last. *)
TriggerAtOnce(b) ==
  /\ rebuild[b].at = "replay" /\ rebuild[b].next =< rebuild[b].upto
  /\ jobs' = jobs \cup {Job(rebuild[b].next, b, 0)}
  /\ rebuild' = [rebuild EXCEPT ![b].next = @ + 1, ![b].tries = 0]
  /\ UNCHANGED <<timeline, store, faults, missing, overtaken, calm>>

Trigger(b) ==
  /\ rebuild[b].at = "replay" /\ ~Waits(b) /\ rebuild[b].next =< rebuild[b].upto
  /\ jobs' = jobs \cup {Job(rebuild[b].next, b, 0)}
  /\ rebuild' = [rebuild EXCEPT ![b].next = @ + 1, ![b].tries = 0]
  /\ UNCHANGED <<timeline, store, faults, missing, overtaken, calm>>

TriggerFails(b) ==
  /\ rebuild[b].at = "replay" /\ ~Waits(b) /\ rebuild[b].next =< rebuild[b].upto /\ Fault
  /\ jobs' \in {jobs, jobs \cup {Job(rebuild[b].next, b, rebuild[b].tries + 1)}}
  /\ IF rebuild[b].tries + 1 < Attempts
     THEN rebuild' = [rebuild EXCEPT ![b].tries = @ + 1] /\ UNCHANGED missing
     ELSE /\ rebuild' = [rebuild EXCEPT ![b].next = @ + 1, ![b].tries = 0]
          /\ missing' = missing \cup {rebuild[b].next}
  /\ UNCHANGED <<timeline, store, overtaken>>

Complete(b) ==
  /\ rebuild[b].at = "replay" /\ ~Waits(b) /\ rebuild[b].next > rebuild[b].upto
  /\ rebuild' = [rebuild EXCEPT ![b].at = "completed", ![b].affair = "completed"]
  /\ UNCHANGED <<timeline, jobs, store, faults, missing, overtaken, calm>>

-----------------------------------------------------------------------------
Rule(j) == Attempt(j) \/ Set(j) \/ ListAppends(j) \/ Fails(j)

RebuildFull(b) ==
  \/ Request(b) \/ Flush(b) \/ FlushFails(b) \/ Query(b)
  \/ Trigger(b) \/ TriggerFails(b) \/ Complete(b)

Next ==
  \/ \E s \in Spans : Arrive(s)
  \/ \E j \in jobs : Rule(j)
  \/ \E b \in Rebuilds : RebuildFull(b)

Spec == Init /\ [][Next]_vars

-----------------------------------------------------------------------------
TypeOK ==
  /\ timeline \in Seq(Spans)
  /\ jobs \subseteq [span : DOMAIN timeline, by : Rebuilds \cup {Own},
                     trigger : 0..Attempts, at : {"attempt", "set", "append"}, tries : 0..(Attempts - 1)]
  /\ store \in [profile : [Users -> 0..Len(timeline)], signed : SUBSET DOMAIN timeline,
                list : [Users -> Seq(DOMAIN timeline)]]
  /\ rebuild \in [Rebuilds ->
       [at : {"idle", "skipped", "flush", "query", "replay", "completed"},
        affair : {"none", "started", "failed", "completed"}, tries : 0..(Attempts - 1),
        requested : 0..Len(timeline), next : 1..(Len(timeline) + 1), upto : 0..Len(timeline)]]
  /\ faults \in 0..MaxFaults /\ missing \subseteq DOMAIN timeline
  /\ overtaken \subseteq DOMAIN timeline /\ calm \in BOOLEAN

(* What the timeline says the store should hold: every span applied once,  *)
(* in order.                                                               *)
Apply(st, i) ==
  IF timeline[i].user = NoUser \/ timeline[i].type = "other" THEN st
  ELSE IF timeline[i].type = "contract.signed" THEN ListAppend(SetKey(st, i), i)
  ELSE SetKey(st, i)

Upto[i \in 0..Len(timeline)] == IF i = 0 THEN EmptyStore ELSE Apply(Upto[i - 1], i)
Projection == Upto[Len(timeline)]

(* When spans have arrived one at a time, and rebuilds have been alone,    *)
(* and no call has failed, since the start or since the last rebuild that  *)
(* began alone, then whenever nothing is under way the store is exactly    *)
(* the projection of the timeline, whatever it held before that rebuild.   *)
(* (state_builder/README.md:5 has it always be the projection, which it is *)
(* not when runs of the rule overlap.)                                     *)
StoreFaithful == calm /\ Quiet => store = Projection

(* The store has span i, and of a user's profiles that one or a newer one. *)
Reflected(i) ==
  LET s == timeline[i] IN
  \/ s.user = NoUser \/ s.type = "other"
  \/ s.type = "contract.signed" /\ i \in store.signed
     /\ \E k \in DOMAIN store.list[s.user] : store.list[s.user][k] = i
  \/ s.type = "user.profile.created"
     /\ store.profile[s.user] \in Profiles(s.user) /\ store.profile[s.user] >= i

(* When nothing is under way the store has every span but those given up   *)
(* after three attempts, and the profiles that the run of an older span    *)
(* was late enough to write over: also when rebuilds overlapped, or        *)
(* flushed the store under rules that were half done.  A contract may be   *)
(* listed more than once, and in another order than the timeline's.        *)
NothingLost ==
  Quiet => \A i \in DOMAIN timeline \ (missing \cup overtaken) : Reflected(i)
=============================================================================
