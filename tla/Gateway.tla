------------------------------ MODULE Gateway ------------------------------
(***************************************************************************)
(* The HTTP gateway, gateway/runtime/server.go: one goroutine per request  *)
(* running handler, one goroutine running heartbeatLoop, and the timeline  *)
(* file timeline/requests.jsonl that all of them append to under           *)
(* timelineMu.  The process may die at any step and be started again.      *)
(*                                                                         *)
(* A span is [kind, of]: the kind is the span's "type", except that the    *)
(* two fallback spans are told apart by their "reason".  `of' names the    *)
(* request (or the number of the heartbeat) the span is about; the file    *)
(* itself does not carry it for fallback spans.                            *)
(***************************************************************************)
EXTENDS Integers, Sequences, FiniteSets

CONSTANTS
  Requests,     \* the connections the server may ever accept
  Tenants, Apps, Keys,
  NoKey,        \* the key of a request without an "Authorization: Bearer" header
  ShortPath,    \* what is asked by a URL with fewer than two path segments
  Configs,      \* what config/tenants.json may hold, as sets of <<tenant, app, key>>
  Heartbeat,    \* the goroutine of heartbeatLoop
  Nobody,       \* no holder of timelineMu
  MaxLives,     \* bound: how often the process is started
  MaxBeats      \* bound: how many heartbeats are sent

Writers == Requests \cup {Heartbeat}
Asks == (Tenants \X Apps \X (Keys \cup {NoKey})) \cup {ShortPath}
FallbackKinds == {"missing_app", "app_error"}
RequestKinds == {"error", "request"} \cup FallbackKinds
Spans == [kind : RequestKinds, of : Requests]
           \cup [kind : {"heartbeat"}, of : 1..MaxBeats]
Torn == [kind |-> "torn", of |-> 0]       \* a prefix of a span: a short write
Cells == Spans \cup {Torn}
Answers == {"404", "403", "output"} \cup FallbackKinds

ASSUME GatewayAssumption ==
  /\ MaxLives \in Nat /\ MaxBeats \in Nat
  /\ Configs \subseteq SUBSET (Tenants \X Apps \X Keys)
  /\ NoKey \notin Keys
  /\ ShortPath \notin Tenants \X Apps \X (Keys \cup {NoKey})
  /\ Heartbeat \notin Requests
  /\ Nobody \notin Writers

VARIABLES
  up, life,             \* is the process running, and how often it was started
  config,               \* the global `config'
  pc,                   \* where each handler is
  asked, born,          \* what the request asks, and the life it arrived in
  body, ran,            \* what io.ReadAll returned, what the script was run on
  answer,               \* what the client was sent
  io, pending, lock,    \* appendSpan: each caller's place and span; timelineMu
  lines, tail,          \* the file: its complete lines, and what follows the last newline
  dropped,              \* spans appendSpan gave up on or wrote in part
  damage,               \* newlines that did not follow their span, spans cut short
  beats                 \* heartbeats sent so far

processVars == <<up, life, config>>
handlerVars == <<pc, asked, born, body, ran, answer>>
appendVars  == <<io, pending, lock>>
fileVars    == <<lines, tail, dropped, damage>>
vars == <<processVars, handlerVars, appendVars, fileVars, beats>>

Span(k, x) == [kind |-> k, of |-> x]

(* validateKey: tenant, app and key must all be in the loaded config.       *)
validateKey(a) == a \in config

InFlight(r) == pc[r] \notin {"idle", "done", "lost"}

Init ==
  /\ up = FALSE /\ life = 0
  /\ config = {}
  /\ pc = [r \in Requests |-> "idle"]
  /\ asked = [r \in Requests |-> ShortPath]
  /\ born = [r \in Requests |-> 0]
  /\ body = [r \in Requests |-> "unread"]
  /\ ran = [r \in Requests |-> "nothing"]
  /\ answer = [r \in Requests |-> "none"]
  /\ io = [w \in Writers |-> "none"]
  /\ pending = [w \in Writers |-> Torn]
  /\ lock = Nobody
  /\ lines = <<>> /\ tail = <<>> /\ dropped = {} /\ damage = 0
  /\ beats = 0

-----------------------------------------------------------------------------
(* The process.  Files that operators edit at will, tenants.json and the    *)
(* scripts of apps/, are whatever they are at the moment they are read.    *)

(* The file is read and parsed into the global.                            *)
loadConfig == config' \in Configs

(* main: loadConfig, then the heartbeat goroutine and the listener.  When  *)
(* loadConfig fails the process exits at once, which leaves it down.       *)
Start ==
  /\ ~up /\ life < MaxLives
  /\ up' = TRUE /\ life' = life + 1
  /\ loadConfig
  /\ UNCHANGED <<handlerVars, appendVars, fileVars, beats>>

(* The process dies (kill, a panic outside a handler, a reboot).  What it  *)
(* had written stays in the file; every handler in flight is gone.         *)
Crash ==
  /\ up
  /\ up' = FALSE
  /\ pc' = [r \in Requests |-> IF InFlight(r) THEN "lost" ELSE pc[r]]
  /\ io' = [w \in Writers |-> "none"]
  /\ lock' = Nobody
  /\ damage' = IF \E w \in Writers : io[w] = "newline" THEN damage + 1 ELSE damage
  /\ UNCHANGED <<life, config, asked, born, body, ran, answer,
                 pending, lines, tail, dropped, beats>>

-----------------------------------------------------------------------------
(* appendSpan.  Begin is the call; a caller goes on when io is "none"      *)
(* again.                                                                  *)

Begin(w, s) ==
  /\ io[w] = "none"
  /\ io' = [io EXCEPT ![w] = "wait"]
  /\ pending' = [pending EXCEPT ![w] = s]
  /\ lock' = lock

Return(w) ==                    \* the deferred Unlock
  /\ io' = [io EXCEPT ![w] = "none"]
  /\ lock' = Nobody
  /\ pending' = pending

(* A lock that does not exclude. *)
AcquireTimelineRacy(w) ==
  /\ io[w] = "wait"
  /\ io' = [io EXCEPT ![w] = "open"]
  /\ lock' = w
  /\ UNCHANGED <<processVars, handlerVars, pending, fileVars, beats>>

AcquireTimeline(w) ==
  /\ io[w] = "wait" /\ lock = Nobody
  /\ io' = [io EXCEPT ![w] = "open"]
  /\ lock' = w
  /\ UNCHANGED <<processVars, handlerVars, pending, fileVars, beats>>

OpenTimeline(w) ==
  /\ io[w] = "open"
  /\ io' = [io EXCEPT ![w] = "write"]
  /\ UNCHANGED <<processVars, handlerVars, pending, lock, fileVars, beats>>

(* The early return of a failed open without the deferred Unlock. *)
OpenFailsHoldingLock(w) ==
  /\ io[w] = "open"
  /\ dropped' = dropped \cup {pending[w]}
  /\ io' = [io EXCEPT ![w] = "none"]
  /\ UNCHANGED <<processVars, handlerVars, pending, lock, lines, tail, damage, beats>>

(* "open timeline:" is logged, the span is not written, nobody is told.    *)
OpenFails(w) ==
  /\ io[w] = "open"
  /\ dropped' = dropped \cup {pending[w]}
  /\ Return(w)
  /\ UNCHANGED <<processVars, handlerVars, lines, tail, damage, beats>>

WriteSpan(w) ==
  /\ io[w] = "write"
  /\ tail' = Append(tail, pending[w])
  /\ io' = [io EXCEPT ![w] = "newline"]
  /\ UNCHANGED <<processVars, handlerVars, pending, lock, lines, dropped,
                 damage, beats>>

(* The result of f.Write(data) is ignored: nothing or a prefix is written, *)
(* and the newline is written all the same.                                *)
WriteFails(w) ==
  /\ io[w] = "write"
  /\ tail' \in {tail, Append(tail, Torn)}
  /\ dropped' = dropped \cup {pending[w]}
  /\ damage' = damage + 1
  /\ io' = [io EXCEPT ![w] = "newline"]
  /\ UNCHANGED <<processVars, handlerVars, pending, lock, lines, beats>>

WriteNewline(w) ==
  /\ io[w] = "newline"
  /\ lines' = Append(lines, tail)
  /\ tail' = <<>>
  /\ Return(w)
  /\ UNCHANGED <<processVars, handlerVars, dropped, damage, beats>>

(* An error check on the newline that returns without Unlock. *)
NewlineFailsHoldingLock(w) ==
  /\ io[w] = "newline"
  /\ damage' = damage + 1
  /\ io' = [io EXCEPT ![w] = "none"]
  /\ UNCHANGED <<processVars, handlerVars, pending, lock, lines, tail, dropped, beats>>

NewlineFails(w) ==
  /\ io[w] = "newline"
  /\ damage' = damage + 1
  /\ Return(w)
  /\ UNCHANGED <<processVars, handlerVars, lines, tail, dropped, beats>>

AppendStep(w) ==
  \/ OpenTimeline(w) \/ OpenFails(w)
  \/ WriteSpan(w) \/ WriteFails(w)
  \/ WriteNewline(w) \/ NewlineFails(w)

(* heartbeatLoop: 60 seconds have passed.                                  *)
Beat ==
  /\ up /\ beats < MaxBeats
  /\ beats' = beats + 1
  /\ Begin(Heartbeat, Span("heartbeat", beats'))
  /\ UNCHANGED <<processVars, handlerVars, fileVars>>

-----------------------------------------------------------------------------
(* handler.                                                                *)

Goto(r, l) == pc' = [pc EXCEPT ![r] = l]

(* The handler calls appendSpan and goes on at l when it returns.          *)
Log(r, k, l) == Begin(r, Span(k, r)) /\ Goto(r, l)

Reply(r, a) ==
  /\ answer' = [answer EXCEPT ![r] = a]
  /\ Goto(r, "done")

(* fallback(w, reason): the span first, then the JSON response.            *)
fallback(r, reason) == Log(r, reason, "fallback")

Connect(r) ==
  /\ up /\ pc[r] = "idle"
  /\ \E a \in Asks : asked' = [asked EXCEPT ![r] = a]
  /\ born' = [born EXCEPT ![r] = life]
  /\ Goto(r, "route")
  /\ UNCHANGED <<processVars, body, ran, answer, appendVars, fileVars, beats>>

RejectPath(r) ==
  /\ pc[r] = "route" /\ asked[r] = ShortPath
  /\ Reply(r, "404")
  /\ UNCHANGED <<processVars, asked, born, body, ran, appendVars, fileVars, beats>>

(* The reason of the refusal written where its type belongs. *)
DenyMistyped(r) ==
  /\ pc[r] = "route" /\ asked[r] # ShortPath
  /\ ~validateKey(asked[r])
  /\ Log(r, "invalid_api_key", "deny")
  /\ UNCHANGED <<processVars, asked, born, body, ran, answer, fileVars, beats>>

Deny(r) ==
  /\ pc[r] = "route" /\ asked[r] # ShortPath
  /\ ~validateKey(asked[r])
  /\ Log(r, "error", "deny")
  /\ UNCHANGED <<processVars, asked, born, body, ran, answer, fileVars, beats>>

(* The error span appended in a goroutine of its own. *)
ForbidAtOnce(r) ==
  /\ pc[r] = "deny"
  /\ Reply(r, "403")
  /\ UNCHANGED <<processVars, asked, born, body, ran, appendVars, fileVars, beats>>

Forbid(r) ==
  /\ pc[r] = "deny" /\ io[r] = "none"
  /\ Reply(r, "403")
  /\ UNCHANGED <<processVars, asked, born, body, ran, appendVars, fileVars, beats>>

(* tenants.json read again for each request. *)
AdmitReloading(r) ==
  /\ pc[r] = "route" /\ asked[r] # ShortPath
  /\ config' \in Configs /\ asked[r] \in config'
  /\ Log(r, "request", "record")
  /\ UNCHANGED <<up, life, asked, born, body, ran, answer, fileVars, beats>>

Admit(r) ==
  /\ pc[r] = "route" /\ asked[r] # ShortPath
  /\ validateKey(asked[r])
  /\ Log(r, "request", "record")
  /\ UNCHANGED <<processVars, asked, born, body, ran, answer, fileVars, beats>>

(* The request span appended in a goroutine of its own. *)
FindScriptAtOnce(r) ==
  /\ pc[r] = "record"
  /\ Goto(r, "read")
  /\ UNCHANGED <<processVars, asked, born, body, ran, answer, appendVars, fileVars, beats>>

(* os.Stat finds the script, and the body is read next, or does not.       *)
FindScript(r) ==
  /\ pc[r] = "record" /\ io[r] = "none"
  /\ Goto(r, "read")
  /\ UNCHANGED <<processVars, asked, born, body, ran, answer, appendVars,
                 fileVars, beats>>

(* The return after the missing_app fallback forgotten. *)
MissScriptNoReturn(r) ==
  /\ pc[r] = "record" /\ io[r] = "none"
  /\ Log(r, "missing_app", "read")
  /\ UNCHANGED <<processVars, asked, born, body, ran, answer, fileVars, beats>>

MissScript(r) ==
  /\ pc[r] = "record" /\ io[r] = "none"
  /\ fallback(r, "missing_app")
  /\ UNCHANGED <<processVars, asked, born, body, ran, answer, fileVars, beats>>

(* io.ReadAll, its error ignored: a client that goes away leaves a prefix. *)
ReadBody(r) ==
  /\ pc[r] = "read"
  /\ \E b \in {"whole", "truncated"} : body' = [body EXCEPT ![r] = b]
  /\ Goto(r, "exec")
  /\ UNCHANGED <<processVars, asked, born, ran, answer, appendVars, fileVars, beats>>

(* cmd.Output starts the script, or cannot: it was removed after os.Stat,  *)
(* or is not executable.                                                   *)
StartScript(r) ==
  /\ pc[r] = "exec"
  /\ ran' = [ran EXCEPT ![r] = body[r]]
  /\ Goto(r, "run")
  /\ UNCHANGED <<processVars, asked, born, body, answer, appendVars, fileVars, beats>>

StartFails(r) ==
  /\ pc[r] = "exec"
  /\ fallback(r, "app_error")
  /\ UNCHANGED <<processVars, asked, born, body, ran, answer, fileVars, beats>>

(* The script exits with status 0, or with another one.                    *)
ScriptSucceeds(r) ==
  /\ pc[r] = "run"
  /\ Reply(r, "output")
  /\ UNCHANGED <<processVars, asked, born, body, ran, appendVars, fileVars, beats>>

ScriptFails(r) ==
  /\ pc[r] = "run"
  /\ fallback(r, "app_error")
  /\ UNCHANGED <<processVars, asked, born, body, ran, answer, fileVars, beats>>

ReplyFallback(r) ==
  /\ pc[r] = "fallback" /\ io[r] = "none"
  /\ Reply(r, pending[r].kind)
  /\ UNCHANGED <<processVars, asked, born, body, ran, appendVars, fileVars, beats>>

HandlerStep(r) ==
  \/ RejectPath(r) \/ Deny(r) \/ Forbid(r) \/ Admit(r)
  \/ FindScript(r) \/ MissScript(r) \/ ReadBody(r)
  \/ StartScript(r) \/ StartFails(r) \/ ReplyFallback(r)

ScriptExits(r) == ScriptSucceeds(r) \/ ScriptFails(r)

-----------------------------------------------------------------------------
Next ==
  \/ Start \/ Crash \/ Beat
  \/ \E w \in Writers : AcquireTimeline(w) \/ AppendStep(w)
  \/ \E r \in Requests : Connect(r) \/ HandlerStep(r) \/ ScriptExits(r)

Spec == Init /\ [][Next]_vars

(* Goroutines that can run do run.  A waiter on a Go mutex is not passed   *)
(* over for ever (after 1ms the mutex is handed to its oldest waiter),     *)
(* hence strong fairness for the lock.  Nothing here makes a script end.   *)
Fairness ==
  /\ \A w \in Writers : WF_vars(AppendStep(w)) /\ SF_vars(AcquireTimeline(w))
  /\ \A r \in Requests : WF_vars(HandlerStep(r))

ScriptsTerminate == \A r \in Requests : WF_vars(ScriptExits(r))

FairSpec == Spec /\ Fairness /\ ScriptsTerminate

-----------------------------------------------------------------------------
(* Properties.                                                             *)

OnLine(l, s) == \E j \in DOMAIN l : l[j] = s
InTrail(s) == OnLine(tail, s) \/ \E i \in DOMAIN lines : OnLine(lines[i], s)
Accounted(s) == InTrail(s) \/ s \in dropped

(* The types of the variables.                                             *)
TypeOK ==
  /\ up \in BOOLEAN /\ life \in 0..MaxLives
  /\ config \in SUBSET (Tenants \X Apps \X Keys)
  /\ pc \in [Requests -> {"idle", "route", "deny", "record", "read", "exec", "run",
                          "fallback", "done", "lost"}]
  /\ asked \in [Requests -> Asks]
  /\ born \in [Requests -> 0..MaxLives]
  /\ body \in [Requests -> {"unread", "whole", "truncated"}]
  /\ ran \in [Requests -> {"nothing", "unread", "whole", "truncated"}]
  /\ answer \in [Requests -> Answers \cup {"none"}]
  /\ io \in [Writers -> {"none", "wait", "open", "write", "newline"}]
  /\ pending \in [Writers -> Cells]
  /\ lock \in Writers \cup {Nobody}
  /\ lines \in Seq(Seq(Cells)) /\ tail \in Seq(Cells)
  /\ dropped \in SUBSET Cells
  /\ damage \in Nat
  /\ beats \in 0..MaxBeats

(* appendSpan's file operations run under timelineMu: whoever is between   *)
(* Lock and Unlock is the one holder, and a crash or an early return after *)
(* a failed open never leaves the mutex held by nobody's call.             *)
TimelineLocked ==
  \A w \in Writers : io[w] \in {"open", "write", "newline"} <=> lock = w

(* The file is JSON Lines: a line that is not exactly one whole span is    *)
(* the price of a failed write or of a death between the two writes of     *)
(* appendSpan, one line for each at most, whatever the interleaving of     *)
(* handlers and heartbeat (two spans on one line, an empty line and a cut  *)
(* span all count).                                                        *)
Whole(l) == Len(l) = 1 /\ l[1] # Torn
Malformed == {i \in DOMAIN lines : ~Whole(lines[i])}
TailInDebt ==
  /\ tail # <<>>
  /\ ~\E w \in Writers : io[w] = "newline" /\ tail = <<pending[w]>>
DamageBounded ==
  Cardinality(Malformed) + (IF TailInDebt THEN 1 ELSE 0) <= damage

(* No script is ever run for a request the timeline does not account for:  *)
(* its "request" span is in the file, on whatever line, or the I/O error   *)
(* that lost it has already happened, also after the process died and      *)
(* came back.                                                              *)
AuditBeforeExecute ==
  \A r \in Requests : ran[r] # "nothing" => Accounted(Span("request", r))

(* What a client is told and what the timeline says of its request agree:  *)
(* a 403 has an "error" span, no "request" span and no effect; an output   *)
(* comes from a script that ran and has no fallback span; a fallback has   *)
(* its span with the same reason, and a missing_app has run nothing.       *)
AnswerMatchesTrail ==
  \A r \in Requests :
    /\ answer[r] = "403" => /\ Accounted(Span("error", r))
                           /\ ~Accounted(Span("request", r))
                           /\ ran[r] = "nothing"
    /\ answer[r] = "output" => /\ ran[r] # "nothing"
                              /\ \A k \in FallbackKinds : ~Accounted(Span(k, r))
    /\ answer[r] \in FallbackKinds => /\ Accounted(Span("request", r))
                                     /\ Accounted(Span(answer[r], r))
    /\ answer[r] = "missing_app" => ran[r] = "nothing"

(* The config is read once per life of the process: two requests that ask  *)
(* for the same thing in the same life are judged alike, even when         *)
(* tenants.json is edited between them.                                    *)
Denied(r) == pc[r] = "deny" \/ answer[r] = "403"
Admitted(r) == pc[r] \in {"record", "read", "exec", "run", "fallback"}
                 \/ answer[r] \in {"output"} \cup FallbackKinds
ConsistentVerdicts ==
  \A r, q \in Requests :
    (born[r] = born[q] /\ asked[r] = asked[q]) => ~(Denied(r) /\ Admitted(q))

(* Where each handler is decides which of its spans the timeline accounts  *)
(* for, and what has been done so far: the spans of a request are written  *)
(* in order, each once, and none before its turn.  This is the inductive   *)
(* form of the two invariants above.                                       *)
Appended(w) == io[w] \in {"none", "newline"}
Of(r, ks) == \A k \in RequestKinds : Accounted(Span(k, r)) <=> k \in ks
HandlerOK(r) ==
  /\ pc[r] \in {"idle", "route", "read", "exec", "run", "done", "lost"} => io[r] = "none"
  /\ pc[r] \notin {"done"} => answer[r] = "none"
  /\ pc[r] \notin {"run", "fallback", "done", "lost"} => ran[r] = "nothing"
  /\ pc[r] \in {"idle", "route"} => Of(r, {})
  /\ pc[r] = "deny" => /\ pending[r] = Span("error", r)
                      /\ Of(r, IF Appended(r) THEN {"error"} ELSE {})
  /\ pc[r] = "record" => /\ pending[r] = Span("request", r)
                        /\ Of(r, IF Appended(r) THEN {"request"} ELSE {})
  /\ pc[r] \in {"read", "exec", "run"} => Of(r, {"request"})
  /\ pc[r] = "run" => ran[r] # "nothing"
  /\ pc[r] = "fallback" =>
       \E k \in FallbackKinds :
         /\ pending[r] = Span(k, r)
         /\ k = "missing_app" => ran[r] = "nothing"
         /\ Of(r, IF Appended(r) THEN {"request", k} ELSE {"request"})
  /\ pc[r] = "done" =>
       \/ answer[r] = "404" /\ Of(r, {}) /\ ran[r] = "nothing"
       \/ answer[r] = "403" /\ Of(r, {"error"}) /\ ran[r] = "nothing"
       \/ answer[r] = "output" /\ Of(r, {"request"}) /\ ran[r] # "nothing"
       \/ answer[r] = "missing_app" /\ Of(r, {"request", "missing_app"}) /\ ran[r] = "nothing"
       \/ answer[r] = "app_error" /\ Of(r, {"request", "app_error"})
  /\ pc[r] = "lost" /\ ran[r] # "nothing" => Accounted(Span("request", r))
HeartbeatOK ==
  /\ \A n \in 1..MaxBeats : n > beats => ~Accounted(Span("heartbeat", n))
  /\ io[Heartbeat] # "none" =>
       /\ beats > 0 /\ pending[Heartbeat] = Span("heartbeat", beats)
       /\ Accounted(pending[Heartbeat]) <=> Appended(Heartbeat)
HandlersInOrder == HeartbeatOK /\ \A r \in Requests : HandlerOK(r)

(* The gateway implements the audit trail of module AuditTrail.            *)
Ledger == INSTANCE AuditTrail WITH
  trail    <- {s \in Spans : InTrail(s)},
  missing  <- dropped,
  executed <- {r \in Requests : ran[r] # "nothing"},
  answer   <- answer
ImplementsAuditTrail == Ledger!TrailSpec

(* Every request that is accepted is answered, unless the process dies     *)
(* under it: no handler starves behind the heartbeat or another handler at *)
(* timelineMu, and no I/O error leaves it waiting.  Needs scripts to end.  *)
EveryRequestAnswered ==
  \A r \in Requests : (pc[r] = "route") ~> (pc[r] \in {"done", "lost"})

(* A heartbeat that is due gets through the lock and comes back, or the    *)
(* process dies: traffic never silences the heartbeat.                     *)
HeartbeatReturns == (io[Heartbeat] = "wait") ~> (io[Heartbeat] = "none")
============================================================================
