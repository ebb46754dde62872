# LogLineOS in TLA+

This directory holds TLA+ models of LogLineOS, the TLC configurations that
check them on small instances, and theorems about them that the TLA+ proof
system (TLAPS) checks for every value of the constants. Every definition is
translated from the source; `PROJECT.json` maps each one to the lines it models.

Contents

1. [The system](#1-the-system)
2. [Inventory](#2-inventory)
3. [The modules](#3-the-modules)
4. [The models and the code](#4-the-models-and-the-code)
5. [What each run checks](#5-what-each-run-checks)
6. [Fairness](#6-fairness)
7. [What is proved](#7-what-is-proved)
8. [What is not modelled](#8-what-is-not-modelled)
9. [Where the code and its documents disagree](#9-where-the-code-and-its-documents-disagree)
10. [The plan](#10-the-plan)
11. [Running it](#11-running-it)

## 1. The system

LogLineOS calls itself a semantic operating system: everything that happens is
a *span*, a record with a type and a status, kept on a *timeline*, and
behaviour is written as `.logline` files that engines interpret. The repository
holds four programs that run and a larger body of contracts for an engine
(the "kernel") that is not in it.

| Part | Language | What runs |
|---|---|---|
| Gateway | Go, `gateway/runtime/server.go` | an HTTP server that authorises a request, records it as a span, and hands it to the script of an app |
| UI runtime | JavaScript, `ui_runtime/*.js` | a browser page that loads `.logline` files and renders them; operations go through a dispatcher to handlers that are themselves `.logline` files |
| Interpreter | Go, `main.go`, `parser/`, `runtime/`, `plugin/`, `tracer/` | a command that executes one `.logline` file, prints it, and traces what it printed to `spans.jsonl` |
| Kernel and runner | Rust and Go | a WASM module that lists the contracts in a file, and its host |
| Contracts | `.logline` | rules (`when` a span looks like this, `then` do that) and contracts (sequences of actions): the API gateway, the server watchdog, the dispatcher, the state builder, the LLM guardian, the REPL and others |

The parts interact little. The four programs share no memory and no file: the
gateway writes `timeline/requests.jsonl`, the interpreter writes `spans.jsonl`
in its working directory, the page writes nothing but the document and
localStorage. Within a part the interaction is dense, and that is where the
models are: goroutines around one mutex and one file; chains of awaited calls
around one cache; listeners around one state; rules, contracts and a watchdog
around one span; replays and live rules around one store; several runs around
one trace file.

## 2. Inventory

For each component: the state it keeps, its operations, what it interacts
with, what is hard about it, and what makes it correct. The ones with a module
are described again, action by action, in section 4.

### Gateway

**Gateway server** (`gateway/runtime/server.go`, started by
`launch_gateway.sh`). *State*: the global `config` (loaded once from
`config/tenants.json`), `timelineMu`, the file `timeline/requests.jsonl`.
*Operations*: `main`, `loadConfig`, `validateKey`, `handler`, `fallback`,
`heartbeatLoop`, `appendSpan`. *Interactions*: one goroutine per request and one
for the heartbeat, all through `appendSpan`; app scripts through `exec`.
*Hard*: the file is written with two writes per span, whose results are
ignored; an open that fails returns early; the process can die between any two
steps; the script is looked up, and started later; a script need not end.
*Correct when*: spans are never mixed on a line without a failure to blame, no
script runs for a request that the timeline does not account for, what a client
is told agrees with the timeline, and every request is answered.
**Modelled**: `Gateway`, `AuditTrail`, `GatewayProofs`.

**Gateway scripts and watchdog** (`restart_gateway.sh`, `watchdog/monitor.sh`,
`tests/`, `apps/`). Process control and health probes: `curl`, `pkill`, `nohup`.
No state but log files. The app script is in `Gateway`, as a script that ends
well, ends badly, or does not end. (`restart_gateway.sh` kills what was started
as `go run`; the server that `go run` compiled and started may survive it.)
**Not modelled** otherwise.

**Gateway contracts** (`gateway/contracts/*.logline`). Declarative twins of
steps of `server.go`, which does not read them. One of them, `route_to_app`,
gives the script a timeout that the server does not have (section 9).
**Not modelled.**

### UI runtime

**File loader and cache** (`main.js: loadLogLineFile, logLineCache`). *State*:
a map from path to data and timestamp. *Operations*: one asynchronous function.
*Interactions*: called by every task of the page; the files are edited on the
server. *Hard*: calls overlap at each `await`; responses overtake one another;
bodies that are no JSON; an expiry that is configured as 0. *Correct when*: an
edit is seen within a bounded time and nothing broken is cached or returned.
**Modelled**: `UiLoader`, `UiProofs`.

**Rendering and dispatch** (`main.js`). *State*: the document, the cache,
`window.uiState`. *Operations*: `bootstrapLogLineUI`, `renderCompositeLayout`,
`renderSpans`, `renderSpan`, `handleOperationViaDispatcher`, `validateHandler`,
`renderUIComponent` and its branches, `renderInclude`, `renderUnknownComponent`,
the listeners of buttons and input boxes. *Hard*: several chains of awaited
calls interleave; handlers come from a shared cache and are interpolated with
the arguments of one call; exceptions are caught at several levels; a handler
may lead back to its own operation. *Correct when*: spans come out in the order
of the files, a handler shows the arguments of its own call, an error costs one
span, and every chain ends. **Modelled**: `UiDispatch`, `UiDispatchProofs`.

**Start-up** (`init.js`, `index.html`). *State*: which script is awaited.
*Operations*: `loadConfigurations`, `initializeRuntime`, the error screen, the
listener of `loglineos:initialized`. *Hard*: promises in promises, each of
which may reject. *Correct when*: the page never stays at its loading
indicator. **Modelled** in `UiDispatch` and `UiTheme`.

**Configuration** (`runtime_config.js`, `config.js`, two start scripts). *State*:
`RUNTIME_CONFIG`, merged from constants and the query of the URL; the network
listeners and the saved theme set `uiState.app`. *Hard*: the same query is read
by three programs (`init.js` decides which scripts to load, `runtime_config.js`
settles the providers, `config.js`, which no page loads, does both its own way).
*Correct when*: what `init.js` loads is what `runtime_config.js` settles on, and
it is known for which queries `config.js` settles on the same. **Partly
modelled**: `UiConfig`, `UiTheme`; of the settings only those the query decides.

**State runtime** (`state_runtime.js`, `main.js`). *State*: `window.uiState`, a
graph of objects, and the listeners of `uiStateUpdated`. *Operations*:
`set_state`, `get_state` with and without `assign_to`, the listener of an input
box, `setValueByPath`, `getValueByPath`, `triggerStateUpdate`. *Hard*: assigning
an object copies a reference, so two paths may lead to one object; an object may
come to contain itself, which cannot be shown; a listener that assigns writes
without an event of its own; exceptions in listeners. *Correct when*: what is
displayed is what is there. **Modelled**: `UiState`, `UiProofs`.

**Theme runtime** (`theme_runtime.js`, `theme_*.logline`). *State*: `themeCache`,
the style element, `data-theme`, `uiState.app.currentTheme` and `themeTokens`.
*Operations*: `handleSetTheme`, `loadTheme`, `applyThemeToDOM`,
`createThemeFile`. *Hard*: two switches overlap at the await, one of them fails,
files change or hold nothing usable; `createThemeFile` caches lists whose tokens
have neither name nor value. *Correct when*: the page shows the theme the state
names. **Modelled**: `UiTheme`, `UiProofs`.

**Test runtime** (`test_runtime.js`, `ui_tests.logline`): assertions over the
document and a report in localStorage. **Not modelled.**

The state, theme and test runtimes are brought in by `document.write` in
`main.js`, which a browser ignores in a script that was inserted dynamically,
and nothing calls what they define. `UiState` and `UiTheme` model them as the
libraries they are: spans call them in any order once `main.js` has run.

**Pages and other handlers** (`*.logline` of `ui_runtime/` and `handlers/`):
the data the renderer interprets. `UiDispatch` takes them as a constant.
**PostgreSQL setup** (`setup_postgres_logline.sh`, `postgres_api.logline`,
`env_config.logline`): a script that writes files and declarations that no code
reads. **Not modelled.**

### API gateway and server (contracts)

**API gateway** (`api_gateway/`: `api_entry`, `rules`, `validate_token`,
`throttle_policy`, `route_request`, `http_respond`, `api_keys.txt`). *State*: one
`api_affair` span per request. *Operations*: five rules that react to a status,
three contracts each of which ends with one update. *Interactions*: with the
watchdog, through the span. *Hard*: rules and contracts run concurrently with
the watchdog, each writes without looking, the key file changes and is matched
as a text, comments included, the process dies and what was under way is lost.
*Correct when*: 200 is answered only to a request that a line of the key file
admits, the states come in order, one answer per request, and no
affair stays in between. **Modelled**: `ApiAffair`, `ApiAffairProofs`.

**Server watchdog and restart** (`server/watchdog.logline`,
`server_entry.logline`, `recovery_plan.logline`, `systemd/`). *State*: what its
query returned. *Operations*: query, loop, update; death and restart.
**Partly modelled**, in `ApiAffair`: `server_entry` (a pid file, a listener) and
`recovery_plan` are single calls without state in the repository, and the
`process_reaped` span is left out.

**Side contracts** (`docs_autogen`, `log_request`): one file read and one file
append that no rule calls. **Not modelled.**

### Go interpreter

(`main.go`, `parser/parser.go`, `runtime/interpreter.go`, `plugin/*.go`,
`tracer/chronicler.go`.) *State*: the environment (constants and `item`), the
stack of `execute`, the output, `spans.jsonl`. *Operations*: one per type of
block, expressions, `chronicler.Record`. *Interactions*: every run in a
directory appends to one `spans.jsonl`; plugins call the world. *Hard*: runs
interleave, are killed or call `syscall.exit()` in the middle; a write fails,
and the encoder never writes again; `item` is one global variable for nested
loops; three kinds of conditions, over values of Go and not over their texts.
*Correct when*: the trace says what was printed, and a file prints what its tree
says. **Modelled**: `Interpreter`, `Meaning`, `InterpreterProofs`.

### Contracts for an engine that is not in the repository

**Runtime dispatcher** (`dispatcher/`). *State*: one `dispatch_affair` per
intercepted span, two `runtime_status` spans, the queues of the runtimes.
*Operations*: intercept, classify, ask the language model, apply policies,
dispatch to core or UI, fall back, finalize; the watchdog checks both runtimes,
publishes, restarts. *Hard*: the dispatch rule and the fallback rule match the
same state and both run, the fallback once more for each publication that finds
it still matching; `runtime.execution.result` is not exempt from interception,
so a result becomes an affair; the status of a runtime is stale when used; a
restart that fails ends the watchdog. *Correct when*: a span is given to
runtimes once for its classification and once for each fallback, a span that is
denied stays denied, every affair is served or fails. **Modelled**:
`Dispatcher`, `DispatcherProofs`.

**State builder** (`state_builder/`). *State*: a key-value store derived from
the timeline. *Operations*: apply, flush, rebuild; query, health check, backup.
*Hard*: spans arrive while the state is rebuilt or another is applied; two
rebuilds overlap; retries of steps that are not idempotent; a trigger that fails
may have started the rule; a failed set is reported as an update. *Correct when*:
what is applied one at a time, or rebuilt undisturbed, is the projection of the
timeline, and otherwise nothing is lost but what was given up and profiles that
an older one was late enough to write over (section 9). **Partly modelled**:
`StateBuilder`, `StateBuilderProofs`; `query_state`, `state_health` and
`backup_history` read, copy and log.

**LLM guardian and constitution** (`llm_guardian/`, `constitution/`). *State*:
one `goal_affair` per goal, the violations registered. *Operations*: receive,
interpret, propose spans by a table or by the language model, hold each span
against each clause. *Hard*: the failure branch of the fallback has no exit and
goes on; `JSON_PARSE`, the read of the constitution and `notify_admin` fail
without an `on_failure` and stop the rule in between; the verdict on a span is
gathered over a loop in a loop. *Correct when*: a span is valid iff it violates
no clause, every violation is registered, every goal becomes ready or was
stopped by one of those failures. **Modelled**: `Guardian`, `ConsoleProofs`.

**Sovereign REPL** (`sovereign_repl/`). *State*: one `console_affair` per line.
*Operations*: read, confirm, evaluate with one retry, show the history. *Hard*:
an attempt that failed updates the affair, and so do the retry, the update after
it, and the rule for `history`, which runs at the same time. *Correct when*:
every command comes to rest. **Partly modelled**: `Console`; `selfheal` and
`diagnostics` call contracts of other parts, `show_output` and `command_metrics`
wait for types of span nobody makes.

**Embedding index** (`embedmind/`): calls of external vector functions, no state
of its own. **Audit contracts** (`audit/`): one span per event, reports by a
language model. **Configuration loader** (`config/`): a sequence of reads.
**Timeline contracts** (`timeline/`): one declarative action per file, whose
meaning lies in the engine. **Core contracts** (`contracts/`): declarations
about a compiler that is not there. **Test laboratory** (`testlab/`): test
declarations (section 9 has one that the contracts do not meet). **Examples,
domains and workflows**: sample inputs. **Patch copies** (`PATCH/`): repeats the
directories above it. **Not modelled.**

**Kernel and runner** (`kernel-rs/`, `runner/`): a WASM module that reads one
file through two host functions and logs the types in it; the executor is an
empty struct. One packed result (pointer and length) is all there is to check.
**Not modelled.**

## 3. The modules

| Module | What it is |
|---|---|
| `AuditTrail` | what the gateway promises to an auditor: an abstract specification without file, lock, handlers or crashes |
| `Gateway` | `server.go`, with the refinement mapping to `AuditTrail` |
| `MCGateway`, 2 configurations | small instances |
| `GatewayProofs` | theorems about `Gateway` |
| `UiLoader`, `MCUiLoader`, 1 configuration | the loader and its cache |
| `UiDispatch`, `MCUiDispatch`, 2 configurations, `UiDispatchProofs` | start-up, rendering, dispatch; the small pages are in `MCUiDispatch` |
| `UiConfig`, `UiTheme` | what a query makes of the settings; start-up and themes |
| `UiState`, `MCUiState`, 1 configuration | the reactive state, together with `UiTheme`, which also writes to it |
| `UiProofs` | theorems about the loader, the themes and the state |
| `ApiAffair`, `MCApiAffair`, 2 configurations, `ApiAffairProofs` | the life of a request in the contracts, with the watchdog and restarts |
| `Dispatcher`, `MCDispatcher`, 1 configuration, `DispatcherProofs` | the life of a dispatch, with the runtimes and their watchdog |
| `StateBuilder`, `MCStateBuilder`, 1 configuration, `StateBuilderProofs` | the derived state: the rule, the flush, the rebuild |
| `Guardian`, `Console`, `MCConsole`, 1 configuration, `ConsoleProofs` | goals and the constitution; the REPL, which extends it |
| `Interpreter`, `MCInterpreter`, 1 configuration, `InterpreterProofs` | the Go interpreter and its trace; the small files are in `MCInterpreter` |
| `Meaning` | what a file means, by the structure of its tree: the reference the interpreter is compared with |

Composition. `Gateway` instantiates `AuditTrail`. `ApiAffair` composes the API
gateway's rules and contracts with the server's watchdog, which meet in one
span. `UiDispatch` composes start-up, rendering and dispatch; of the loader it
has the interface (a load returns what is cached, or fetches and caches, or
fails), and `UiLoader` has what is behind it. `UiState` extends `UiTheme`, which
extends `UiConfig`: a switch of theme ends with the event that brings the
displays of `get_state` up to date. `Meaning` extends `Interpreter` for the
sorts of its constants only; it says nothing of its actions. `Console` extends
`Guardian`: goals and commands come in side by side. The four programs share no
state, and the contracts modelled here share no span, so there is no module
above these.

In each module the definitions that stand right before an action and differ from
it in one point (`AcquireTimelineRacy`, `validate_tokenNoExit`,
`NewChroniclerTruncating`, `TriggerAtOnce`) are not part of the specification.
Each is what the action would be with a plausible mistake, and each property of
each passing run is violated when one of them takes the place of the action:
`PROJECT.json` pairs them under "mutants".

## 4. The models and the code

### Gateway

State. `up`, `life`, `config` are the process and its global; `pc`, `asked`,
`born`, `body`, `ran`, `answer` the handlers; `io`, `pending`, `lock` the callers
of `appendSpan` and `timelineMu`; `lines`, `tail` the file, as complete lines
and what follows the last newline. `dropped` and `damage` are history: the spans
that `appendSpan` gave up on or wrote in part, and how many writes failed or
were cut off. A span is its kind and the request it is about. The file does not
carry that for fallback spans (they have no identity of a request at all), the
model keeps it so that properties can speak of it.

| Action | Code |
|---|---|
| `Start`, `loadConfig` | `main`, `loadConfig`: the file is read now; if it cannot be, the process exits |
| `Crash` | the process dies; the kernel has what was written, the mutex and the goroutines are gone |
| `Begin`, `AcquireTimeline`, `OpenTimeline`, `OpenFails`, `WriteSpan`, `WriteFails`, `WriteNewline`, `NewlineFails`, `Return` | `appendSpan`, one step per call of the operating system, its deferred `Unlock` and `Close` |
| `Beat` | one turn of `heartbeatLoop` |
| `Connect`, `RejectPath`, `Deny`, `Forbid`, `Admit`, `FindScript`, `MissScript`, `ReadBody`, `StartScript`, `StartFails`, `ScriptSucceeds`, `ScriptFails`, `ReplyFallback` | `handler` and `fallback`, cut where the code calls `appendSpan` or the world |

`tenants.json` and the scripts are edited by operators while the server runs;
what a read of them finds is a choice at the time of the read. A request is any
of the tenants, apps and keys, without a key, or with a path of fewer than two
segments. Abstracted: headers, the shape and the timestamps of spans, the
content of bodies except whether all of it was read.

`AuditTrail` has four variables: spans on record, spans lost to I/O errors, the
requests whose script was started, and the answers. It says when a span is due
(a request is admitted or refused, never both; a fallback follows an admission,
once), when a script may be started and what justifies an answer. A 404 for a
short path is justified by no record at all. The mapping takes the file to the
set of spans in it, on whatever line.

### UiLoader

A file's content is a version number, `Broken` the versions that are no JSON.
`clock` is `Date.now()` in seconds. `response` and `servedAt` say what the server
read for a call and when.

| Action | Code |
|---|---|
| `Hit`, `Miss` | the check of the cache, lines 145-158: `useCache`, the entry, its timestamp, `TTL` with its `\|\| 3600` |
| `Serve`, `Receive`, `NetworkError` | `await fetch`, `!response.ok`, a rejected promise at either `await` |
| `Parse`, `Put` | `await response.text()`, `JSON.parse`, and the entry with the time of its arrival |
| `Edit`, `Tick` | the server, and time |

`Transit` is the greatest age of a response when its body has arrived, with
what HTTP caches between the page and the file add to it: a constant, because
the code has no say in it. The wall clock is taken to be monotone.
`loadLogLineFile` does not share a request under way (the comment at line 17 of
`main.js` speaks of avoiding repeated loads): two calls that both miss both
fetch, and the model does too.

### UiDispatch

A task is a chain of awaited calls: the theme span and `bootstrapLogLineUI`,
which `index.html` starts together, and one chain per click. It is a stack of
frames, one per loop over a list of spans, and a `phase`, the load it awaits.
`shown` is what it has appended to the document, each element with its place in
the loops that run. `stage` is the script `init.js` waits for.

| Action | Code |
|---|---|
| `loadConfigurations`, `initializeRuntime` | `init.js`: the chain of scripts, the event, the error screen |
| `SkipSpan`, `HideSpan`, `ShowSpan`, `renderContainer`, `Return` | `renderSpans`, `renderSpan`, `renderUIComponent` for what needs no file: `if`, `visible_if`, text, button, input, container, an invalid span |
| `AwaitFile` | the task reaches an `await` |
| `FindHandler`, `RunHandler` | `handleOperationViaDispatcher`: `dispatcher.logline`, then the handler, `validateHandler`, copies, `interpolateSpanStrings`, the loop over them |
| `renderInclude`, `renderUnknownComponent`, `renderCompositeLayout`, `bootstrapLogLineUI` | the functions of those names, with every `catch` |
| `Click`, `Input` | the listeners |

A span is a record with the branch it takes, its name, the one value that is
told apart in it (a `{{...}}` is `Hole`), its conditions and its children. A
placeholder for which the context has no value comes out `Blank`: that is so in
the handlers of unknown components, whose context calls the span `component`
while the handlers speak of `action`. A loop with nothing left gives its place
to the loop its last span opens, so a self-dispatch at the end of a handler
keeps the stack finite while the task still does not end. `Spans` are the spans
of all files, children included; `HandlerSpans` those that a handler leads to,
through containers, includes and unknown components. Both are named so that
assumptions can speak of them (a part is what a layout lists and stands in no
file; what a handler leads to is closed) and so that `OwnArguments` can say what
a click may show. The cache is kept without expiry: a file once loaded stays as
it was loaded, and a file not yet loaded may fail to load, again and again.
Abstracted: styles, texts, the DOM below a span. The reload button of the error
screen is a new behaviour.

### UiConfig, UiTheme and UiState

`url` is the query; `stage` the script `init.js` waits for; `config` what
`runtime_config.js` has made of the query, with `ENV`, a constant of that file,
apart from `ACTIVE`, the entry of `ENVIRONMENTS` the settings come from; `app`
is `uiState.app`; `page` is the style element and `data-theme`, with the file
the tokens come from; `switches` are calls of `handleSetTheme`. The rest of
`uiState` is `heap`, a graph of objects whose root is object 1, since assigning
an object copies a reference; `observers` are the listeners of `uiStateUpdated`,
with what they show.

| Action | Code |
|---|---|
| `RuntimeConfigRuns`, `PostgresConfigRuns`, `MainRuns`, `showErrorScreen` | the scripts of `init.js`, each with what it does when it runs |
| `Network` | the listeners of `online` and `offline`; a change before they are there is missed |
| `handleSetTheme`, `loadTheme`, `ApplyTheme` | `handleSetTheme` up to its await, `loadTheme`, and what follows, to `triggerStateUpdate` |
| `createThemeFile` | the function of that name, which caches any list that is not empty, also one whose tokens lack a name or a value (`Lists`) |
| `handleSetState` | `set_state`, and the listener of an input box |
| `handleGetState`, `handleGetStateAssign` | `get_state`: the element and its listener; with `assign_to`, the write, the event, and the listener that writes again |

`triggerStateUpdate` runs every listener in the order of registration in one
step, as `dispatchEvent` does; one that throws is passed over. `null` is shown
as the fallback when a span is rendered and as `null` at an update; the
model keeps the difference (`Rendered`, `Updated`) and `DisplaysCurrent` allows
both. A theme file holds one of several lists when it is read, or nothing
usable, or cannot be read.

### ApiAffair

The engine that would run the contracts is not in the repository. The model
gives it no more than the contracts ask for: an update of a span is delivered
once to the rule that matches it, with the span as that update left it; rules,
contracts and the watchdog run concurrently; a contract may stop and not come
back. `triggers` are updates that no rule has reacted to, `jobs` the contracts
that were started, `stalled` what the watchdog's loop has left. All three are
gone when the process dies; the span is not.

| Action | Code |
|---|---|
| `Receive` | `api_entry.logline` |
| `Authenticate`, `Throttle`, `Route`, `Respond` | `rules.logline`, rules 1 to 5: note the progress and start the contract in one step, or answer |
| `validate_token`, `throttle_policy`, `route_request`, `Finish` | the contracts; the reads and the one update at their end |
| `Query`, `Reap` | `watchdog.logline`: the query, and each turn of its loop |
| `Tick`, `Crash`, `Restart` | time as the watchdog sees it, the process, systemd |

A line of the key file, whatever it is for, matches if it ends with `:` and the
token; what stands before its first `:` becomes the tenant. `Lines`, `FirstPart`
and `Endings` say that of each line, since a line with several `:` has several
endings. In `MCApiAffair` one line is the comment that shows the format
(`api_keys.txt:2`). A key file that is missing is a contract that stops without
an update. `age` is counted up to the first value the watchdog calls too old.
Abstracted: bodies, headers but the token, the `process_reaped` span.

### Dispatcher

The engine is that of `ApiAffair` with what this part asks for: a rule runs one
action at a time, so that two rules that match one update interleave; a rule
that waits for two spans (the fallback) is matched by an update of either; and
each match is a run of its own, also if one for the same span is still to begin.
`jobs` counts, for each affair, the runs before each action, and `queue` how
often a runtime has an affair before it. An update writes over whatever the
affair has become, and does not fail; a call that fails and has no `on_failure`
stops its contract. `MaxPending` bounds the runs of the fallback that wait for
one affair: the watchdog publishes no further while so many do.

| Action | Code |
|---|---|
| `Intercept`, `InterceptResult` | `rule.intercept_and_formalize_span`, for a request and for what a runtime answers |
| `Process`, `Classify`, `Suggest`, `Consult` | the classification, by the table or by the language model, which may fail or answer something else |
| `Policy`, `Decide` | `runtime_policies.logline` |
| `Dispatch`, `Send`; `FallBack`, `Reroute` | the two rules that match an approval, each with its two actions |
| `Finalize` | `rule.finalize_dispatch_affair` |
| `HealthCheck`, `Publish`, `RestartCore`, `RestartUi` | one turn of the watchdog: two checks side by side, one update of both status spans, two conditional restarts, of which one that fails is the end of the watchdog |
| `Fail`, `Recover`, `Execute` | the runtimes, from outside |

`Kinds` is the table of `classify_span_type`, with the one type the policy
singles out apart. `sent` is history: the calls of `syscall.runtime.dispatch`.
`Denied` looks at what the policy looks at. Abstracted: priorities, reasons,
alerts, the `dispatch_result` span, which nothing reads.

### StateBuilder

`apply_span.logline` ends in "similar error handling for other cases"; the
cases are those of the rule's text in `state_manifest.yml`. A span is numbered
by its place on the timeline and writes its number. `jobs` are runs of the rule,
each for the span itself or for a rebuild that replays it; a run that a failed
trigger has left behind (`trigger`) has nobody waiting for it. Three variables
are history: `missing` are the spans given up since the last flush, `overtaken`
the profiles an older one has been written over, and `calm` says that since the
start, or since a rebuild began while nothing else was under way (`Quiet`), no
two runs or rebuilds have overlapped and no call has failed.

| Action | Code |
|---|---|
| `Arrive` | a span on the timeline, and the rule it triggers |
| `Attempt`, `Set`, `ListAppends`, `Fails` | the rule: the missing `user_id`, the two writes of a case, the retry of the whole case, which may repeat a write that took effect; after the third attempt the rule goes on |
| `Request`, `Flush`, `FlushFails`, `Query` | `state.rebuild_full` up to the history, with `state.flush` and its retries |
| `Trigger`, `TriggerFails`, `Complete` | the replay, one span after another, each with its retries, and the end |

`permission.revoked` deletes a key no case sets, and the other tracked types
have no case: they are `other`.

### Guardian and Console

Each update of a goal matches one rule at most, so a goal has one counter, `at`.
`Violates` is a constant: which span violates which clause. An action that fails
and has no `on_failure` stops its contract and the rule that called it (`at` is
then `stopped`, and the status stays); updates of spans do not fail.

| Action | Code |
|---|---|
| `Receive`, `Interpret`, `Resolve` | `guardian_entry`, `interpret_goal`: the table, or the model |
| `Invoke`, `Propose`, `ProposeStops` | `fallback_openai`: spans, a text that is no JSON, or a failure; then `JSON_PARSE` and the update to `evaluated`, also of a goal that failed, or the end of the rule there |
| `Validate`, `Enforce`, `Verdict`, `Ready` | `evaluate_contradiction` and `constitution.enforce`: one step for each clause of each span, with `register_violation`, the returned verdict, the end |
| `EnforceStops` | the constitution cannot be read, a rule not be evaluated, or the administrator not be notified |
| `ReadLine`, `Confirm` | `repl.entry`, with the question before three dangerous commands |
| `Begin`, `Execute`, `ExecuteFails`, `Finish` | `rule.eval_console_commands`, with its two attempts; a failed one leaves the status alone if `diagnostics.run`, called before the update, fails too |
| `History` | `rule.handle_history_command`, which runs beside it |

`llm_guardian.interpret_and_execute`, which evaluation calls, is nowhere defined:
it succeeds or fails.

### Interpreter

Several runs, each with a file, a stack of frames (blocks left, and for a loop
its body and the items left), the variable `item`, what it has printed (`said`)
and a phase; all share `spans`, the lines of `spans.jsonl`. Lines carry the run
they come from, which the file does not: every run writes the trace id
`trace-1`.

| Action | Code |
|---|---|
| `main`, `NewChronicler`, `Return` | `main.go`: the file, the chronicler, `Execute`, the deferred `Close`, which panics if there is no chronicler |
| `Skip` | a condition that is false or an error |
| `RenderText`, `Record` | text and markdown: print, then one write to the trace |
| `Show`, `Contain`, `When`, `Loop`, `NextItem` | the other types of blocks; what is not known is a container |
| `Exit`, `Kill` | `syscall.exit()`, and the death of the process |

What an expression yields is a value of Go, and each value has a text it is
printed as (`Sprint`): the text `true` and the Boolean are two values with one
text. Only the variables hold Booleans; a plugin answers a text, nil or an
error. An `expr` that is a call is one that `callPattern` recognizes. A plugin
is the set of what it may answer (`Replies`); the prompt of `syscall.input()` is
an output and is kept, the files that `syscall.write_file` writes are not.
`chronicler.Record` writes through a `json.Encoder`, which keeps its first
error: once a write of a run has failed (`encErr`), no later span of that run is
written. A write that fails leaves nothing in the model; the torn line it can
leave is what `Gateway` has. Details of the code that the translation keeps:
only an error and `false` stop a block, but only the Boolean `true` opens one of
type `when`, so that an input of `true` does not; a condition written as a YAML
boolean reaches the evaluator as a text it does not know, and the block is
passed over; `item` keeps the last value of a loop, also for the outer loop. No
list is an element of a list, as in the environment that `main.go` prepares.

## 5. What each run checks

Ten runs must find no error, and every action of every specification is taken in
one of them; two runs must find one violation each (section 9). The list is
kept short: one run for each question.

| Run | Instance | Distinct states | Depth |
|---|---|---:|---:|
| `gateway_handlers` | 2 requests, 1 life, 2 possible `tenants.json`, no heartbeat | 598,240 | 33 |
| `gateway_restart` | 1 request, 2 lives, 1 heartbeat, 2 possible `tenants.json` | 64,216 | 25 |
| `ui_loader_freshness` | 3 calls of 1 file, 3 versions, the second does not parse, TTL 2, transit 1, 5 seconds | 808,098 | 19 |
| `ui_pages` | 2 entry files, theme, 2 clicks, 1 input | 65,012 | 48 |
| `ui_state` | 72 queries, 2 themes, 2 switches, 2 changes of the network, 3 paths, 2 displays | 107,768 | 26 |
| `affair_life` | 1 affair, a key file of 2 entries and a comment, edited, timeout 1, 1 crash | 199,895 | 43 |
| `dispatcher` | 1 request of each kind and the affair of its result, 1 failure of a runtime, 2 fallbacks that wait | 98,494 | 58 |
| `state_builder` | 2 spans, 2 rebuilds, 3 failing calls | 3,418,502 | 33 |
| `console` | 2 goals, 1 command, 2 clauses, 2 answers of the model, a text that is no JSON, a failure | 258,048 | 34 |
| `interpreter_runs` | 2 runs, 7 files | 214,229 | 39 |

Every configuration has `CHECK_DEADLOCK FALSE`: requests, calls, clicks and runs
are finite in number, and when all have ended the system rests.

**`gateway_handlers`.** *Two handlers in one process.* They interleave at each
step of `appendSpan`, any of which may fail, and at each step of the handlers;
the process may die at any point; `tenants.json` holds the key or does not.
`AuditBeforeExecute`: a script that was started has its request span in the
file, or the write that lost it has already failed. `AnswerMatchesTrail`: a 403
has an error span, no request span and no effect; an output has no fallback; a
fallback has its span, with the same reason. `ConsistentVerdicts`: two requests
that ask the same in one life are judged alike. Two handlers are enough for
each: the first two are about one request and one rival for the mutex, the last
about two requests.

**`gateway_restart`.** *A handler, the heartbeat, and a second life.* Here the
file can be damaged: a write fails and its newline does not, the process dies
between the two, and the next life appends to the open line. `DamageBounded`: a
line that is not one whole span is paid for by one failure, so neither
interleaving nor restart adds damage of its own. `ImplementsAuditTrail`:
each step is a step of `AuditTrail` or changes nothing in it.
`EveryRequestAnswered`: an accepted request is answered or its process dies.
`HeartbeatReturns`: the heartbeat gets the mutex and gives it back. The last two
under `FairSpec` (section 6), with I/O errors at every step and a death between.
Two lives are the fewest in which damage of one meets spans of another; the
handler's three spans and the heartbeat's one give every order of two callers at
the mutex.

**`ui_loader_freshness`.** *How stale can a page be?* `EditsSeen`: a call that
returns returns the current version, unless that version is younger than TTL
plus transit. Three calls are the fewest in which one fills the cache, one
overtakes it and puts an older version back, and one reads that; three versions
allow two edits, one of them to a file that is broken. `ConfiguredTTL` is 0 and
`DefaultTTL` stands for the 3600 that `|| 3600` makes of it. Five seconds are
longer than TTL and transit together. `OnlyParsed`: a broken version reaches
neither cache nor caller.

**`ui_pages`.** *Start-up, two pages, two clicks.* The page `page` has two
buttons of one operation with different arguments, with a failing operation
between them; `layout` is a composite layout that has a span of every kind,
files that hold no array, files that are missing. Each load may fail.
`RenderOrder`: what a task appends comes in the order of the files, depth first,
however long loads take and whatever other tasks do. `OwnArguments`: what a
click renders carries that click's argument or one that a handler's file says
itself, not that of another user of the cached handler. `PageComplete`: each
unconditional span of the entry file is there at the end, whichever spans
failed. `EveryTaskEnds` and `PageSettles`: tasks end, and the page leaves its
loading indicator, whichever script fails. Two clicks on the same operation are
what it takes to share a handler; the pages nest three loops.

**`ui_state`.** *A page that starts, changes its theme, and reads and writes its
state.* The page is opened with each of 72 queries, the network changes twice,
each script may fail to load. Then the parts are explored beside each other
where they meet and alone where they do not (`MCNext` says which): two switches
of theme overlap over files that change, fail, or hold nothing usable, and over
a list from `createThemeFile` whose token has no value; spans write, read and
copy the state while a theme is loaded and about to be applied. `ThemeAgrees`:
the tokens on the page are those the state names, with the name they carry,
whichever switch ends last or fails. `ConfigsAgree`, for every query: `init.js`
asks for `postgres_config.js` iff `runtime_config.js` has settled on postgres,
and so does its authentication; `config.js` has the environment of `ACTIVE`; it
has the same database iff the query names one that `runtime_config.js` knows, or
`none`, and the same authentication iff it names one that both know. Without
`?db=` they differ (section 9). `DisplaysCurrent`: a display shows what is at
its path, whether it was written by its path, by one above or below, through
another path to the same object, by an input, a copy or a theme. Excepted are
displays older than the last `assign_to`, which may be one event behind, and
values that contain themselves. Three paths are a field, a field below it, and a
second name for the object; two displays let one copy what the other shows.

**`affair_life`.** *One request through rules, contracts, watchdog and a crash.*
Affairs meet only in what the watchdog's query returned, where each turn of the
loop writes to one of them, so one affair shows what an affair can suffer; the
theorems hold for any number. The watchdog's query may be stale, contracts may
end late or not at all, the key file changes between two reads (a token is in
the file, is not, belongs to another tenant, or is the word in the comment), the
process dies once. `OkOnlyIfAdmitted`: 200 is answered only for the one route
and with a token that ends a line of the key file which begins with the tenant
named in the span: a late contract may write the tenant of another reading of
the file, never one that does not go with the token. That the line is an entry
is not said, and not so (section 9). `OneAnswerUnlessReaped` and
`LifecycleKept`: an affair that the watchdog has left alone is answered once at
most and goes through the states in the documented order. `Settles`: the
watchdog alone brings every affair to a terminal state for good, whatever rules
and contracts do. `EveryAffairAnswered`: if rules fire, the request is answered,
or the process has died. Timeout 1 lets a step happen before and after it.

**`dispatcher`.** *A request, the affair made of its result, a runtime that
fails.* The request is of any kind; the language model names a runtime, names
nothing or fails; a runtime goes down or becomes unreachable between any two
steps, and may recover; the watchdog publishes what it found some steps ago, and
its restart may fail. `GivenAsDecided`: an affair is given to runtimes once for
its classification and once for each fallback that has rerouted it, and never
twice to the core; one of the UI is given to the UI alone, and one of the core
to the UI for a fallback only. Dispatch and fallback both act on one approval,
and a publication matches the fallback again while a run of it waits, so the run
has behaviours in which a span reaches both runtimes, and the UI twice: each
time there is a decision behind it. `DeniedNeverSent`: a restart that the policy
denies reaches no runtime and no rule acts on it again, although the fallback
sends affairs back to the policies. Two fallbacks that wait (`MaxPending`) are
the fewest that give the UI a span twice. `EveryAffairServed`: an affair fails,
or is executed wherever it was given, or waits for a runtime that nobody starts
again (`Forsaken`: it is `down`, which the watchdog lets be, or `unreachable`
after a restart that failed and ended the watchdog). Affairs meet in the
watchdog only, so the second one starts when the first, one of the core, has
nothing left to do and runtimes and watchdog are as at the start; that it may
fail as the first did is then all it adds.

**`state_builder`.** *Two spans, two rebuilds, three failures.* Three failures
are what it takes for a retry to give up. A call may fail before or after it
took effect. `StoreFaithful`: when spans have been applied one at a time, and
rebuilds have been alone, and no call has failed, since the start or since the
last rebuild that began alone, then the store is exactly the projection of the
timeline, whatever was in it before. `NothingLost`: whenever nothing is under
way, the store has every span but those that were given up, and of a user's
profiles that one or a newer, but those that an older one was late enough to
write over (`overtaken`): also when a flush came between the two writes of a
rule, or two rebuilds flushed under one another. Contracts may be listed twice
and out of order. Two spans are the fewest that overtake, two rebuilds the
fewest that overlap; calls fail beside one rebuild, two rebuilds overlap without
failures.

**`console`.** *Two goals and a command.* The table knows one goal; the model
answers the other with a span that violates the first clause and one that
violates none, with a span that violates both, or with a text that is no JSON,
or it fails. `VerdictsKept`: a goal that is ready has a verdict on each span,
valid iff no clause is violated (not just the last), and exactly its violations
are registered, whatever the other goal does. `EveryIntentEnds`: a goal becomes
ready (also when the model failed, with nothing proposed) unless its rule was
stopped by an answer that is no JSON or an enforcement that failed, in which
case it keeps its status for ever (`Stopped` says which), and a command comes to
rest in a final status, though `completed` may follow `failed` and the other way
round.

**`interpreter_runs`.** *Two runs in one directory.* Each has any of seven
files: the repository's example, nested loops, every kind of condition, input in
a condition, in a text and in a `when` (the user may type `true`), exits in each
place an expression is evaluated, and an empty file. `TraceFollowsOutput`: every
span in the shared file says what its run printed in that line, the spans of a
run are in order, none is there twice, and none is missing before the run's
first failed write, but for the line a kill came in between; from that write on
all are missing, because the encoder keeps the error. `OutputAsWritten`: a run
prints what its file means. `Meaning` says that by the structure of the tree,
without a stack: a meaning is, for the value of `item` it starts with, the set
of what may come of it (the lines, the `item` it leaves, whether the run left
with `syscall.exit()`), and the meaning of a block is made of those of its
children, in sequence (`Then`, `Chain`), by choice, or once for each item. A
loop leaves its last item behind. What a plugin answers is a choice there as
well. A run that ends has printed all of one of the outputs its file may have,
one that exits all up to an exit, one that is under way or was killed a part of
one. `Depth` is how deep a block is nested, at most two here, with a loop in a
loop. Two runs suffice to overwrite one another; a third adds only more of the
same lines.

`TypeOK` is checked in one run of each specification. In `UiDispatch` and
`Interpreter` it also says that a task or a run that is at work has a place to
be at.

## 6. Fairness

*Gateway.* `Fairness`: a goroutine that can run does run, so each handler and
each holder of the mutex has weak fairness. For the mutex, strong fairness: a
Go mutex may be barged, but passes to its oldest waiter once that has waited for
1 ms, so a waiter cannot be passed over for ever. Whether a script ends is not
up to the server: `ScriptsTerminate` is a separate assumption, part of
`FairSpec`. No fairness is assumed for connections, crashes or restarts.

*UiDispatch.* `FairSpec` has one weak fairness: the browser does not stop while
something is left to run or a load is under way. A load that neither resolves
nor rejects is excluded by it (browsers time out). Which of several tasks goes
on is left open; users are not fair.

*ApiAffair.* `WatchdogFairness`: time goes on, systemd restarts the process
(`Restart=on-failure`), the watchdog is started every interval and its loop ends.
Nothing is assumed of rules and contracts. `EveryAffairAnswered` has its own
premise, `RulesFire`; crashes are bounded by `MaxCrashes`, so `Settles` says
what happens after the last.

*Dispatcher.* Weak fairness for the rules of each affair, for each affair in the
queue of each runtime, and for the watchdog: the engine does not put off an
affair for ever, a runtime that is up works its queue off, the watchdog repeats
until a restart has failed. That a runtime recovers is not assumed: the watchdog
restarts one it cannot reach, if the restart does not fail, and one that reports
itself `down` may stay so.

*Console.* The engine runs the rules that were matched, those of each goal, the
evaluation of each command and its history rule; a rule that was stopped has
nothing left to run. Nobody has to type.

*UiLoader, UiState, StateBuilder, Interpreter.* Safety only, no fairness.

## 7. What is proved

Eight modules hold the proofs. They use no assumption but those named in the
modules (`GatewayAssumption`, `UiLoaderAssumption`, `UiThemeAssumption`,
`UiStateAssumption`, `UiDispatchAssumption`, `SpansAssumption`,
`HandlerSpansAssumption`, `ApiAffairAssumption`, `DispatcherAssumption`,
`StateBuilderAssumption`, `GuardianAssumption`, `InterpreterAssumption`,
`MeaningAssumption`). These say what sorts the constants have, that special
values are different from others, that files hold spans or blocks of the known
shapes, and that a tree of blocks is a tree (`Depth`, which a file has because
it was parsed); TLC evaluates them in every run. The theorems hold for any
number of requests, tenants, keys, lives, calls, files, pages, clicks, affairs,
runs, blocks and plugins, themes, switches, displays, spans, rebuilds, goals,
commands and clauses, for lists and trees of any length and depth, and for
every bound. Each invariant that a run checks is a theorem.

*Induction over data.* The provers cannot instantiate an induction theorem
that has a predicate as its parameter. Where a property speaks of a walk along
a path, a fold or a tree, the models use recursive functions over an interval
of numbers, and the proofs get their induction from sets: a set of numbers that
is not empty has a least element (`LeastNatural`), so a set that has 0 and is
closed under successor up to `n` has every number up to `n` (`UpTo`). The same
argument shows that a recursive function is there at all (`Iterated`,
`UptoExists` and their like), which a definition by CHOOSE does not give for
free.

**`GatewayProofs`.** *`TypeCorrect`, `LockExact`, `SpansInOrder`,
`NoUnauditedExecution`, `AnswersAgreeWithTrail`, `OneVerdictPerLife`,
`LinesWhole`, `GatewayImplementsAuditTrail`.* The inductive invariant is `TypeOK
/\ TimelineLocked /\ HandlersInOrder`. `AuditBeforeExecute` and
`AnswerMatchesTrail` are not inductive: that a request in state `run` has its
request span says nothing before the script is started. `HandlersInOrder` says
for each state of a handler exactly which of its four spans are accounted for,
and for the one in hand whether it has been written. The proof goes in three
layers: what each step of `appendSpan` does to the account (`AppendEffect`: it
adds the caller's pending span or nothing), that a step of one goroutine leaves
the spans of the others alone (`HandlerFrame`, `HandlersAreLocal`), and one step
for each action. The refinement uses the invariant for the guards of
`AuditTrail`: a span that is about to be written is due (`PendingIsDue`), a
script that starts is one that may, an answer is justified. `ConsistentVerdicts`
rests on `OneJudge`: who is in flight arrived in this life, and the verdicts of
this life agree with the config of this life; a restart puts every earlier
verdict out of reach. `DamageBounded` is inductive once it counts the line that
is owed (`Owing`): a write that left nothing leaves an empty line that is there
only after the newline.

**`UiProofs`, the loader.** *`TypeCorrect`, `BrokenContained`,
`BoundedStaleness`.* `EditsSeen` rests on two ages: a response under way is
either current or was read before the present version came (`ResponseAge`), and
an entry is either current or was stamped within `Transit` after that
(`EntryAge`). With `BodyIsThere` and `OnlyParsed` they are inductive; a hit then
adds TTL to `Transit`.

**`ApiAffairProofs`.** *`TypeCorrect`, `OkJustified`, `OneAnswer`, `InOrder`.*
`OneHand` is the heart: an affair that the watchdog has not touched is in one
pair of hands, an update that waits for its rule or a contract that matches its
status, so nothing else can write to it. `Unanswered` adds that while it is in
those hands it has no answer, `Untouched` that the watchdog knows none that
does not exist. `OkOnlyIfAdmitted` does not depend on that, since it has to hold
for affairs with many hands: `Grounds` says that every update and every contract
under way owes its existence to a line of the key file, and every `completed`
also to the one path. `validate_token` may run late and name another tenant, and
`AdmittedStays` shows that it still names one whose line that token ends.

**`UiProofs`, the themes.** *`ThemeTypeCorrect`, `ThemeAgreesAlways`,
`ConfigsAgreeAlways`.* `ThemeAgrees` needs that no theme is on the page before
`main.js` has run, since `runtime_config.js` names the saved theme without
applying it (`SwitchesLate`), and that a switch that is about to be applied
holds tokens of its own path (`SwitchesHold`). `ConfigsAgree` follows from what
the type says of `config` and a lemma about all queries (`QueryRead`), those
with values no program knows included. The type of the cache says no more than
the code does: any list that is not empty.

**`UiProofs`, the state.** *`PageThemes`, `UiStateTypeCorrect`,
`DisplaysAreCurrent`.* `PageThemes` is a refinement with the identity as its
mapping: `UiState` adds actions and variables to `UiTheme`, and each of its
steps is a step of `UiTheme` or leaves its variables alone, so the theorems
about themes hold of the page. `StateInv` says that every reference in the state
leads to an object, that every listener has keys that are paths, and that nobody
listens before the page is initialized. It is preserved because a walk along a
path stays in the graph (`Descend` at each step, for a path of any length) and
because a write and an event only let the graph grow. For `DisplaysCurrent` the
event is the point: a display reads the state as the listeners before it have
left it, so it is current unless a listener after it assigns. That is what the
property excepts, and the proof shows that nothing else need be.

**`UiDispatchProofs`.** *`TypeCorrect`, `RendersInOrder`, `ArgumentsAreOwn`,
`PageIsComplete`.* `Inv` is the type, with what a stack may hold and that the
cache holds what the files hold (`Data`), that nothing has begun before the page
is initialized (`Starts`), and that a task awaits a file only for a span that
needs it (`Needs`). On top of it each property has one conjunct of its own.
`InOrder`: the last thing shown comes before the place that *any* loop of the
stack would give its next span. It has to be said of every loop, since the top
one may end at any time; it is preserved by a push, by a pop, and by a loop that
gives its place to another. (For this a stack is reduced to its counters,
`Counts`, and the order to one on sequences of numbers, `NextAt`.) `OwnOnly`:
what lies ahead in the stack of a click is a span of a handler, or an operation
with this click's argument; `HandlerSpans` closes the set under what spans lead
to. `Progress`: as long as the loop over the entry file is at the bottom of the
stack, its spans are shown up to where it is, and when it is gone they are all
shown, whatever was thrown and caught above it.

**`DispatcherProofs`.** *`TypeCorrect`, `GivenOnce`, `DeniedStays`.* The
statuses say little, since each update writes over whatever is there. The
invariant counts instead: the runs under way before an affair has a target
(`Undirected`) and after (`Directed`), those that give it to a runtime together
with the times it was given (`Given`), and those that fall back (`Falling`).
`Owed` is the heart: all that leads to a runtime is owed to the classification
or to a fallback, one for one, and the core is chosen by the classification
alone. `Ordered` says that nothing falls back before the approval, `Suited` that
the target suits the type of the span but for a fallback, `Delivered` that what
a runtime has was given to it, `Refused` that a denied affair is before the
policies or at its end. They are stated for one affair (`AffairInv`), with a
lemma for each rule; `Frame` shows that a step of another affair, of a runtime
or of the watchdog leaves them alone, but for the runs of the fallback that a
publication starts, any number of them.

**`StateBuilderProofs`.** *`TypeCorrect`, `NothingIsLost`, `StoreIsFaithful`.*
`NothingLost` speaks of moments when nothing is under way; the invariant says it
for all: each span is reflected in the store, or was given up or overtaken, or
is ahead of a rebuild that will replay it, or is being applied by a run of the
rule that has not gone past what the store lacks (`Covered`). A flush takes
every span out of the store and thereby puts it ahead of its rebuild; a run
whose first write is flushed away leaves its span to the rebuild that flushed; a
write takes nothing out of the store but the profiles it overtakes
(`WritesKeep`). `StoreFaithful` compares the store with a fold over the timeline
(`Upto`). `CalmInv` says what it is while it is calm: nothing is under way and
the store is the whole fold (`AtRest`); or one run applies the last span to the
fold of those before it (`OneRule`); or one rebuild is alone, and the store is
the fold over what it has replayed, with as much of the next span as the run
under way has written (`Alone`). A span that arrives adds to the fold and
changes nothing of it (`UptoExtends`, by the least length at which it would).

**`ConsoleProofs`.** *`TypeCorrect`, `VerdictsCorrect`.* The invariant follows
the two loops: the verdicts so far are right (`Verdicts`), the flag of the span
in hand is right for the clauses so far (`Current`), what is registered is each
violation up to that clause of that span and nothing beyond it (`Registered`),
and the list is complete when the affair is ready (`Phase`). A rule that was
stopped leaves all this as it is. `AttemptsLeft` is what the type of a command
needs.

**`InterpreterProofs`.** *`TypeCorrect`, `TraceExact`, `PrintsWhatIsMeant`.* The
invariant of the trace is `TypeOK /\ Fresh /\ Printed /\ TraceFollowsOutput`: a
line that is being recorded is the last that was printed, is a text, and comes
after all that the run has in the file (`Printed`, `Fresh`). That a failed write
ends the trace of its run is part of `TraceFollowsOutput` itself (`Lost`), and
preserved because `Record` looks at `encErr`. Each action either only adds lines
that are not recorded (`Quiet`), prints a text, or writes it; another run's span
never changes what is said of this one.

`PrintsWhatIsMeant` compares two accounts of a file: one that walks it with a
stack, and one given by its tree. `Follows` connects them: what the stack has
yet to do has a meaning of its own (`Remaining`, the meanings of its frames one
after another), and whatever may come of that, after the lines printed so far,
may come of the file. A step takes a block off a frame, or a frame off the
stack, or puts one on; what the steps need is that `Then` is associative, that
`Still` is its unit, and that `Chain` goes on from its first element. A block's
meaning does not depend on how deep the trees are taken to be (`MeansParts`, by
induction on `Depth`), and since a meaning is never empty, what is printed at
any moment is the beginning of something whole.

**Only model-checked.** Liveness (`EveryRequestAnswered`, `HeartbeatReturns`,
`EveryTaskEnds`, `PageSettles`, `Settles`, `EveryAffairAnswered`,
`EveryAffairServed`, `EveryIntentEnds`), which needs ENABLED and is out of the
prover's reach.

## 8. What is not modelled

The inventory says it for each component. In short: shell scripts and
declarations that no engine in the repository gives a meaning to; programs
whose state is one value (kernel and runner); pure functions of text (the test
runtime, the debug toolbar).

Within what is modelled, these are left out: the text of spans, HTTP headers,
timestamps, styles and the DOM; rotation or truncation of the timeline by an
operator; two gateways on one file (`restart_gateway.sh` could leave the old
one); the expiry of the cache in `UiDispatch`; the torn line of a failed write
in `Interpreter` (whose encoder then writes no more); the `process_reaped` span;
`persist_state` and `load_state`, which have handlers and no implementation; a
crash of the engine under `Dispatcher`, `StateBuilder` and `Console`, whose
contracts say nothing of one; an engine for the contracts that delivers updates
twice or not at all, and updates of spans that fail.

The hazards that `PROJECT.json` lists without a property are seven. For five the
model has what may happen and the repository does not say what should: a body
cut short by a client that leaves, a cache meant to be off that keeps entries
for an hour, a crash between the terminal update and the answer, the item a loop
leaves to the loop around it, a result that becomes an affair whose result
becomes another. Two are assumptions: scripts end (`ScriptsTerminate`), and the
mutex does not let a waiter starve (section 6).

## 9. Where the code and its documents disagree

Two have a run that shows them, with the shortest behaviour TLC finds.

* `ui_demo`, `UnidirectionalFlow`. `handlers/set_state_handler.logline` holds a
  span with operation `set_state` and the same arguments, which
  `main.js:268` sends to the dispatcher again; `ui_runtime/README.md:36` promises
  one direction of flow. The first section of the demo page dispatches it and the
  page stops there.
* `affair_final`, `TerminalIsFinal`. The watchdog updates what its query returned
  without another look, and a contract it has given up still ends: a completed
  affair becomes failed, a failed one becomes something else;
  `api_gateway/README.md:18` calls both states terminal.

Seen on the way, without a run:

* *Gateway.* `server.go:134` waits for the script without a bound;
  `contracts/route_to_app.logline:8` gives it 5000 ms. The README says that all
  activity is recorded, and a path of fewer than two segments is answered 404
  without a span (`AuditTrail` says so). The README's requests use tenants that
  the shipped `tenants.json` does not have.
* *API gateway.* `testlab/api_gateway.test.logline` sends a whole line of
  `api_keys.txt` as its token and expects to be authenticated;
  `validate_token.logline:36` matches what follows the colon and answers 401. The
  same line matches every line of the file, the comment at `api_keys.txt:2` that
  shows the format included: its last word passes for a token, of a tenant called
  `# Formato`.
* *UI.* The catch at `main.js:85` names `mainContent`, a constant of the try
  block: the handler of the error fails and nothing is shown. `logToConsole`,
  which `set_state` and `set_theme` call last, is defined nowhere: both throw
  when all is done, and `set_theme` then adds an error box to the page. The
  saved theme is named in `uiState` at the start, and its tokens are not
  applied. `null` is shown as the fallback when a span is rendered and as `null`
  at the next event. A change of the network sets `uiState` without an event, so
  displays of it stay as they were. Whether `POSTGRES_CONFIG` is there is asked
  before `postgres_config.js` is loaded, from a directory that does not exist.
  `getActiveConfig` takes the settings of the environment that `?env=` names and
  leaves `ENV` at `development`, which `runtime_config.js:16` calls the current
  environment, which `init()` copies to `uiState.config.env` and `index.html`
  tests before it shows the debug toolbar. `?vm=1` in development gives
  `config.js` the remote host without SSL. Without `?db=` `config.js` settles on
  postgres and JWT, `runtime_config.js` on no database and local authentication;
  of an unknown database `config.js` takes the name, and `runtime_config.js`
  none. `createThemeFile` checks that its list is not empty and caches tokens
  without name or value, which show up as `undefined`.
* *Dispatcher.* `fallback_if_runtime_down.logline:3` and `:26` speak of an
  affair that is sent elsewhere *instead*. The dispatch to the core matches the
  same approval, so the core has the span in its queue, for when it is up again,
  and the UI is given it as well, or twice, if the watchdog publishes again
  before the first fallback has run (`GivenAsDecided` allows for that).
  `runtime_dispatcher.logline:51` says that the result closes the life of an
  affair; a fallback of the same approval that has not rerouted it yet takes the
  completed affair back to `classified`. Results are intercepted like requests,
  so each makes an affair whose result makes another. The watchdog restarts a
  runtime that is `unreachable`, never one that is `down`, and a restart that
  fails has no `on_failure`, so that nothing is watched any more.
* *State builder.* `state_builder/README.md:3,5` promises a rebuild of total
  fidelity and a state that is always a projection of the timeline. Nothing
  orders the runs of the rule: when two of them overlap, or a replay is beside a
  live run, the older profile of a user may stay, with nothing under way and no
  call failed, and a contract that is applied by its own run and by the replay
  is listed twice. `StoreFaithful` says when the promise holds, `NothingLost`
  what holds otherwise. `state.updated` is reported when every attempt has
  failed. A rebuild that failed to flush goes on to `completed`. Three of the
  six tracked types have no case.
* *Guardian and REPL.* A goal whose model failed goes on to
  `ready_for_execution`, a status nothing reads, if `JSON_PARSE` takes no
  response for nothing; if not, and whenever the model answers a text that is no
  JSON or the constitution cannot be read, the goal keeps the status it had for
  ever, since nothing looks for goals that stand still; a command whose attempts
  all failed goes on to `completed`. A command with a blank after its name is
  asked no confirmation. `show_output` and `command_metrics` wait for types of
  span nobody makes.
* *Interpreter.* `chronicler.go` logs a write that fails and goes on as if the
  next might succeed; its `json.Encoder` keeps the first error, so all later
  spans of the run are lost. A `when` over an input never opens, since what is
  typed is a text. Without `spans.jsonl` it prints everything and panics at the
  end; `{{ x }}` with blanks before the closing braces is looked up with the
  blank; the expected output in the main README lacks two lines that the program
  prints.

## 10. The plan

What the first plan listed is done: the dispatcher, the state builder, the
guardian with the constitution, the REPL, and the state and theme runtimes; and
every invariant that a run checks is proved. What is left, in this order:

1. An abstract specification of a dispatch (each decision executed once at most)
   with `Dispatcher` shown to implement it, and of the store as a fold with
   `StateBuilder` shown to reach it when it is calm.
2. The engine's assumptions in a module of their own: `ApiAffair`, `Dispatcher`
   and `Console` each have the part they need.
3. A crash of the engine under the contracts, once one of them says what is left
   of rules under way.

## 11. Running it

    tlc -config MCGateway_handlers.cfg MCGateway
    tlapm GatewayProofs.tla

and likewise for the other configurations and the other seven modules of proofs.
The runs take between seconds and two minutes with two workers.
`PROJECT.json` names for each run its module, configuration and properties.
