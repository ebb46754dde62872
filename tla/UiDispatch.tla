----------------------------- MODULE UiDispatch -----------------------------
(***************************************************************************)
(* Rendering and dispatching in ui_runtime/main.js.  A task is one chain   *)
(* of awaited calls: the theme span and bootstrapLogLineUI, which          *)
(* index.html starts together once init.js has loaded what they need, and  *)
(* a chain for every click on a button.  All run on one thread and give    *)
(* way to one another at each await.                                       *)
(*                                                                         *)
(* A task is a stack of frames, one per loop over a list of spans: of      *)
(* renderSpans, of handleOperationViaDispatcher or of renderUnknownCompo-  *)
(* nent.  A span is a record: its kind says which branch of renderSpan and *)
(* renderUIComponent it takes, name is its operation, component type or    *)
(* file, arg the one value that is told apart in it (Hole: a {{...}}),     *)
(* cond and visible are its `if' and `visible_if', body its children.      *)
(***************************************************************************)
EXTENDS Integers, Sequences

CONSTANTS
  Clicks,               \* the clicks the user may make
  Theme, Boot,          \* the two tasks of the page
  Files, Loadable, Arrays,  \* files that are served as JSON, those that hold arrays
  Disk,                 \* the spans in each file
  Spans, HandlerSpans,  \* all spans there are; those that handlers lead to
  Entries,              \* the files the page may be asked for: ?file=...
  Dispatcher,           \* dispatcher.logline
  HandlerOf,            \* what it says: operation -> handler file
  HandlerFor,           \* component type -> handlers/<type>_handler.logline
  ThemeSpan,
  Paths, Always,        \* paths into uiState; no condition
  Hole, Blank,          \* a placeholder; what becomes of one that has no value
  MaxInputs             \* bound: changes the user makes to uiState

Tasks == Clicks \cup {Theme, Boot}

ASSUME UiDispatchAssumption ==
  /\ Theme \notin Clicks /\ Boot \notin Clicks /\ Theme # Boot
  /\ Arrays \subseteq Loadable /\ Loadable \subseteq Files
  /\ Entries \subseteq Files /\ Dispatcher \in Files
  /\ {Always, Blank} \cap Paths = {} /\ Always # Blank /\ Hole \notin {Always, Blank}
  /\ MaxInputs \in Nat

(* A part is what a layout lists: files do not hold any by themselves.     *)
ASSUME SpansAssumption ==
  /\ Spans \subseteq
       [kind : {s.kind : s \in Spans}, name : {s.name : s \in Spans},
        arg : {s.arg : s \in Spans}, cond : {s.cond : s \in Spans},
        visible : {s.visible : s \in Spans}, body : Seq(Spans)]
  /\ ThemeSpan \in Spans
  /\ Disk \in [Files -> Seq(Spans)]
  /\ \A f \in Files : \A i \in DOMAIN Disk[f] : Disk[f][i].kind # "part"

(* What a handler leads to is closed: the children of a container, and the *)
(* files that its spans include.                                           *)
SpansOf(f) == {Disk[f][i] : i \in DOMAIN Disk[f]}

ASSUME HandlerSpansAssumption ==
  /\ HandlerSpans \subseteq Spans
  /\ \A o \in DOMAIN HandlerOf : HandlerOf[o] \in Arrays => SpansOf(HandlerOf[o]) \subseteq HandlerSpans
  /\ \A s \in HandlerSpans :
       /\ \A i \in DOMAIN s.body : s.body[i] \in HandlerSpans
       /\ s.kind \in {"include", "part"} /\ s.name \in Arrays => SpansOf(s.name) \subseteq HandlerSpans
       /\ s.kind = "component" /\ HandlerFor[s.name] \in Arrays =>
            SpansOf(HandlerFor[s.name]) \subseteq HandlerSpans

VARIABLES
  stage,      \* init.js: the script it waits for, initialized, or its error screen
  phase,      \* each task: running, or the load it awaits
  stack,      \* its frames
  own,        \* the argument it was started with
  shown,      \* what it has appended to the document, in order
  entry,      \* the file the page was asked for
  cache,      \* logLineCache: the spans of the files loaded so far
  truthy,     \* the paths of uiState that hold something truthy
  inputs      \* changes made to uiState so far

taskVars == <<phase, stack, own, shown>>
stateVars == <<stage, entry, truthy, inputs>>
vars == <<taskVars, cache, stateVars>>

(* A loop over spans: those left, those done, the value of {{action...}},  *)
(* and the span that opened it.                                            *)
Frame(spans, n, arg, by) == [todo |-> spans, n |-> n, arg |-> arg, by |-> by]
Page == <<"page", "page", Hole>>

Top(t) == stack[t][Len(stack[t])]
Below(t) == SubSeq(stack[t], 1, Len(stack[t]) - 1)

(* interpolateSpanStrings on a copy of the span.                           *)
Fill(x, a) == IF x = Hole THEN a ELSE x
Interpolate(s, a) ==
  [s EXCEPT !.arg = Fill(@, a), !.cond = Fill(@, a), !.visible = Fill(@, a)]

Current(t) == Interpolate(Head(Top(t).todo), Top(t).arg)

(* evaluateCondition: a string is a path into uiState.                     *)
Holds(c) == c = Always \/ c \in truthy

Opener(t) == <<Current(t).kind, Current(t).name, Current(t).arg>>

Rest(t) == Below(t) \o <<[Top(t) EXCEPT !.todo = Tail(@), !.n = @ + 1]>>

(* Where the current span stands: its index in each loop that is running.  *)
Path(t) == [k \in 1..Len(stack[t]) |-> IF k = Len(stack[t]) THEN Top(t).n + 1
                                                          ELSE stack[t][k].n]

Init ==
  /\ stage = "config"
  /\ phase = [t \in Tasks |-> "idle"]
  /\ stack = [t \in Tasks |-> <<>>]
  /\ own = [t \in Tasks |-> Hole]
  /\ shown = [t \in Tasks |-> <<>>]
  /\ entry \in Entries
  /\ cache = [f \in {} |-> <<>>]
  /\ truthy = {} /\ inputs = 0

-----------------------------------------------------------------------------
(* init.js: scripts are loaded one after another, and any may fail.  The   *)
(* configuration of PostgreSQL is asked for when ?db= or the configuration *)
(* says so; it is written by another program and need not be there.        *)

(* The catch starts over instead of rejecting.                             *)
loadConfigurationsAgain ==
  /\ stage \in {"config", "postgres"}
  /\ stage' \in {"main", "config"} \cup (IF stage = "config" THEN {"postgres"} ELSE {})
  /\ UNCHANGED <<taskVars, cache, entry, truthy, inputs>>

loadConfigurations ==
  /\ stage \in {"config", "postgres"}
  /\ stage' \in {"main", "error"} \cup (IF stage = "config" THEN {"postgres"} ELSE {})
  /\ UNCHANGED <<taskVars, cache, entry, truthy, inputs>>

(* main.js is there: index.html hears of it and starts both tasks.         *)
initializeRuntime ==
  /\ stage = "main"
  /\ \/ /\ stage' = "initialized"
        /\ phase' = [phase EXCEPT ![Theme] = "running", ![Boot] = "entry"]
        /\ stack' = [stack EXCEPT ![Theme] = <<Frame(<<ThemeSpan>>, 0, Hole, Page)>>]
     \/ stage' = "error" /\ UNCHANGED <<phase, stack>>
  /\ UNCHANGED <<own, shown, cache, entry, truthy, inputs>>

-----------------------------------------------------------------------------
(* loadLogLineFile, as its callers see it: what is cached is returned,     *)
(* other files are fetched, which may fail.  (UiLoader has the details.)   *)

Contents(f) == IF f \in DOMAIN cache THEN cache[f] ELSE Disk[f]

(* Whatever the server sends is cached. *)
LoadsAnything(f) == cache' = [g \in DOMAIN cache \cup {f} |-> Contents(g)]

Loads(f) ==
  /\ f \in Loadable
  /\ cache' = [g \in DOMAIN cache \cup {f} |-> Contents(g)]

Fails(f) == f \notin DOMAIN cache /\ UNCHANGED cache

-----------------------------------------------------------------------------
(* One step of a task.                                                     *)

Running(t) == phase[t] = "running" /\ stack[t] # <<>> /\ Top(t).todo # <<>>

(* The current span leaves something in the document.                      *)
AppendElement(t, what) ==
  shown' = [shown EXCEPT ![t] =
    @ \o <<[path |-> Path(t), what |-> what,
            name |-> Current(t).name, arg |-> Current(t).arg]>>]

(* The loop moves on.                                                      *)
Advance(t) == stack' = [stack EXCEPT ![t] = Rest(t)]

(* The spans of a handler or of an included file are rendered in the place *)
(* of the current span.  A loop that has nothing left to do gives its      *)
(* place to the new one: it could only return when that one has.           *)
Enter(t, spans, arg) ==
  stack' = [stack EXCEPT ![t] =
    IF Len(Top(t).todo) = 1
    THEN Below(t) \o <<Frame(spans, Top(t).n, arg, Opener(t))>>
    ELSE Rest(t) \o <<Frame(spans, 0, arg, Opener(t))>>]

Eligible(t, kinds) ==
  /\ Running(t)
  /\ Current(t).kind \in kinds
  /\ Holds(Current(t).cond) /\ Holds(Current(t).visible)

(* A false `if': nothing.  A false `visible_if': a hidden element.         *)
SkipSpan(t) ==
  /\ Running(t) /\ Current(t).kind # "invalid"
  /\ ~Holds(Current(t).cond)
  /\ Advance(t)
  /\ UNCHANGED <<phase, own, shown, cache, stateVars>>

HideSpan(t) ==
  /\ Running(t) /\ Current(t).kind # "invalid"
  /\ Holds(Current(t).cond) /\ ~Holds(Current(t).visible)
  /\ AppendElement(t, "hidden")
  /\ Advance(t)
  /\ UNCHANGED <<phase, own, cache, stateVars>>

(* renderTextBlock, renderInputBox, renderButton, and the error box that   *)
(* the catch of renderSpan makes of a span it cannot use.                  *)
ShowSpan(t) ==
  /\ \/ Eligible(t, {"text_block", "input_box", "button"})
     \/ Running(t) /\ Current(t).kind = "invalid"
  /\ AppendElement(t, Current(t).kind)
  /\ Advance(t)
  /\ UNCHANGED <<phase, own, cache, stateVars>>

(* The children are rendered after the spans that follow the container. *)
ContainerUnawaited(t) ==
  /\ Eligible(t, {"container"})
  /\ AppendElement(t, "container")
  /\ stack' = [stack EXCEPT ![t] = LET r == Rest(t) IN
       SubSeq(r, 1, Len(r) - 1) \o <<Frame(Current(t).body, 0, Top(t).arg, Opener(t)), r[Len(r)]>>]
  /\ UNCHANGED <<phase, own, cache, stateVars>>

renderContainer(t) ==
  /\ Eligible(t, {"container"})
  /\ AppendElement(t, "container")
  /\ stack' = [stack EXCEPT ![t] =
       Rest(t) \o <<Frame(Current(t).body, 0, Top(t).arg, Opener(t))>>]
  /\ UNCHANGED <<phase, own, cache, stateVars>>

(* The await of a loop is over.  A task without frames has ended.          *)
Return(t) ==
  /\ phase[t] = "running"
  /\ stack[t] # <<>> /\ Top(t).todo = <<>>
  /\ stack' = [stack EXCEPT ![t] = Below(t)]
  /\ UNCHANGED <<phase, own, shown, cache, stateVars>>

(* Spans that need a file: the dispatcher, an included file, the handler   *)
(* of an unknown component, a part of the layout.                          *)
Awaited == [operation |-> "dispatcher", include |-> "include",
            component |-> "component", part |-> "part"]

AwaitFile(t) ==
  /\ Eligible(t, DOMAIN Awaited)
  /\ phase' = [phase EXCEPT ![t] = Awaited[Current(t).kind]]
  /\ UNCHANGED <<stack, own, shown, cache, stateVars>>

(* The catch that is nearest: a box in the place of the span.              *)
Caught(t, what) ==
  /\ AppendElement(t, what)
  /\ Advance(t)
  /\ phase' = [phase EXCEPT ![t] = "running"]
  /\ UNCHANGED <<own, stateVars>>

Perform(t, f, arg) ==
  /\ Enter(t, Contents(f), arg)
  /\ phase' = [phase EXCEPT ![t] = "running"]
  /\ UNCHANGED <<own, shown, stateVars>>

-----------------------------------------------------------------------------
(* handleOperationViaDispatcher.                                           *)

FindHandler(t) ==
  /\ phase[t] = "dispatcher"
  /\ \/ /\ Loads(Dispatcher) /\ Dispatcher \in Arrays
        /\ Current(t).name \in DOMAIN HandlerOf
        /\ phase' = [phase EXCEPT ![t] = "handler"]
        /\ UNCHANGED <<stack, own, shown, stateVars>>
     \/ /\ Loads(Dispatcher)
        /\ ~(Dispatcher \in Arrays /\ Current(t).name \in DOMAIN HandlerOf)
        /\ Caught(t, "error")
     \/ Fails(Dispatcher) /\ Caught(t, "error")

validateHandler(spans) == spans # <<>> /\ \A i \in DOMAIN spans : spans[i].kind # "invalid"

(* The handler's own spans are interpolated, not copies of them. *)
RunHandlerInPlace(t) ==
  LET f == HandlerOf[Current(t).name] IN
  /\ phase[t] = "handler"
  /\ f \in Arrays
  /\ cache' = [g \in DOMAIN cache \cup {f} |->
       IF g # f THEN cache[g]
       ELSE [i \in DOMAIN Contents(f) |-> Interpolate(Contents(f)[i], Current(t).arg)]]
  /\ Perform(t, f, Current(t).arg)

(* An exception ends the loop it was thrown in. *)
RunHandlerUncaught(t) ==
  LET f == HandlerOf[Current(t).name] IN
  /\ phase[t] = "handler"
  /\ \/ /\ Loads(f) /\ f \in Arrays /\ validateHandler(Contents(f))
        /\ Perform(t, f, Current(t).arg)
     \/ /\ Fails(f) \/ (Loads(f) /\ ~(f \in Arrays /\ validateHandler(Contents(f))))
        /\ stack' = [stack EXCEPT ![t] = Below(t)]
        /\ phase' = [phase EXCEPT ![t] = "running"]
        /\ UNCHANGED <<own, shown, stateVars>>

RunHandler(t) ==
  LET f == HandlerOf[Current(t).name] IN
  /\ phase[t] = "handler"
  /\ \/ /\ Loads(f) /\ f \in Arrays /\ validateHandler(Contents(f))
        /\ Perform(t, f, Current(t).arg)
     \/ /\ Loads(f) /\ ~(f \in Arrays /\ validateHandler(Contents(f)))
        /\ Caught(t, "error")
     \/ Fails(f) /\ Caught(t, "error")

(* A file that does not load is not reported. *)
renderIncludeUncaught(t) ==
  LET f == Current(t).name IN
  /\ phase[t] = "include"
  /\ \/ Loads(f) /\ f \in Arrays /\ Perform(t, f, Hole)
     \/ Loads(f) /\ f \notin Arrays /\ Caught(t, "error")

(* renderInclude: the spans of the file know nothing of the action.        *)
renderInclude(t) ==
  LET f == Current(t).name IN
  /\ phase[t] = "include"
  /\ \/ Loads(f) /\ f \in Arrays /\ Perform(t, f, Hole)
     \/ Loads(f) /\ f \notin Arrays /\ Caught(t, "error")
     \/ Fails(f) /\ Caught(t, "error")

(* The context holds the span as `component', and the handlers that exist  *)
(* speak of `action': their placeholders come out empty.                   *)
renderUnknownComponent(t) ==
  LET f == HandlerFor[Current(t).name] IN
  /\ phase[t] = "component"
  /\ \/ Loads(f) /\ f \in Arrays /\ Perform(t, f, Blank)
     \/ Loads(f) /\ f \notin Arrays /\ Caught(t, "fallback")
     \/ Fails(f) /\ Caught(t, "fallback")

-----------------------------------------------------------------------------
(* bootstrapLogLineUI and renderCompositeLayout.                           *)

Layouts(spans) == {i \in DOMAIN spans : spans[i].kind = "layout"}

(* A layout is rendered in the place of the whole file.  When the entry    *)
(* cannot be used, the catch itself throws (mainContent is not in its      *)
(* scope) and the task ends with nothing shown.                            *)
bootstrapLogLineUI ==
  /\ phase[Boot] = "entry"
  /\ \/ /\ Loads(entry) /\ entry \in Arrays
        /\ LET spans == Contents(entry)
               first == CHOOSE i \in Layouts(spans) : \A j \in Layouts(spans) : i =< j
           IN stack' = [stack EXCEPT ![Boot] =
                <<Frame(IF Layouts(spans) = {} THEN spans ELSE spans[first].body, 0,
                        Hole, Page)>>]
        /\ phase' = [phase EXCEPT ![Boot] = "running"]
     \/ /\ Fails(entry) \/ (Loads(entry) /\ entry \notin Arrays)
        /\ phase' = [phase EXCEPT ![Boot] = "rejected"]
        /\ UNCHANGED stack
  /\ UNCHANGED <<own, shown, stateVars>>

(* A part that is no array is passed over; one that does not load ends the *)
(* layout, with the parts still to come.                                   *)
renderCompositeLayout(t) ==
  LET f == Current(t).name IN
  /\ phase[t] = "part"
  /\ \/ Loads(f) /\ f \in Arrays /\ Perform(t, f, Hole)
     \/ /\ Loads(f) /\ f \notin Arrays
        /\ Advance(t)
        /\ phase' = [phase EXCEPT ![t] = "running"]
        /\ UNCHANGED <<own, shown, stateVars>>
     \/ /\ Fails(f)
        /\ AppendElement(t, "error")
        /\ stack' = [stack EXCEPT ![t] = Below(t)]
        /\ phase' = [phase EXCEPT ![t] = "running"]
        /\ UNCHANGED <<own, stateVars>>

-----------------------------------------------------------------------------
(* The user.                                                               *)

Elements == UNION {{shown[t][i] : i \in DOMAIN shown[t]} : t \in Tasks}

(* The listener of renderButton (and of Enter in an input box).            *)
Click(t) ==
  /\ t \in Clicks /\ phase[t] = "idle"
  /\ \E b \in {e \in Elements : e.what = "button"} :
       /\ own' = [own EXCEPT ![t] = b.arg]
       /\ stack' = [stack EXCEPT ![t] = <<Frame(
            <<[kind |-> "operation", name |-> b.name, arg |-> b.arg,
               cond |-> Always, visible |-> Always, body |-> <<>>]>>, 0, Hole, Page)>>]
  /\ phase' = [phase EXCEPT ![t] = "running"]
  /\ UNCHANGED <<shown, cache, stateVars>>

(* The listener of an input box: what it is bound to changes.              *)
Input(p) ==
  /\ inputs < MaxInputs
  /\ \E e \in Elements : e.what = "input_box" /\ e.name = p
  /\ inputs' = inputs + 1
  /\ truthy' \in {truthy \cup {p}, truthy \ {p}}
  /\ UNCHANGED <<stage, taskVars, entry, cache>>

Step(t) ==
  \/ SkipSpan(t) \/ HideSpan(t) \/ ShowSpan(t) \/ renderContainer(t) \/ Return(t)
  \/ AwaitFile(t) \/ FindHandler(t) \/ RunHandler(t)
  \/ renderInclude(t) \/ renderUnknownComponent(t) \/ renderCompositeLayout(t)

Browser ==
  \/ loadConfigurations \/ initializeRuntime \/ bootstrapLogLineUI
  \/ \E t \in Tasks : Step(t)

User ==
  \/ \E t \in Tasks : Click(t)
  \/ \E p \in Paths : Input(p)

Next == Browser \/ User

Spec == Init /\ [][Next]_vars

(* Loads settle, and the browser does not stop while something is left to  *)
(* run.  (Which of several tasks goes on is left open: all of them end.)   *)
FairSpec == Spec /\ WF_vars(Browser)

-----------------------------------------------------------------------------
Ended(t) == phase[t] = "running" /\ stack[t] = <<>>

(* Types; a task awaits a file only on behalf of a span it stands at.       *)
TypeOK ==
  /\ stage \in {"config", "postgres", "main", "initialized", "error"}
  /\ phase \in [Tasks -> {"idle", "entry", "running", "dispatcher", "handler",
                          "include", "component", "part", "rejected"}]
  /\ \A t \in Tasks :
       /\ phase[t] \in {"idle", "entry", "rejected"} => stack[t] = <<>>
       /\ phase[t] \in {"dispatcher", "handler", "include", "component", "part"} =>
            stack[t] # <<>> /\ Top(t).todo # <<>>
  /\ DOMAIN cache \subseteq Loadable
  /\ truthy \subseteq Paths /\ inputs \in 0..MaxInputs

(* The order of the document: a container comes before what is in it.      *)
Precedes(p, q) ==
  \E k \in DOMAIN q :
    /\ \A j \in 1..(k - 1) : j \in DOMAIN p /\ p[j] = q[j]
    /\ k \in DOMAIN p => p[k] < q[k]

(* What a task appends comes out in the order in which the files say it,   *)
(* however long the loads in between take and whatever other tasks do.     *)
RenderOrder ==
  \A t \in Tasks : \A i \in DOMAIN shown[t] :
    i > 1 => Precedes(shown[t][i - 1].path, shown[t][i].path)

(* Handlers are shared through the cache, their arguments are not: what a  *)
(* click renders shows the argument of that click, or one that is written  *)
(* where handlers lead, or a placeholder that nothing fills in, never what *)
(* another task passed to the same handler.                                *)
OwnArguments ==
  \A t \in Clicks : \A i \in DOMAIN shown[t] :
    shown[t][i].arg \in {own[t], Blank, Hole} \cup {s.arg : s \in HandlerSpans}

(* An error costs one span: when the page has been rendered, each span of  *)
(* the entry file that needs no condition is there, whichever failed.      *)
PageComplete ==
  Ended(Boot) /\ Layouts(Disk[entry]) = {} =>
    \A i \in DOMAIN Disk[entry] :
      /\ Disk[entry][i].cond = Always
      /\ Disk[entry][i].kind \in {"text_block", "input_box", "button", "container", "invalid"}
      => \E j \in DOMAIN shown[Boot] : shown[Boot][j].path = <<i>>

(* Every task that starts ends, once loads settle.                         *)
EveryTaskEnds == \A t \in Tasks : phase[t] # "idle" ~> Ended(t) \/ phase[t] = "rejected"

(* A page that is opened does not load for ever: it comes to the error     *)
(* screen of init.js, to the end of what the entry file says, or to the    *)
(* rejection of bootstrapLogLineUI.                                        *)
PageSettles == <>(stage = "error" \/ Ended(Boot) \/ phase[Boot] = "rejected")

(* README: data and operations flow in one direction.  An operation does   *)
(* not come back, with the same argument, to the handler it came from.     *)
UnidirectionalFlow ==
  \A t \in Tasks : \A i, j \in DOMAIN stack[t] :
    i < j /\ stack[t][i].by[1] = "operation" => stack[t][i].by # stack[t][j].by
=============================================================================
