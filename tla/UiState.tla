------------------------------ MODULE UiState ------------------------------
(***************************************************************************)
(* The reactive state of the page: window.uiState, the paths into it       *)
(* (main.js) and set_state and get_state (state_runtime.js), together with *)
(* the start and the themes of UiTheme, which also write to it.            *)
(*                                                                         *)
(* uiState is a graph of objects, since assigning one copies a reference:  *)
(* heap[1] is the root, and a value is <<kind, what>>.  uiState.app is a   *)
(* record of its own; spans read the theme in it, and no span of this      *)
(* model writes it.                                                        *)
(***************************************************************************)
EXTENDS UiTheme, Sequences

CONSTANTS
  Fields,         \* names of properties of objects
  Keys,           \* paths that spans write and read, as sequences of fields
  ThemeKey,       \* the path of uiState.app.currentTheme
  Texts,          \* what spans and input boxes write
  NoKey,          \* a get_state span without assign_to
  MaxObjects,     \* bound: objects made by setValueByPath
  MaxObservers    \* bound: get_state spans on the page

ASSUME UiStateAssumption ==
  /\ \A k \in Keys : k \in Seq(Fields) /\ k # <<>>
  /\ NoKey \notin Keys /\ ThemeKey \notin Keys
  /\ MaxObjects \in Nat /\ MaxObservers \in Nat

VARIABLES
  heap,       \* the objects, each a function from fields to values
  observers   \* listeners of uiStateUpdated: [key, assign_to, shows]

uiStateVars == <<uiThemeVars, heap, observers>>

Undefined == <<"undefined", "">>
Null == <<"null", "">>
Text(t) == <<"text", t>>
Ref(n) == <<"object", n>>
Empty == [f \in Fields |-> Undefined]

(* user: null, data: {}.                                                   *)
UiStateInit ==
  /\ UiThemeInit
  /\ heap = <<[Empty EXCEPT !["user"] = Null, !["data"] = Ref(2)], Empty>>
  /\ observers = <<>>

-----------------------------------------------------------------------------
(* Paths.                                                                  *)

(* What is not an object has no properties.                                *)
getValueByPath(h, path) ==
  LET at[i \in 0..Len(path)] ==
        IF i = 0 THEN Ref(1)
        ELSE IF at[i - 1][1] = "object" THEN h[at[i - 1][2]][path[i]] ELSE Undefined
  IN at[Len(path)]

(* On the way to the last field, what is not an object becomes one.        *)
Descend(w, field) ==
  LET next == w.heap[w.at][field]
      new == Len(w.heap) + 1
  IN IF next[1] = "object" THEN [heap |-> w.heap, at |-> next[2]]
     ELSE [heap |-> Append([w.heap EXCEPT ![w.at][field] = Ref(new)], Empty), at |-> new]

setValueByPath(h, path, value) ==
  LET last == Len(path)
      walk[i \in 0..(last - 1)] ==
        IF i = 0 THEN [heap |-> h, at |-> 1] ELSE Descend(walk[i - 1], path[i])
      end == walk[last - 1]
  IN [end.heap EXCEPT ![end.at][path[last]] = value]

(* What a span reads, of either part of uiState.                           *)
Readable == Keys \cup {ThemeKey}
Read(h, a, key) == IF key = ThemeKey THEN Text(a.currentTheme) ELSE getValueByPath(h, key)

-----------------------------------------------------------------------------
(* Display.                                                                *)

(* JSON.stringify fails on an object that leads back to itself.            *)
Cyclic(h, value) ==
  LET deep[d \in 0..Len(h), v \in {value} \cup UNION {{h[o][f] : f \in Fields} : o \in DOMAIN h}] ==
        v[1] = "object" /\ (d = 0 \/ \E f \in Fields : deep[d - 1, h[v[2]][f]])
  IN deep[Len(h), value]

Json(h, value) ==
  LET json[d \in 0..Len(h), v \in {value} \cup UNION {{h[o][f] : f \in Fields} : o \in DOMAIN h}] ==
        IF v[1] # "object" \/ d = 0 THEN v
        ELSE <<"json", [f \in Fields |-> json[d - 1, h[v[2]][f]]]>>
  IN json[Len(h), value]

(* When the span is rendered null comes out as the fallback, at an update, *)
(* being of type object, as "null".                                        *)
Fallback == <<"fallback", "">>
Rendered(h, v) == IF v \in {Null, Undefined} THEN Fallback ELSE Json(h, v)
Updated(h, v) == IF v = Undefined THEN Fallback
                 ELSE IF v = Null THEN Text("null") ELSE Json(h, v)

(* triggerStateUpdate: every listener in the order of registration.  One   *)
(* that assigns writes without a further event; one that throws is passed  *)
(* over.                                                                   *)
Listened(h, a, o) ==
  IF o.assign_to = NoKey THEN h ELSE setValueByPath(h, o.assign_to, Read(h, a, o.key))

Heard(h, a, o) ==
  LET v == Read(h, a, o.key) IN
  IF o.assign_to # NoKey \/ Cyclic(h, v) THEN o ELSE [o EXCEPT !.shows = Updated(h, v)]

Notified(h, a) ==
  LET run[i \in 0..Len(observers)] ==
        IF i = 0 THEN h ELSE Listened(run[i - 1], a, observers[i])
  IN [heap |-> run[Len(observers)],
      observers |-> [i \in 1..Len(observers) |-> Heard(run[i - 1], a, observers[i])]]

triggerStateUpdate(h, a) ==
  LET n == Notified(h, a) IN
  /\ Len(n.heap) =< 2 + MaxObjects
  /\ heap' = n.heap /\ observers' = n.observers

-----------------------------------------------------------------------------
(* Spans and input boxes.                                                  *)

(* A literal, "$path", or a text whose placeholders are filled in.         *)
Values == {Text(t) : t \in Texts} \cup {getValueByPath(heap, k) : k \in Keys}

(* The event is sent before the value is written. *)
handleSetStateEarly(key, value) ==
  /\ stage = "initialized"
  /\ LET n == Notified(heap, app) IN
       heap' = setValueByPath(n.heap, key, value) /\ observers' = n.observers
  /\ Len(heap') =< 2 + MaxObjects
  /\ UNCHANGED uiThemeVars

(* logToConsole, called last, is defined nowhere: the exception comes when *)
(* all is done.  The listener of an input box does the same with a text.   *)
handleSetState(key, value) ==
  /\ stage = "initialized"
  /\ triggerStateUpdate(setValueByPath(heap, key, value), app)
  /\ UNCHANGED uiThemeVars

Observer(key, target, text) == [key |-> key, assign_to |-> target, shows |-> text]

(* The listener stays when the element is gone.  A value that cannot be    *)
(* shown throws before there is one.                                       *)
handleGetState(key) ==
  /\ stage = "initialized" /\ Len(observers) < MaxObservers
  /\ LET v == Read(heap, app, key) IN
       /\ ~Cyclic(heap, v)
       /\ observers' = Append(observers, Observer(key, NoKey, Rendered(heap, v)))
  /\ UNCHANGED <<uiThemeVars, heap>>

handleGetStateAssign(key, target) ==
  /\ stage = "initialized" /\ Len(observers) < MaxObservers
  /\ LET n == Notified(setValueByPath(heap, target, Read(heap, app, key)), app) IN
       /\ Len(n.heap) =< 2 + MaxObjects
       /\ heap' = n.heap
       /\ observers' = Append(n.observers, Observer(key, target, Fallback))
  /\ UNCHANGED uiThemeVars

ThemeApplied == \E s \in Switches : ApplyTheme(s) /\ triggerStateUpdate(heap, app')

UiStateNext ==
  \/ Quiet /\ UNCHANGED <<heap, observers>>
  \/ ThemeApplied
  \/ \E k \in Keys, v \in Values : handleSetState(k, v)
  \/ \E k \in Readable : handleGetState(k)
  \/ \E k \in Readable, t \in Keys : handleGetStateAssign(k, t)

UiStateSpec == UiStateInit /\ [][UiStateNext]_uiStateVars

-----------------------------------------------------------------------------
(* Types; every reference leads to an object.                              *)
UiStateTypeOK ==
  /\ UiThemeTypeOK
  /\ \A i \in DOMAIN heap : \A f \in Fields :
       heap[i][f][1] = "object" => heap[i][f][2] \in DOMAIN heap
  /\ \A i \in DOMAIN observers :
       observers[i].key \in Readable /\ observers[i].assign_to \in Keys \cup {NoKey}

(* A display shows what is at its path, whichever way it was written: by   *)
(* its path, by a path above or below, through another path to the same    *)
(* object, by an input box, a copy or a theme.  Excepted are displays that *)
(* were there before the last get_state with assign_to (they may be one    *)
(* event behind) and values that cannot be shown.                          *)
DisplaysCurrent ==
  \A i \in DOMAIN observers :
    LET v == Read(heap, app, observers[i].key) IN
    /\ observers[i].assign_to = NoKey
    /\ \A j \in (i + 1)..Len(observers) : observers[j].assign_to = NoKey
    /\ ~Cyclic(heap, v)
    => observers[i].shows \in {Rendered(heap, v), Updated(heap, v)}
=============================================================================
