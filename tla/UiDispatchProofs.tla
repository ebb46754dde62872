-------------------------- MODULE UiDispatchProofs --------------------------
(***************************************************************************)
(* What holds of rendering and dispatching for any pages, handlers and     *)
(* files, any number of clicks, and loads that take as long as they like   *)
(* or fail: order, arguments and completeness of what a page shows.        *)
(***************************************************************************)
EXTENDS UiDispatch, SequenceTheorems, NaturalsInduction, WellFoundedInduction, TLAPS

Phases ==
  {"idle", "entry", "running", "dispatcher", "handler", "include", "component", "part", "rejected"}
Kinds == {s.kind : s \in Spans} \cup {"operation"}
Names == {s.name : s \in Spans}
Args == {s.arg : s \in Spans} \cup {Hole, Blank}

(* What a loop may hold: the spans of files, and what a click makes.       *)
Items ==
  [kind : Kinds, name : Names, arg : Args, cond : {s.cond : s \in Spans} \cup {Always},
   visible : {s.visible : s \in Spans} \cup {Always}, body : Seq(Spans)]
Openers == (Kinds \cup {"page"}) \X (Names \cup {"page"}) \X Args
Frames == [todo : Seq(Items), n : Nat, arg : Args, by : Openers]
Shows ==
  [path : Seq(Nat), what : Kinds \cup {"hidden", "error", "fallback", "container"},
   name : Names, arg : Args]

Data ==
  /\ stack \in [Tasks -> Seq(Frames)] /\ own \in [Tasks -> Args]
  /\ shown \in [Tasks -> Seq(Shows)] /\ entry \in Entries
  /\ \A f \in DOMAIN cache : cache[f] = Disk[f]

(* Nothing is under way before init.js is done, or in a task that has not  *)
(* begun; and a task awaits a file for a span that needs it.               *)
Starts ==
  /\ stage # "initialized" => \A t \in Tasks : phase[t] = "idle"
  /\ \A t \in Tasks : phase[t] \in {"idle", "entry", "rejected"} => shown[t] = <<>>

Needs ==
  \A t \in Tasks :
    /\ phase[t] \in {"dispatcher", "handler"} => Current(t).kind = "operation"
    /\ phase[t] = "handler" => Current(t).name \in DOMAIN HandlerOf
    /\ phase[t] \in {"include", "component", "part"} => Current(t).kind = phase[t]

Inv == TypeOK /\ Data /\ Starts /\ Needs

(* The path that a span at level m of a stack would get next: what has     *)
(* been shown precedes it, at every level.                                 *)
Numbers(p, a) == DOMAIN p = 1..a /\ \A k \in 1..a : p[k] \in Nat
Counts(st) == [k \in 1..Len(st) |-> st[k].n]
NextAt(ns, m) == [k \in 1..m |-> IF k = m THEN ns[k] + 1 ELSE ns[k]]
After(p, ns) == \A m \in DOMAIN ns : Precedes(p, NextAt(ns, m))
InOrder ==
  \A t \in Tasks :
    /\ \A i \in 2..Len(shown[t]) : Precedes(shown[t][i - 1].path, shown[t][i].path)
    /\ shown[t] # <<>> => After(shown[t][Len(shown[t])].path, Counts(stack[t]))

(* All that a click can reach.                                             *)
OwnArgs(t) == {own[t], Blank, Hole} \cup {s.arg : s \in HandlerSpans}
OwnItem(t, s) ==
  s \in HandlerSpans \/ (s.arg \in OwnArgs(t) /\ s.kind = "operation" /\ s.body = <<>>)
OwnFrame(t, f) == f.arg \in OwnArgs(t) /\ \A i \in DOMAIN f.todo : OwnItem(t, f.todo[i])
OwnOnly ==
  \A t \in Clicks :
    /\ \A k \in DOMAIN stack[t] : OwnFrame(t, stack[t][k])
    /\ \A i \in DOMAIN shown[t] : shown[t][i].arg \in OwnArgs(t)

(* The spans of the entry file that PageComplete speaks of are shown up to *)
(* the place where its loop is, or all, when it has given way to another.  *)
Due(i) ==
  /\ Disk[entry][i].cond = Always
  /\ Disk[entry][i].kind \in {"text_block", "input_box", "button", "container", "invalid"}
There(i) == \E j \in DOMAIN shown[Boot] : shown[Boot][j].path = <<i>>
Upto(n) == \A i \in DOMAIN Disk[entry] : i =< n /\ Due(i) => There(i)
AtEntry ==
  /\ stack[Boot] # <<>>
  /\ LET f == stack[Boot][1] IN
       /\ f.n + Len(f.todo) = Len(Disk[entry])
       /\ \A i \in DOMAIN f.todo : f.todo[i] = Disk[entry][f.n + i]
       /\ Upto(f.n)
Progress ==
  phase[Boot] \notin {"idle", "entry", "rejected"} /\ Layouts(Disk[entry]) = {} =>
    Upto(Len(Disk[entry])) \/ AtEntry

-----------------------------------------------------------------------------
(* Sequences, and what becomes of the stack of a task.                     *)
LEMMA OnTop ==
  ASSUME NEW S, NEW s \in Seq(S), NEW x \in S
  PROVE  /\ s \o <<x>> \in Seq(S) /\ Len(s \o <<x>>) = Len(s) + 1
         /\ \A k \in 1..Len(s) : (s \o <<x>>)[k] = s[k]
         /\ (s \o <<x>>)[Len(s) + 1] = x
BY ConcatProperties

LEMMA Front ==
  ASSUME NEW S, NEW s \in Seq(S), s # <<>>
  PROVE  /\ Len(s) \in Nat \ {0} /\ s[Len(s)] \in S
         /\ SubSeq(s, 1, Len(s) - 1) \in Seq(S) /\ Len(SubSeq(s, 1, Len(s) - 1)) = Len(s) - 1
         /\ \A k \in 1..(Len(s) - 1) : SubSeq(s, 1, Len(s) - 1)[k] = s[k]
<1>1. Len(s) \in Nat \ {0}
  BY EmptySeq
<1> QED  BY SMTT(20), <1>1, SubSeqProperties

LEMMA TailIs ==
  ASSUME NEW S, NEW s \in Seq(S), s # <<>>
  PROVE  /\ Head(s) = s[1] /\ s[1] \in S /\ Tail(s) \in Seq(S) /\ Len(Tail(s)) = Len(s) - 1
         /\ \A i \in 1..(Len(s) - 1) : Tail(s)[i] = s[i + 1]
BY HeadTailProperties, EmptySeq

(* Spans as they come from files are items.                                *)
LEMMA SpansAreItems == Spans \subseteq Items
<1>1. ASSUME NEW s \in Spans PROVE s \in Items
  <2>1. s \in [kind : {r.kind : r \in Spans}, name : {r.name : r \in Spans},
               arg : {r.arg : r \in Spans}, cond : {r.cond : r \in Spans},
               visible : {r.visible : r \in Spans}, body : Seq(Spans)]
    BY SpansAssumption
  <2> QED  BY <2>1 DEF Items, Kinds, Names, Args
<1> QED  BY <1>1

LEMMA ListsAreItems ==
  ASSUME NEW s \in Seq(Spans)
  PROVE  s \in Seq(Items)
BY SpansAreItems, ElementOfSeq, SeqDef

(* A task that stands at a span.                                           *)
LEMMA AtSpan ==
  ASSUME Data, NEW t \in Tasks, stack[t] # <<>>, Top(t).todo # <<>>
  PROVE  /\ stack[t] \in Seq(Frames) /\ Len(stack[t]) \in Nat \ {0} /\ Top(t) \in Frames
         /\ Current(t) \in [kind : Kinds, name : Names, arg : Args,
              cond : {s.cond : s \in Spans} \cup {Always} \cup Args,
              visible : {s.visible : s \in Spans} \cup {Always} \cup Args, body : Seq(Spans)]
         /\ LET s == Top(t).todo[1] IN
              /\ s \in Items /\ Current(t).kind = s.kind /\ Current(t).name = s.name
              /\ Current(t).body = s.body /\ (s.cond # Hole => Current(t).cond = s.cond)
              /\ Current(t).arg = IF s.arg = Hole THEN Top(t).arg ELSE s.arg
<1>1. stack[t] \in Seq(Frames) /\ Len(stack[t]) \in Nat \ {0} /\ Top(t) \in Frames
  <2>1. stack[t] \in Seq(Frames)
    BY DEF Data
  <2> QED  BY <2>1, Front DEF Top
<1>2. Top(t).todo \in Seq(Items) /\ Top(t).arg \in Args
  BY <1>1 DEF Frames
<1>3. Head(Top(t).todo) = Top(t).todo[1] /\ Top(t).todo[1] \in Items
  BY <1>2, TailIs
<1>4. PICK s \in Items : s = Top(t).todo[1]
  BY <1>3
<1>5. PICK a \in Args : a = Top(t).arg
  BY <1>2
<1>6. Current(t) = [s EXCEPT !.arg = Fill(s.arg, a), !.cond = Fill(s.cond, a),
                            !.visible = Fill(s.visible, a)]
  BY <1>3, <1>4, <1>5 DEF Current, Interpolate
<1>7. /\ Current(t) \in [kind : Kinds, name : Names, arg : Args,
              cond : {r.cond : r \in Spans} \cup {Always} \cup Args,
              visible : {r.visible : r \in Spans} \cup {Always} \cup Args, body : Seq(Spans)]
      /\ Current(t).kind = s.kind /\ Current(t).name = s.name /\ Current(t).body = s.body
      /\ Current(t).arg = Fill(s.arg, a) /\ Current(t).cond = Fill(s.cond, a)
  BY <1>6 DEF Items, Fill
<1> QED  BY <1>1, <1>3, <1>4, <1>5, <1>7 DEF Fill

LEMMA BelowIs ==
  ASSUME Data, NEW t \in Tasks, stack[t] # <<>>
  PROVE  LET L == Len(stack[t]) IN
         /\ L \in Nat \ {0} /\ Below(t) \in Seq(Frames) /\ Len(Below(t)) = L - 1
         /\ \A k \in 1..(L - 1) : Below(t)[k] = stack[t][k]
<1>1. stack[t] \in Seq(Frames)
  BY DEF Data
<1> QED  BY <1>1, Front DEF Below

LEMMA RestIs ==
  ASSUME Data, NEW t \in Tasks, stack[t] # <<>>, Top(t).todo # <<>>
  PROVE  LET L == Len(stack[t]) IN
         /\ Rest(t) \in Seq(Frames) /\ Len(Rest(t)) = L
         /\ \A k \in 1..(L - 1) : Rest(t)[k] = stack[t][k]
         /\ Rest(t)[L].todo = Tail(Top(t).todo) /\ Rest(t)[L].n = Top(t).n + 1
         /\ Rest(t)[L].arg = Top(t).arg
<1>1. PICK f \in Frames : f = Top(t) /\ stack[t] \in Seq(Frames)
  BY AtSpan
<1>2. f.todo \in Seq(Items) /\ f.n \in Nat /\ f.todo # <<>>
  BY <1>1 DEF Frames
<1>3. PICK g : g = [f EXCEPT !.todo = Tail(@), !.n = @ + 1]
  OBVIOUS
<1>4. g \in Frames /\ g.todo = Tail(f.todo) /\ g.n = f.n + 1 /\ g.arg = f.arg
  <2>1. Tail(f.todo) \in Seq(Items)
    BY <1>2, TailIs
  <2>2. f.n + 1 \in Nat
    BY <1>2
  <2>3. g = [todo |-> Tail(f.todo), n |-> f.n + 1, arg |-> f.arg, by |-> f.by]
    BY <1>1, <1>3 DEF Frames
  <2>4. f.arg \in Args /\ f.by \in Openers
    BY <1>1 DEF Frames
  <2> QED  BY <2>1, <2>2, <2>3, <2>4 DEF Frames
<1>5. Rest(t) = Below(t) \o <<g>>
  BY <1>1, <1>3 DEF Rest
<1>6. Rest(t) \in Seq(Frames) /\ Len(Rest(t)) = Len(Below(t)) + 1
      /\ (\A k \in 1..Len(Below(t)) : Rest(t)[k] = Below(t)[k]) /\ Rest(t)[Len(Below(t)) + 1] = g
  BY <1>4, <1>5, BelowIs, OnTop
<1> QED  BY <1>1, <1>4, <1>6, BelowIs

(* A frame in the place of the top one, or on top of what is left.         *)
LEMMA Entered ==
  ASSUME Data, NEW t \in Tasks, stack[t] # <<>>, Top(t).todo # <<>>, NEW f \in Frames
  PROVE  LET L == Len(stack[t])
             over == Rest(t) \o <<f>>
             instead == Below(t) \o <<f>>
         IN /\ over \in Seq(Frames) /\ Len(over) = L + 1 /\ over[L + 1] = f
            /\ \A k \in 1..L : over[k] = Rest(t)[k]
            /\ instead \in Seq(Frames) /\ Len(instead) = L /\ instead[L] = f
            /\ \A k \in 1..(L - 1) : instead[k] = stack[t][k]
<1>1. /\ Rest(t) \o <<f>> \in Seq(Frames) /\ Len(Rest(t) \o <<f>>) = Len(Rest(t)) + 1
      /\ \A k \in 1..Len(Rest(t)) : (Rest(t) \o <<f>>)[k] = Rest(t)[k]
      /\ (Rest(t) \o <<f>>)[Len(Rest(t)) + 1] = f
  BY RestIs, OnTop
<1>2. /\ Below(t) \o <<f>> \in Seq(Frames) /\ Len(Below(t) \o <<f>>) = Len(Below(t)) + 1
      /\ \A k \in 1..Len(Below(t)) : (Below(t) \o <<f>>)[k] = Below(t)[k]
      /\ (Below(t) \o <<f>>)[Len(Below(t)) + 1] = f
  BY BelowIs, OnTop
<1> QED  BY <1>1, <1>2, RestIs, BelowIs

-----------------------------------------------------------------------------
(* What a step of a task does to its stack and to what it has shown.       *)
Standing(t) == stack[t] # <<>> /\ Top(t).todo # <<>>
Plain(t) ==
  /\ Current(t).cond = Always
  /\ Current(t).kind \in {"text_block", "input_box", "button", "container", "invalid"}
Whats == Kinds \cup {"hidden", "error", "fallback", "container"}

Showing(t) ==
  \E what \in Whats :
    shown'[t] = shown[t] \o <<[path |-> Path(t), what |-> what,
                              name |-> Current(t).name, arg |-> Current(t).arg]>>
Silent(t) == shown'[t] = shown[t] /\ ~Plain(t)

(* The files that the current span can lead to.                            *)
LeadsTo(t, f) ==
  /\ f \in Arrays
  /\ \/ \E o \in DOMAIN HandlerOf : f = HandlerOf[o]
     \/ Current(t).kind \in {"include", "part"} /\ f = Current(t).name
     \/ Current(t).kind = "component" /\ f = HandlerFor[Current(t).name]

Waits(t) ==
  /\ stack'[t] = stack[t] /\ shown'[t] = shown[t]
  /\ phase'[t] \in {"dispatcher", "handler", "include", "component", "part"}
  /\ phase'[t] \in {"dispatcher", "handler"} => Current(t).kind = "operation"
  /\ phase'[t] = "handler" => Current(t).name \in DOMAIN HandlerOf
  /\ phase'[t] \in {"include", "component", "part"} => Current(t).kind = phase'[t]

MovesOn(t) == stack'[t] = Rest(t) /\ (Showing(t) \/ Silent(t))

Opens(t) ==
  /\ Showing(t)
  /\ stack'[t] = Rest(t) \o <<Frame(Current(t).body, 0, Top(t).arg, Opener(t))>>

GivesWay(t) ==
  /\ Silent(t)
  /\ \E f \in Arrays, arg \in {Current(t).arg, Blank, Hole} :
       /\ LeadsTo(t, f)
       /\ \/ /\ Len(Top(t).todo) = 1
             /\ stack'[t] = Below(t) \o <<Frame(Disk[f], Top(t).n, arg, Opener(t))>>
          \/ stack'[t] = Rest(t) \o <<Frame(Disk[f], 0, arg, Opener(t))>>

GivesUp(t) == Showing(t) /\ Current(t).kind = "part" /\ stack'[t] = Below(t)

Effect(t) ==
  \/ Standing(t) /\ Waits(t)
  \/ /\ phase'[t] = "running" /\ Standing(t)
     /\ MovesOn(t) \/ Opens(t) \/ GivesWay(t) \/ GivesUp(t)
  \/ /\ phase'[t] = "running" /\ stack[t] # <<>> /\ Top(t).todo = <<>>
     /\ stack'[t] = Below(t) /\ shown'[t] = shown[t]

OthersStay(t) ==
  /\ \A u \in Tasks \ {t} :
       phase'[u] = phase[u] /\ stack'[u] = stack[u] /\ shown'[u] = shown[u]
  /\ phase' = [u \in Tasks |-> phase'[u]]
  /\ stack' = [u \in Tasks |-> stack'[u]] /\ shown' = [u \in Tasks |-> shown'[u]]

CacheKept == \A f \in DOMAIN cache' : f \in Loadable /\ cache'[f] = Disk[f]

LEMMA CacheSteps ==
  ASSUME TypeOK, Data
  PROVE  /\ \A f : Loads(f) => CacheKept /\ Contents(f) = Disk[f]
         /\ \A f : Fails(f) => CacheKept
         /\ UNCHANGED cache => CacheKept
BY DEF TypeOK, Data, Loads, Fails, Contents, CacheKept

(* An element in the place of the current span, and on to the next.        *)
LEMMA CaughtStep ==
  ASSUME Inv, NEW t \in Tasks, Standing(t), NEW what \in Whats, Caught(t, what)
  PROVE  Effect(t) /\ OthersStay(t) /\ UNCHANGED <<own, stateVars>>
<1>1. stack \in [Tasks -> Seq(Frames)] /\ shown \in [Tasks -> Seq(Shows)] /\ phase \in [Tasks -> Phases]
  BY DEF Inv, Data, TypeOK, Phases
<1>2. OthersStay(t) /\ phase'[t] = "running" /\ stack'[t] = Rest(t)
  BY <1>1 DEF Caught, AppendElement, Advance, OthersStay
<1>3. Showing(t)
  BY <1>1 DEF Caught, AppendElement, Showing
<1> QED  BY <1>2, <1>3 DEF Effect, MovesOn, Caught

LEMMA PerformStep ==
  ASSUME Inv, NEW t \in Tasks, Standing(t), NEW f, LeadsTo(t, f), Loads(f), ~Plain(t),
         NEW arg \in {Current(t).arg, Blank, Hole}, Perform(t, f, arg)
  PROVE  Effect(t) /\ OthersStay(t) /\ UNCHANGED <<own, stateVars>>
<1>1. stack \in [Tasks -> Seq(Frames)] /\ shown \in [Tasks -> Seq(Shows)] /\ phase \in [Tasks -> Phases]
  BY DEF Inv, Data, TypeOK, Phases
<1>2. Contents(f) = Disk[f] /\ f \in Arrays
  BY CacheSteps DEF Inv, LeadsTo
<1>3. OthersStay(t) /\ phase'[t] = "running" /\ UNCHANGED <<own, shown, stateVars>>
  BY <1>1 DEF Perform, Enter, OthersStay
<1>4. GivesWay(t)
  <2>1. stack'[t] = IF Len(Top(t).todo) = 1
                    THEN Below(t) \o <<Frame(Disk[f], Top(t).n, arg, Opener(t))>>
                    ELSE Rest(t) \o <<Frame(Disk[f], 0, arg, Opener(t))>>
    BY <1>1, <1>2 DEF Perform, Enter
  <2> QED  BY <1>2, <1>3, <2>1 DEF GivesWay, Silent
<1> QED  BY <1>3, <1>4 DEF Effect

(* A step of a task is one of these, and leaves the other tasks alone.     *)
LEMMA StepIs ==
  ASSUME Inv, NEW t \in Tasks, Step(t)
  PROVE  Effect(t) /\ OthersStay(t) /\ CacheKept /\ UNCHANGED <<own, stateVars>>
<1>1. /\ stack \in [Tasks -> Seq(Frames)] /\ shown \in [Tasks -> Seq(Shows)]
      /\ phase \in [Tasks -> Phases] /\ TypeOK /\ Data
  BY DEF Inv, Data, TypeOK, Phases
<1>2. phase[t] \in {"dispatcher", "handler", "include", "component", "part"} => Standing(t)
  BY <1>1 DEF TypeOK, Standing
<1>3. Running(t) => Standing(t)
  BY DEF Running, Standing
<1>4. ASSUME Standing(t) PROVE Current(t).kind \in Whats
  BY <1>1, <1>4, AtSpan DEF Standing, Whats
<1>5. ASSUME Running(t), NEW what \in Whats, AppendElement(t, what), Advance(t), UNCHANGED phase
      PROVE  Effect(t) /\ OthersStay(t)
  <2>1. OthersStay(t) /\ phase'[t] = "running" /\ stack'[t] = Rest(t)
    BY <1>1, <1>5 DEF AppendElement, Advance, OthersStay, Running
  <2>2. Showing(t)
    BY <1>1, <1>5 DEF AppendElement, Showing
  <2> QED  BY <1>3, <1>5, <2>1, <2>2 DEF Effect, MovesOn
<1>6. CASE SkipSpan(t)
  <2>1. OthersStay(t) /\ phase'[t] = "running" /\ stack'[t] = Rest(t) /\ shown'[t] = shown[t]
    BY <1>1, <1>6 DEF SkipSpan, Advance, OthersStay, Running
  <2>2. ~Plain(t)
    BY <1>6 DEF SkipSpan, Holds, Plain
  <2> QED  BY <1>1, <1>3, <1>6, <2>1, <2>2, CacheSteps DEF SkipSpan, Effect, MovesOn, Silent
<1>7. CASE HideSpan(t)
  BY <1>1, <1>5, <1>7, CacheSteps DEF HideSpan, Whats
<1>8. CASE ShowSpan(t)
  BY <1>1, <1>3, <1>4, <1>5, <1>8, CacheSteps DEF ShowSpan, Eligible
<1>9. CASE renderContainer(t)
  <2>1. OthersStay(t) /\ phase'[t] = "running" /\ Running(t)
    BY <1>1, <1>9 DEF renderContainer, AppendElement, OthersStay, Eligible, Running
  <2>2. Opens(t)
    BY <1>1, <1>9 DEF renderContainer, AppendElement, Opens, Showing, Whats
  <2> QED  BY <1>1, <1>3, <1>9, <2>1, <2>2, CacheSteps DEF renderContainer, Effect
<1>10. CASE Return(t)
  <2>1. OthersStay(t) /\ phase'[t] = "running" /\ stack'[t] = Below(t) /\ shown'[t] = shown[t]
    BY <1>1, <1>10 DEF Return, OthersStay
  <2> QED  BY <1>1, <1>10, <2>1, CacheSteps DEF Return, Effect
<1>11. CASE AwaitFile(t)
  <2>1. /\ OthersStay(t) /\ Running(t) /\ UNCHANGED <<stack, shown>>
        /\ phase'[t] = Awaited[Current(t).kind] /\ Current(t).kind \in DOMAIN Awaited
    BY <1>1, <1>11 DEF AwaitFile, OthersStay, Eligible
  <2>2. Waits(t)
    BY <2>1 DEF Waits, Awaited
  <2> QED  BY <1>1, <1>3, <1>11, <2>1, <2>2, CacheSteps DEF AwaitFile, Effect
<1>12. CASE FindHandler(t)
  <2>1. Current(t).kind = "operation" /\ Standing(t)
    BY <1>2, <1>12 DEF FindHandler, Inv, Needs
  <2>2. CacheKept
    BY <1>1, <1>12, CacheSteps DEF FindHandler
  <2>3. CASE Caught(t, "error")
    BY <2>1, <2>2, <2>3, CaughtStep DEF Whats, Caught
  <2>4. CASE ~Caught(t, "error")
    <3>1. /\ phase' = [phase EXCEPT ![t] = "handler"] /\ Current(t).name \in DOMAIN HandlerOf
          /\ UNCHANGED <<stack, own, shown, stateVars>>
      BY <1>12, <2>4 DEF FindHandler
    <3>2. OthersStay(t) /\ Waits(t)
      BY <1>1, <2>1, <3>1 DEF OthersStay, Waits
    <3> QED  BY <2>1, <2>2, <3>1, <3>2 DEF Effect
  <2> QED  BY <2>3, <2>4
<1>13. CASE RunHandler(t)
  <2> DEFINE f == HandlerOf[Current(t).name]
  <2>1. Current(t).kind = "operation" /\ Standing(t) /\ Current(t).name \in DOMAIN HandlerOf
    BY <1>2, <1>13 DEF RunHandler, Inv, Needs
  <2>2. CacheKept
    BY <1>1, <1>13, CacheSteps DEF RunHandler
  <2>3. CASE Caught(t, "error")
    BY <2>1, <2>2, <2>3, CaughtStep DEF Whats, Caught
  <2>4. CASE ~Caught(t, "error")
    <3>1. Loads(f) /\ f \in Arrays /\ Perform(t, f, Current(t).arg)
      BY <1>13, <2>4 DEF RunHandler
    <3>2. LeadsTo(t, f) /\ ~Plain(t)
      BY <2>1, <3>1 DEF LeadsTo, Plain
    <3> QED  BY <2>1, <2>2, <3>1, <3>2, PerformStep
  <2> QED  BY <2>3, <2>4
<1>14. CASE renderInclude(t)
  <2> DEFINE f == Current(t).name
  <2>1. Current(t).kind = "include" /\ Standing(t)
    BY <1>2, <1>14 DEF renderInclude, Inv, Needs
  <2>2. CacheKept
    BY <1>1, <1>14, CacheSteps DEF renderInclude
  <2>3. CASE Caught(t, "error")
    BY <2>1, <2>2, <2>3, CaughtStep DEF Whats, Caught
  <2>4. CASE ~Caught(t, "error")
    <3>1. Loads(f) /\ f \in Arrays /\ Perform(t, f, Hole)
      BY <1>14, <2>4 DEF renderInclude
    <3>2. LeadsTo(t, f) /\ ~Plain(t)
      BY <2>1, <3>1 DEF LeadsTo, Plain
    <3> QED  BY <2>1, <2>2, <3>1, <3>2, PerformStep
  <2> QED  BY <2>3, <2>4
<1>15. CASE renderUnknownComponent(t)
  <2> DEFINE f == HandlerFor[Current(t).name]
  <2>1. Current(t).kind = "component" /\ Standing(t)
    BY <1>2, <1>15 DEF renderUnknownComponent, Inv, Needs
  <2>2. CacheKept
    BY <1>1, <1>15, CacheSteps DEF renderUnknownComponent
  <2>3. CASE Caught(t, "fallback")
    BY <2>1, <2>2, <2>3, CaughtStep DEF Whats, Caught
  <2>4. CASE ~Caught(t, "fallback")
    <3>1. Loads(f) /\ f \in Arrays /\ Perform(t, f, Blank)
      BY <1>15, <2>4 DEF renderUnknownComponent
    <3>2. LeadsTo(t, f) /\ ~Plain(t)
      BY <2>1, <3>1 DEF LeadsTo, Plain
    <3> QED  BY <2>1, <2>2, <3>1, <3>2, PerformStep
  <2> QED  BY <2>3, <2>4
<1>16. CASE renderCompositeLayout(t)
  <2> DEFINE f == Current(t).name
  <2>1. Current(t).kind = "part" /\ Standing(t) /\ ~Plain(t)
    BY <1>2, <1>16 DEF renderCompositeLayout, Inv, Needs, Plain
  <2>2. CacheKept
    BY <1>1, <1>16, CacheSteps DEF renderCompositeLayout
  <2>3. CASE Loads(f) /\ f \in Arrays /\ Perform(t, f, Hole)
    BY <2>1, <2>2, <2>3, PerformStep DEF LeadsTo
  <2>4. CASE /\ Advance(t) /\ phase' = [phase EXCEPT ![t] = "running"]
             /\ UNCHANGED <<own, shown, stateVars>>
    <3>1. OthersStay(t) /\ phase'[t] = "running" /\ stack'[t] = Rest(t)
      BY <1>1, <2>4 DEF Advance, OthersStay
    <3> QED  BY <2>1, <2>2, <2>4, <3>1 DEF Effect, MovesOn, Silent
  <2>5. CASE /\ AppendElement(t, "error") /\ stack' = [stack EXCEPT ![t] = Below(t)]
             /\ phase' = [phase EXCEPT ![t] = "running"] /\ UNCHANGED <<own, stateVars>>
    <3>1. OthersStay(t) /\ phase'[t] = "running" /\ stack'[t] = Below(t)
      BY <1>1, <2>5 DEF AppendElement, OthersStay
    <3>2. Showing(t)
      BY <1>1, <2>5 DEF AppendElement, Showing, Whats
    <3> QED  BY <2>1, <2>2, <2>5, <3>1, <3>2 DEF Effect, GivesUp
  <2> QED  BY <1>16, <2>3, <2>4, <2>5 DEF renderCompositeLayout
<1> QED  BY <1>6, <1>7, <1>8, <1>9, <1>10, <1>11, <1>12, <1>13, <1>14, <1>15, <1>16 DEF Step

-----------------------------------------------------------------------------
(* Types are kept.                                                         *)
LEMMA FramesMade ==
  ASSUME Data, NEW t \in Tasks, Standing(t)
  PROVE  /\ Current(t).arg \in Args /\ Top(t).arg \in Args /\ Top(t).n \in Nat
         /\ Current(t).name \in Names /\ Path(t) \in Seq(Nat)
         /\ \A spans \in Seq(Spans), n \in Nat, arg \in Args : Frame(spans, n, arg, Opener(t)) \in Frames
         /\ Current(t).body \in Seq(Spans)
<1>1. Top(t) \in Frames /\ stack[t] \in Seq(Frames) /\ Len(stack[t]) \in Nat \ {0}
  BY AtSpan DEF Standing
<1>2. /\ Current(t).arg \in Args /\ Current(t).name \in Names /\ Current(t).kind \in Kinds
      /\ Current(t).body \in Seq(Spans)
  BY AtSpan DEF Standing
<1>3. Opener(t) \in Openers
  BY <1>2 DEF Opener, Openers
<1>4. ASSUME NEW spans \in Seq(Spans), NEW n \in Nat, NEW arg \in Args
      PROVE  Frame(spans, n, arg, Opener(t)) \in Frames
  <2>1. spans \in Seq(Items)
    BY ListsAreItems
  <2> QED  BY <1>3, <2>1 DEF Frame, Frames
<1>5. Top(t).arg \in Args /\ Top(t).n \in Nat
  BY <1>1 DEF Frames
<1>6. Path(t) \in Seq(Nat)
  <2>1. ASSUME NEW k \in 1..Len(stack[t])
        PROVE (IF k = Len(stack[t]) THEN Top(t).n + 1 ELSE stack[t][k].n) \in Nat
    <3>1. stack[t][k] \in Frames
      BY <1>1, ElementOfSeq
    <3> QED  BY <1>5, <3>1 DEF Frames
  <2>2. Path(t) \in [1..Len(stack[t]) -> Nat]
    BY <2>1 DEF Path
  <2> QED  BY <1>1, <2>2, SeqDef
<1> QED  BY <1>2, <1>4, <1>5, <1>6

(* The frame that takes the place of the current span, or opens in it.     *)
LEMMA GivesFrame ==
  ASSUME Data, NEW t \in Tasks, Standing(t), GivesWay(t)
  PROVE  \E f \in Frames :
           \/ Len(Top(t).todo) = 1 /\ stack'[t] = Below(t) \o <<f>>
           \/ stack'[t] = Rest(t) \o <<f>>
<1>1. PICK f \in Arrays, arg \in {Current(t).arg, Blank, Hole} :
        \/ /\ Len(Top(t).todo) = 1
           /\ stack'[t] = Below(t) \o <<Frame(Disk[f], Top(t).n, arg, Opener(t))>>
        \/ stack'[t] = Rest(t) \o <<Frame(Disk[f], 0, arg, Opener(t))>>
  BY DEF GivesWay
<1>2. Disk[f] \in Seq(Spans) /\ arg \in Args /\ Top(t).n \in Nat
  BY FramesMade, UiDispatchAssumption, SpansAssumption DEF Args
<1>3. /\ Frame(Disk[f], Top(t).n, arg, Opener(t)) \in Frames
      /\ Frame(Disk[f], 0, arg, Opener(t)) \in Frames
  BY <1>2, FramesMade
<1> QED  BY <1>1, <1>3

LEMMA StackType ==
  ASSUME Inv, NEW t \in Tasks, Effect(t)
  PROVE  stack'[t] \in Seq(Frames) /\ shown'[t] \in Seq(Shows)
<1>1. stack[t] \in Seq(Frames) /\ shown[t] \in Seq(Shows) /\ Data
  BY DEF Inv, Data
<1>2. ASSUME Standing(t), Showing(t) PROVE shown'[t] \in Seq(Shows)
  <2>1. PICK what \in Whats :
          shown'[t] = shown[t] \o <<[path |-> Path(t), what |-> what,
                                    name |-> Current(t).name, arg |-> Current(t).arg]>>
    BY <1>2 DEF Showing
  <2>2. [path |-> Path(t), what |-> what, name |-> Current(t).name, arg |-> Current(t).arg] \in Shows
    BY <1>1, <1>2, FramesMade DEF Shows, Whats
  <2> QED  BY <1>1, <2>1, <2>2, OnTop
<1>3. ASSUME Standing(t)
      PROVE  Rest(t) \in Seq(Frames) /\ Below(t) \in Seq(Frames)
  BY <1>1, <1>3, RestIs, BelowIs DEF Standing
<1>4. CASE Standing(t) /\ Waits(t)
  BY <1>1, <1>4 DEF Waits
<1>5. CASE stack[t] # <<>> /\ stack'[t] = Below(t) /\ shown'[t] = shown[t]
  BY <1>1, <1>5, BelowIs
<1>6. CASE Standing(t) /\ MovesOn(t)
  BY <1>1, <1>2, <1>3, <1>6 DEF MovesOn, Silent
<1>7. CASE Standing(t) /\ Opens(t)
  <2>1. Frame(Current(t).body, 0, Top(t).arg, Opener(t)) \in Frames
    BY <1>1, <1>7, FramesMade
  <2> QED  BY <1>2, <1>3, <1>7, <2>1, OnTop DEF Opens
<1>8. CASE Standing(t) /\ GivesWay(t)
  <2>1. PICK f \in Arrays, arg \in {Current(t).arg, Blank, Hole} :
          \/ stack'[t] = Below(t) \o <<Frame(Disk[f], Top(t).n, arg, Opener(t))>>
          \/ stack'[t] = Rest(t) \o <<Frame(Disk[f], 0, arg, Opener(t))>>
    BY <1>8 DEF GivesWay
  <2>2. Disk[f] \in Seq(Spans)
    BY UiDispatchAssumption, SpansAssumption
  <2>3. arg \in Args
    BY <1>1, <1>8, FramesMade DEF Args
  <2>4. /\ Frame(Disk[f], Top(t).n, arg, Opener(t)) \in Frames
        /\ Frame(Disk[f], 0, arg, Opener(t)) \in Frames
    BY <1>1, <1>8, <2>2, <2>3, FramesMade
  <2>5. /\ Below(t) \o <<Frame(Disk[f], Top(t).n, arg, Opener(t))>> \in Seq(Frames)
        /\ Rest(t) \o <<Frame(Disk[f], 0, arg, Opener(t))>> \in Seq(Frames)
    BY <1>3, <1>8, <2>4, OnTop
  <2> QED  BY <1>1, <1>8, <2>1, <2>5 DEF GivesWay, Silent
<1>9. CASE Standing(t) /\ GivesUp(t)
  BY <1>2, <1>3, <1>9 DEF GivesUp
<1> QED  BY <1>4, <1>5, <1>6, <1>7, <1>8, <1>9 DEF Effect

LEMMA StepType ==
  ASSUME Inv, NEW t \in Tasks, Step(t)
  PROVE  Inv'
<1>1. Effect(t) /\ OthersStay(t) /\ CacheKept /\ UNCHANGED <<own, stateVars>>
  BY StepIs
<1>2. stack'[t] \in Seq(Frames) /\ shown'[t] \in Seq(Shows)
  BY <1>1, StackType
<1>3. stack' \in [Tasks -> Seq(Frames)] /\ shown' \in [Tasks -> Seq(Shows)]
  <2>1. \A u \in Tasks : stack'[u] \in Seq(Frames) /\ shown'[u] \in Seq(Shows)
    BY <1>1, <1>2 DEF OthersStay, Inv, Data
  <2> QED  BY <1>1, <2>1 DEF OthersStay
<1>4. Data' /\ CacheKept
  BY <1>1, <1>3 DEF Inv, Data, CacheKept, stateVars
<1>5. phase'[t] \in Phases \ {"idle", "entry", "rejected"}
  BY <1>1 DEF Effect, Waits, Phases
<1>6. phase' \in [Tasks -> Phases]
  <2>1. \A u \in Tasks : phase'[u] \in Phases
    BY <1>1, <1>5 DEF OthersStay, Inv, TypeOK, Phases
  <2> QED  BY <1>1, <2>1 DEF OthersStay
<1>7. ASSUME NEW u \in Tasks
      PROVE  /\ phase'[u] \in {"idle", "entry", "rejected"} => stack'[u] = <<>> /\ shown'[u] = <<>>
             /\ phase'[u] \in {"dispatcher", "handler", "include", "component", "part"} =>
                  stack'[u] # <<>> /\ Top(u)'.todo # <<>>
             /\ phase'[u] \in {"dispatcher", "handler"} => Current(u)'.kind = "operation"
             /\ phase'[u] = "handler" => Current(u)'.name \in DOMAIN HandlerOf
             /\ phase'[u] \in {"include", "component", "part"} => Current(u)'.kind = phase'[u]
  <2>1. CASE u # t
    BY <1>1, <2>1 DEF OthersStay, Inv, TypeOK, Starts, Needs, Current, Top
  <2>2. CASE u = t /\ ~(Standing(t) /\ Waits(t))
    BY <1>1, <1>5, <2>2 DEF Effect
  <2>3. CASE u = t /\ Standing(t) /\ Waits(t)
    BY <1>5, <2>3 DEF Waits, Standing, Current, Top
  <2> QED  BY <2>1, <2>2, <2>3
<1>8. TypeOK'
  BY <1>1, <1>4, <1>6, <1>7 DEF TypeOK, Inv, Phases, stateVars, CacheKept
<1>9. stage = "initialized"
  BY <1>1 DEF Inv, Starts, TypeOK, Effect, Standing
<1>10. Starts' /\ Needs'
  BY <1>1, <1>7, <1>9 DEF Starts, Needs, stateVars
<1> QED  BY <1>4, <1>8, <1>10 DEF Inv

(* The beginnings of tasks: what they find, and what they leave.  Of a set *)
(* of numbers one is the least.                                            *)
LEMMA LeastNatural ==
  ASSUME NEW T \in SUBSET Nat, T # {}
  PROVE  \E x \in T : \A y \in T : x =< y
<1> DEFINE R == {p \in Nat \X Nat : p[1] < p[2]}
<1>1. OpToRel(<, Nat) = R
  BY DEF OpToRel
<1>2. IsWellFoundedOn(R, Nat)
  BY <1>1, NatLessThanWellFounded
<1>3. \E x \in T : \A y \in T : ~(<<y, x>> \in R)
  <2> HIDE DEF R
  <2> QED  BY <1>2, WFMin
<1>4. PICK x \in T : \A y \in T : ~(<<y, x>> \in R)
  BY <1>3
<1>5. \A y \in T : ~(y < x)
  BY <1>4
<1> QED  BY <1>5

(* What bootstrapLogLineUI renders.                                        *)
EntrySpans ==
  LET spans == Disk[entry]
      first == CHOOSE i \in Layouts(spans) : \A j \in Layouts(spans) : i =< j
  IN IF Layouts(spans) = {} THEN spans ELSE spans[first].body

LEMMA EntrySpansType ==
  ASSUME Data
  PROVE  EntrySpans \in Seq(Spans)
<1>1. entry \in Files /\ Disk[entry] \in Seq(Spans)
  BY UiDispatchAssumption, SpansAssumption DEF Data
<1>2. Layouts(Disk[entry]) \subseteq 1..Len(Disk[entry]) /\ 1..Len(Disk[entry]) \subseteq Nat
  BY <1>1 DEF Layouts
<1>3. CASE Layouts(Disk[entry]) # {}
  <2> DEFINE first == CHOOSE i \in Layouts(Disk[entry]) : \A j \in Layouts(Disk[entry]) : i =< j
  <2>1. \E i \in Layouts(Disk[entry]) : \A j \in Layouts(Disk[entry]) : i =< j
    BY <1>2, <1>3, LeastNatural
  <2>2. first \in Layouts(Disk[entry])
    BY <2>1
  <2>3. Disk[entry][first] \in Spans
    BY <1>1, <1>2, <2>2, ElementOfSeq
  <2> HIDE DEF first
  <2>4. Disk[entry][first].body \in Seq(Spans)
    BY <2>3, SpansAreItems DEF Items
  <2> QED  BY <1>3, <2>4 DEF EntrySpans, first
<1> QED  BY <1>1, <1>3 DEF EntrySpans

LEMMA BeginType ==
  ASSUME Data, NEW t \in Tasks, NEW spans \in Seq(Items)
  PROVE  /\ <<Frame(spans, 0, Hole, Page)>> \in Seq(Frames)
         /\ [stack EXCEPT ![t] = <<Frame(spans, 0, Hole, Page)>>] \in [Tasks -> Seq(Frames)]
<1>1. Page \in Openers
  BY DEF Page, Openers, Args
<1>2. Frame(spans, 0, Hole, Page) \in Frames
  BY <1>1 DEF Frame, Frames, Args
<1> QED  BY <1>2 DEF Data

LEMMA BootType ==
  ASSUME Inv, bootstrapLogLineUI
  PROVE  /\ Inv' /\ CacheKept /\ UNCHANGED <<own, shown, stateVars>>
         /\ \A u \in Tasks \ {Boot} : stack'[u] = stack[u] /\ phase'[u] = phase[u]
         /\ phase'[Boot] # "rejected" => stack'[Boot] = <<Frame(EntrySpans, 0, Hole, Page)>>
         /\ phase[Boot] = "entry" /\ stack[Boot] = <<>> /\ shown[Boot] = <<>>
<1>1. /\ TypeOK /\ Data /\ phase[Boot] = "entry" /\ Boot \in Tasks
      /\ stack[Boot] = <<>> /\ shown[Boot] = <<>> /\ stage = "initialized"
  BY DEF Inv, TypeOK, Starts, bootstrapLogLineUI, Tasks
<1>2. CacheKept /\ UNCHANGED <<own, shown, stateVars>>
  BY <1>1, CacheSteps DEF bootstrapLogLineUI
<1>3. \/ /\ stack' = [stack EXCEPT ![Boot] = <<Frame(EntrySpans, 0, Hole, Page)>>]
         /\ phase' = [phase EXCEPT ![Boot] = "running"]
      \/ phase' = [phase EXCEPT ![Boot] = "rejected"] /\ stack' = stack
  BY <1>1, CacheSteps DEF bootstrapLogLineUI, EntrySpans
<1>4. EntrySpans \in Seq(Items)
  BY <1>1, EntrySpansType, ListsAreItems
<1>5. [stack EXCEPT ![Boot] = <<Frame(EntrySpans, 0, Hole, Page)>>] \in [Tasks -> Seq(Frames)]
  BY <1>1, <1>4, BeginType
<1>6. Data'
  BY <1>1, <1>2, <1>3, <1>5 DEF Data, CacheKept, stateVars
<1>7. \A u \in Tasks \ {Boot} : stack'[u] = stack[u] /\ phase'[u] = phase[u]
  BY <1>1, <1>3 DEF Data, TypeOK
<1>8. /\ phase'[Boot] \in {"running", "rejected"} /\ phase' \in [Tasks -> Phases]
      /\ phase'[Boot] = "rejected" => stack'[Boot] = <<>>
      /\ phase'[Boot] # "rejected" => stack'[Boot] = <<Frame(EntrySpans, 0, Hole, Page)>>
  BY <1>1, <1>3 DEF TypeOK, Phases, Data
<1>9. ASSUME NEW u \in Tasks
      PROVE  /\ phase'[u] \in {"idle", "entry", "rejected"} => stack'[u] = <<>> /\ shown'[u] = <<>>
             /\ phase'[u] \in {"dispatcher", "handler", "include", "component", "part"} =>
                  stack'[u] # <<>> /\ Top(u)'.todo # <<>>
             /\ phase'[u] \in {"dispatcher", "handler"} => Current(u)'.kind = "operation"
             /\ phase'[u] = "handler" => Current(u)'.name \in DOMAIN HandlerOf
             /\ phase'[u] \in {"include", "component", "part"} => Current(u)'.kind = phase'[u]
  <2>1. CASE u # Boot
    BY <1>2, <1>7, <2>1 DEF Inv, TypeOK, Starts, Needs, Current, Top
  <2>2. CASE u = Boot
    BY <1>1, <1>2, <1>8, <2>2
  <2> QED  BY <2>1, <2>2
<1>10. TypeOK'
  BY <1>1, <1>2, <1>8, <1>9 DEF TypeOK, Phases, stateVars, CacheKept
<1>11. Starts' /\ Needs'
  BY <1>1, <1>2, <1>9 DEF Starts, Needs, stateVars
<1> QED  BY <1>1, <1>2, <1>6, <1>7, <1>8, <1>10, <1>11 DEF Inv

(* index.html starts the theme span and bootstrapLogLineUI.                *)
LEMMA StartType ==
  ASSUME Inv, initializeRuntime
  PROVE  /\ Inv' /\ UNCHANGED <<own, shown, cache, entry>>
         /\ \A u \in Tasks : shown[u] = <<>>
         /\ phase'[Boot] \in {"idle", "entry"} /\ \A c \in Clicks : stack'[c] = <<>>
<1>1. /\ TypeOK /\ Data /\ stage = "main" /\ Theme \in Tasks /\ Boot \in Tasks /\ Clicks \subseteq Tasks
      /\ UNCHANGED <<own, shown, cache, entry, truthy, inputs>>
  BY DEF Inv, initializeRuntime, Tasks
<1>2. \A u \in Tasks : phase[u] = "idle" /\ stack[u] = <<>> /\ shown[u] = <<>>
  BY <1>1 DEF Inv, Starts, TypeOK
<1>3. CASE stage' = "error" /\ UNCHANGED <<phase, stack>>
  <2>1. TypeOK' /\ Data'
    BY <1>1, <1>2, <1>3 DEF TypeOK, Data
  <2>2. Starts' /\ Needs'
    BY <1>1, <1>2, <1>3 DEF Starts, Needs
  <2> QED  BY <1>1, <1>2, <1>3, <2>1, <2>2 DEF Inv
<1>4. CASE /\ stage' = "initialized"
           /\ phase' = [phase EXCEPT ![Theme] = "running", ![Boot] = "entry"]
           /\ stack' = [stack EXCEPT ![Theme] = <<Frame(<<ThemeSpan>>, 0, Hole, Page)>>]
  <2>1. <<ThemeSpan>> \in Seq(Items)
    BY SpansAssumption, SpansAreItems
  <2>2. stack' \in [Tasks -> Seq(Frames)]
    BY <1>1, <1>4, <2>1, BeginType
  <2>3. Theme # Boot /\ Theme \notin Clicks
    BY UiDispatchAssumption
  <2>4. /\ phase' \in [Tasks -> Phases] /\ phase'[Boot] = "entry" /\ phase'[Theme] = "running"
        /\ \A u \in Tasks \ {Theme} : phase'[u] \in {"idle", "entry"} /\ stack'[u] = <<>>
    BY <1>1, <1>2, <1>4, <2>3 DEF TypeOK, Phases, Data
  <2>5. Data'
    BY <1>1, <2>2 DEF Data
  <2>6. TypeOK'
    BY <1>1, <1>4, <2>4 DEF TypeOK, Phases
  <2>7. Starts' /\ Needs'
    BY <1>1, <1>2, <1>4, <2>4 DEF Starts, Needs
  <2> QED  BY <1>1, <1>2, <2>3, <2>4, <2>5, <2>6, <2>7 DEF Inv
<1> QED  BY <1>3, <1>4 DEF initializeRuntime

(* A click: the button is one that some task has shown.                    *)
LEMMA ClickType ==
  ASSUME Inv, NEW t \in Tasks, Click(t)
  PROVE  /\ Inv' /\ UNCHANGED <<shown, cache, stateVars>> /\ shown[t] = <<>>
         /\ \A u \in Tasks \ {t} : phase'[u] = phase[u] /\ stack'[u] = stack[u] /\ own'[u] = own[u]
         /\ t # Boot
         /\ \E s \in Items : /\ s.kind = "operation" /\ s.arg = own'[t] /\ s.body = <<>>
                             /\ stack'[t] = <<Frame(<<s>>, 0, Hole, Page)>>
<1>1. TypeOK /\ Data /\ phase[t] = "idle" /\ shown[t] = <<>> /\ t \in Clicks
  BY DEF Inv, Starts, Click
<1>2. PICK b \in Elements :
        /\ own' = [own EXCEPT ![t] = b.arg]
        /\ stack' = [stack EXCEPT ![t] = <<Frame(
            <<[kind |-> "operation", name |-> b.name, arg |-> b.arg,
               cond |-> Always, visible |-> Always, body |-> <<>>]>>, 0, Hole, Page)>>]
  BY DEF Click
<1>3. /\ phase' = [phase EXCEPT ![t] = "running"] /\ UNCHANGED <<shown, cache, stateVars>>
  BY DEF Click
<1>4. PICK u \in Tasks : \E i \in DOMAIN shown[u] : b = shown[u][i]
  BY DEF Elements
<1>5. shown[u] \in Seq(Shows) /\ b \in Shows
  BY <1>1, <1>4, ElementOfSeq DEF Data
<1>6. b.name \in Names /\ b.arg \in Args
  BY <1>5 DEF Shows
<1>7. PICK s : s = [kind |-> "operation", name |-> b.name, arg |-> b.arg,
                    cond |-> Always, visible |-> Always, body |-> <<>>]
  OBVIOUS
<1>8. s \in Items /\ s.kind = "operation" /\ s.arg = b.arg /\ s.body = <<>>
  <2>1. <<>> \in Seq(Spans)
    BY EmptySeq
  <2> QED  BY <1>6, <1>7, <2>1 DEF Items, Kinds
<1>9. <<s>> \in Seq(Items) /\ stack' = [stack EXCEPT ![t] = <<Frame(<<s>>, 0, Hole, Page)>>]
  BY <1>2, <1>7, <1>8
<1>10. stack' \in [Tasks -> Seq(Frames)] /\ own' \in [Tasks -> Args] /\ own'[t] = b.arg
  <2>1. stack' \in [Tasks -> Seq(Frames)]
    BY <1>1, <1>9, BeginType
  <2>2. PICK a \in Args : a = b.arg
    BY <1>6
  <2>3. own' = [own EXCEPT ![t] = a] /\ own \in [Tasks -> Args]
    BY <1>1, <1>2, <2>2 DEF Data
  <2>4. own' \in [Tasks -> Args] /\ own'[t] = a
    BY <2>3
  <2> QED  BY <2>1, <2>2, <2>4
<1>11. stage = "initialized"
  <2>1. shown[u] # <<>>
    BY <1>4
  <2> QED  BY <2>1 DEF Inv, Starts
<1>12. Data'
  BY <1>1, <1>3, <1>10 DEF Data, stateVars
<1>13. /\ phase' \in [Tasks -> Phases] /\ phase'[t] = "running"
       /\ \A v \in Tasks \ {t} : phase'[v] = phase[v] /\ stack'[v] = stack[v] /\ own'[v] = own[v]
  BY <1>1, <1>2, <1>3 DEF TypeOK, Phases, Data
<1>14. ASSUME NEW v \in Tasks
      PROVE  /\ phase'[v] \in {"idle", "entry", "rejected"} => stack'[v] = <<>> /\ shown'[v] = <<>>
             /\ phase'[v] \in {"dispatcher", "handler", "include", "component", "part"} =>
                  stack'[v] # <<>> /\ Top(v)'.todo # <<>>
             /\ phase'[v] \in {"dispatcher", "handler"} => Current(v)'.kind = "operation"
             /\ phase'[v] = "handler" => Current(v)'.name \in DOMAIN HandlerOf
             /\ phase'[v] \in {"include", "component", "part"} => Current(v)'.kind = phase'[v]
  <2>1. CASE v # t
    BY <1>3, <1>13, <2>1 DEF Inv, TypeOK, Starts, Needs, Current, Top
  <2> QED  BY <1>13, <2>1
<1>15. TypeOK'
  BY <1>1, <1>3, <1>13, <1>14 DEF TypeOK, Phases, stateVars
<1>16. Starts' /\ Needs'
  BY <1>3, <1>11, <1>14 DEF Starts, Needs, stateVars
<1>17. stack'[t] = <<Frame(<<s>>, 0, Hole, Page)>>
  BY <1>1, <1>9 DEF Data
<1> QED  BY <1>1, <1>3, <1>8, <1>10, <1>12, <1>13, <1>15, <1>16, <1>17, UiDispatchAssumption DEF Inv

(* Scripts that load and boxes that change disturb no task.                *)
LEMMA OtherType ==
  ASSUME Inv, loadConfigurations \/ (\E p \in Paths : Input(p)) \/ UNCHANGED vars
  PROVE  Inv' /\ UNCHANGED <<taskVars, cache, entry>>
<1>1. UNCHANGED <<phase, stack, own, shown, cache, entry>>
  BY DEF loadConfigurations, Input, vars, taskVars, stateVars
<1>2. /\ stage' \in {"config", "postgres", "main", "initialized", "error"}
      /\ stage' # "initialized" => stage # "initialized"
      /\ truthy' \subseteq Paths /\ inputs' \in 0..MaxInputs
  BY UiDispatchAssumption DEF Inv, TypeOK, loadConfigurations, Input, vars, stateVars
<1>3. Data' /\ TypeOK'
  BY <1>1, <1>2 DEF Inv, Data, TypeOK, Top
<1>4. Starts' /\ Needs'
  BY <1>1, <1>2 DEF Inv, Starts, Needs, Current, Top
<1> QED  BY <1>1, <1>3, <1>4 DEF Inv, taskVars

LEMMA InitType ==
  ASSUME Init
  PROVE  Inv
<1>1. Data
  BY DEF Init, Data, Args
<1>2. TypeOK
  BY UiDispatchAssumption DEF Init, TypeOK
<1> QED  BY <1>1, <1>2 DEF Inv, Init, Starts, Needs

LEMMA NextType ==
  ASSUME Inv, [Next]_vars
  PROVE  Inv'
BY StepType, BootType, StartType, ClickType, OtherType DEF Next, Browser, User

(***************************************************************************)
(* Types: in particular a task awaits a file only on behalf of a span at   *)
(* which it stands, however deep the handlers and included files nest.     *)
(***************************************************************************)
THEOREM TypeCorrect == Spec => []TypeOK
<1>1. Init => Inv
  BY InitType
<1>2. Inv /\ [Next]_vars => Inv'
  BY NextType
<1>3. Inv => TypeOK
  BY DEF Inv
<1> QED  BY <1>1, <1>2, <1>3, PTL DEF Spec

-----------------------------------------------------------------------------
(* The order of paths.  What precedes a path precedes those that are       *)
(* further on, or below it or one further on.                              *)
LEMMA Later ==
  ASSUME NEW a \in Nat \ {0}, NEW b \in Nat, NEW c \in Nat, a =< b,
         NEW p, NEW q, NEW r, Numbers(p, c), Numbers(q, a), Numbers(r, b),
         \A k \in 1..(a - 1) : r[k] = q[k], q[a] =< r[a], Precedes(p, q)
  PROVE  Precedes(p, r)
<1>1. PICK k \in 1..a :
        /\ \A j \in 1..(k - 1) : j \in 1..c /\ p[j] = q[j]
        /\ k \in 1..c => p[k] < q[k]
  BY DEF Precedes, Numbers
<1>2. k \in 1..b /\ \A j \in 1..(k - 1) : j \in 1..c /\ p[j] = r[j]
  BY <1>1
<1>3. q[k] =< r[k]
  <2>1. CASE k = a
    BY <2>1
  <2>2. CASE k # a
    <3>1. k \in 1..(a - 1) /\ q[k] \in Nat
      BY <2>2 DEF Numbers
    <3> QED  BY <3>1
  <2> QED  BY <2>1, <2>2
<1>4. k \in 1..c => p[k] < r[k]
  <2>1. q[k] \in Nat /\ r[k] \in Nat /\ (k \in 1..c => p[k] \in Nat)
    BY <1>2 DEF Numbers
  <2> QED  BY <1>1, <1>3, <2>1
<1>5. k \in DOMAIN r /\ DOMAIN p = 1..c
  BY <1>2 DEF Numbers
<1> QED  BY <1>2, <1>4, <1>5 DEF Precedes

(* A path precedes those below it, and those that turn off after it.       *)
LEMMA Deeper ==
  ASSUME NEW a \in Nat, NEW b \in Nat, a < b,
         NEW p, NEW r, Numbers(p, a), Numbers(r, b), \A k \in 1..a : r[k] = p[k]
  PROVE  Precedes(p, r)
<1>1. a + 1 \in DOMAIN r /\ a + 1 \notin DOMAIN p
  BY DEF Numbers
<1>2. \A j \in 1..((a + 1) - 1) : j \in DOMAIN p /\ p[j] = r[j]
  BY DEF Numbers
<1> QED  BY <1>1, <1>2 DEF Precedes

LEMMA Higher ==
  ASSUME NEW a \in Nat, NEW b \in Nat \ {0}, b =< a,
         NEW p, NEW r, Numbers(p, a), Numbers(r, b),
         \A k \in 1..(b - 1) : r[k] = p[k], p[b] < r[b]
  PROVE  Precedes(p, r)
<1>1. b \in DOMAIN r /\ \A j \in 1..(b - 1) : j \in DOMAIN p /\ p[j] = r[j]
  BY DEF Numbers
<1> QED  BY <1>1 DEF Precedes

LEMMA NextAtIs ==
  ASSUME NEW a \in Nat, NEW ns, Numbers(ns, a), NEW m \in 1..a
  PROVE  /\ Numbers(NextAt(ns, m), m) /\ m \in Nat \ {0}
         /\ \A k \in 1..(m - 1) : NextAt(ns, m)[k] = ns[k]
         /\ NextAt(ns, m)[m] = ns[m] + 1
<1>1. \A k \in 1..m : k \in 1..a /\ ns[k] \in Nat
  BY DEF Numbers
<1> QED  BY <1>1 DEF NextAt, Numbers

(* Counts that have only grown, or have one more level, keep the order.    *)
LEMMA AfterOn ==
  ASSUME NEW a \in Nat \ {0}, NEW b \in 0..(a + 1), NEW c \in Nat, NEW p, Numbers(p, c),
         NEW ns, NEW nx, Numbers(ns, a), Numbers(nx, b),
         \A k \in 1..b : k < a => nx[k] = ns[k],
         b >= a => nx[a] >= ns[a],
         b > a => nx[a] = ns[a] + 1,
         After(p, ns)
  PROVE  After(p, nx)
<1>1. SUFFICES ASSUME NEW m \in 1..b PROVE Precedes(p, NextAt(nx, m))
  BY DEF After, Numbers
<1>2. b \in Nat /\ m \in Nat \ {0} /\ Numbers(NextAt(nx, m), m) /\ NextAt(nx, m)[m] = nx[m] + 1
      /\ \A k \in 1..(m - 1) : NextAt(nx, m)[k] = nx[k]
  BY NextAtIs
<1>3. CASE m =< a
  <2>1. m \in 1..a /\ Precedes(p, NextAt(ns, m))
    BY SMTT(20), <1>2, <1>3 DEF After, Numbers
  <2>2. /\ Numbers(NextAt(ns, m), m) /\ NextAt(ns, m)[m] = ns[m] + 1
        /\ \A k \in 1..(m - 1) : NextAt(ns, m)[k] = ns[k]
    BY <2>1, NextAtIs
  <2>3. ns[m] \in Nat /\ nx[m] \in Nat /\ ns[m] =< nx[m]
    <3>1. ns[m] \in Nat /\ nx[m] \in Nat
      BY <2>1 DEF Numbers
    <3>2. CASE m < a
      BY <3>1, <3>2
    <3>3. CASE m = a
      BY <3>1, <3>3
    <3> QED  BY <1>2, <1>3, <3>1, <3>2, <3>3
  <2>4. NextAt(ns, m)[m] =< NextAt(nx, m)[m]
    BY <1>2, <2>1, <2>2, <2>3
  <2>5. \A k \in 1..(m - 1) : NextAt(nx, m)[k] = NextAt(ns, m)[k]
    <3>1. \A k \in 1..(m - 1) : k \in 1..b /\ k < a
      BY <1>2, <1>3
    <3>2. \A k \in 1..(m - 1) : nx[k] = ns[k]
      BY <3>1
    <3> QED  BY <1>2, <2>2, <3>2
  <2> QED  BY <1>2, <2>1, <2>2, <2>4, <2>5, Later
<1>4. CASE m > a
  <2>1. m = a + 1 /\ b = a + 1 /\ a \in 1..a /\ Precedes(p, NextAt(ns, a))
    <3>1. m = a + 1 /\ b = a + 1 /\ a \in 1..a
      BY <1>2, <1>4
    <3> QED  BY <3>1 DEF After, Numbers
  <2>2. /\ Numbers(NextAt(ns, a), a) /\ NextAt(ns, a)[a] = ns[a] + 1
        /\ \A k \in 1..(a - 1) : NextAt(ns, a)[k] = ns[k]
    BY <2>1, NextAtIs
  <2>3. NextAt(nx, m)[a] = nx[a] /\ nx[a] = ns[a] + 1 /\ ns[a] \in Nat
    BY <1>2, <2>1 DEF Numbers
  <2>4. NextAt(ns, a)[a] =< NextAt(nx, m)[a]
    BY <2>2, <2>3
  <2>5. \A k \in 1..(a - 1) : NextAt(nx, m)[k] = NextAt(ns, a)[k]
    BY <1>2, <2>1, <2>2
  <2> QED  BY <1>2, <1>4, <2>1, <2>2, <2>4, <2>5, Later
<1> QED  BY <1>2, <1>3, <1>4

(* What is shown at the top comes before all that comes next.              *)
LEMMA AfterShown ==
  ASSUME NEW a \in Nat \ {0}, NEW b \in 0..(a + 1),
         NEW ns, NEW nx, Numbers(ns, a), Numbers(nx, b),
         \A k \in 1..b : k < a => nx[k] = ns[k],
         b >= a => nx[a] = ns[a] + 1
  PROVE  After(NextAt(ns, a), nx)
<1>1. SUFFICES ASSUME NEW m \in 1..b PROVE Precedes(NextAt(ns, a), NextAt(nx, m))
  BY DEF After, Numbers
<1>2. b \in Nat /\ m \in Nat \ {0} /\ Numbers(NextAt(nx, m), m) /\ NextAt(nx, m)[m] = nx[m] + 1
      /\ \A k \in 1..(m - 1) : NextAt(nx, m)[k] = nx[k]
  BY NextAtIs
<1>3. /\ Numbers(NextAt(ns, a), a) /\ NextAt(ns, a)[a] = ns[a] + 1
      /\ \A k \in 1..(a - 1) : NextAt(ns, a)[k] = ns[k]
  BY NextAtIs
<1>4. CASE m =< a
  <2>1. \A k \in 1..(m - 1) : NextAt(nx, m)[k] = NextAt(ns, a)[k]
    BY <1>2, <1>3, <1>4
  <2>2. NextAt(ns, a)[m] < NextAt(nx, m)[m]
    <3>1. nx[m] \in Nat /\ ns[m] \in Nat
      BY <1>2, <1>4 DEF Numbers
    <3>2. CASE m < a
      BY <1>2, <1>3, <3>1, <3>2
    <3>3. CASE m = a
      BY <1>2, <1>3, <3>1, <3>3
    <3> QED  BY <1>2, <1>4, <3>2, <3>3
  <2> QED  BY <1>2, <1>3, <1>4, <2>1, <2>2, Higher
<1>5. CASE m > a
  <2>1. m = a + 1 /\ b = a + 1
    BY <1>2, <1>5
  <2>2. \A k \in 1..a : NextAt(nx, m)[k] = NextAt(ns, a)[k]
    BY <1>2, <1>3, <2>1
  <2> QED  BY <1>2, <1>3, <1>5, <2>1, <2>2, Deeper
<1> QED  BY <1>2, <1>4, <1>5

LEMMA CountsAre ==
  ASSUME NEW st \in Seq(Frames)
  PROVE  /\ Numbers(Counts(st), Len(st)) /\ Len(st) \in Nat
         /\ \A k \in 1..Len(st) : Counts(st)[k] = st[k].n
<1>1. \A k \in 1..Len(st) : st[k].n \in Nat
  <2>1. ASSUME NEW k \in 1..Len(st) PROVE st[k].n \in Nat
    <3>1. st[k] \in Frames
      BY ElementOfSeq
    <3> QED  BY <3>1 DEF Frames
  <2> QED  BY <2>1
<1> QED  BY <1>1, LenProperties DEF Counts, Numbers

LEMMA PathIs ==
  ASSUME Data, NEW t \in Tasks, Standing(t)
  PROVE  Path(t) = NextAt(Counts(stack[t]), Len(stack[t]))
BY DEF Path, NextAt, Counts, Top

(* One more element, after the last.                                       *)
LEMMA OneMore ==
  ASSUME NEW sh \in Seq(Shows), NEW x \in Shows,
         \A i \in 2..Len(sh) : Precedes(sh[i - 1].path, sh[i].path),
         sh # <<>> => Precedes(sh[Len(sh)].path, x.path)
  PROVE  LET nx == sh \o <<x>> IN
         /\ \A i \in 2..Len(nx) : Precedes(nx[i - 1].path, nx[i].path)
         /\ nx[Len(nx)] = x /\ nx # <<>>
<1>1. PICK nx : nx = sh \o <<x>>
  OBVIOUS
<1>2. /\ nx \in Seq(Shows) /\ Len(nx) = Len(sh) + 1 /\ nx[Len(sh) + 1] = x /\ Len(sh) \in Nat
      /\ \A k \in 1..Len(sh) : nx[k] = sh[k]
  BY <1>1, OnTop, LenProperties
<1>3. ASSUME NEW i \in 2..Len(nx) PROVE Precedes(nx[i - 1].path, nx[i].path)
  <2>1. CASE i =< Len(sh)
    <3>1. i \in 2..Len(sh) /\ nx[i - 1] = sh[i - 1] /\ nx[i] = sh[i]
      BY <1>2, <2>1
    <3> QED  BY <3>1
  <2>2. CASE i > Len(sh)
    <3>1. i = Len(sh) + 1 /\ nx[i] = x /\ nx[i - 1] = sh[Len(sh)] /\ Len(sh) # 0
      BY <1>2, <2>2
    <3>2. sh # <<>>
      BY <3>1
    <3> QED  BY <3>1, <3>2
  <2> QED  BY <1>2, <2>1, <2>2
<1> QED  BY <1>1, <1>2, <1>3

LEMMA OrderShown ==
  ASSUME Inv, InOrder, NEW t \in Tasks, Standing(t), Showing(t), stack'[t] \in Seq(Frames),
         Len(stack'[t]) \in 0..(Len(stack[t]) + 1),
         \A k \in 1..Len(stack'[t]) : k < Len(stack[t]) => stack'[t][k].n = stack[t][k].n,
         Len(stack'[t]) >= Len(stack[t]) => stack'[t][Len(stack[t])].n = Top(t).n + 1
  PROVE  /\ \A i \in 2..Len(shown'[t]) : Precedes(shown'[t][i - 1].path, shown'[t][i].path)
         /\ shown'[t] # <<>> => After(shown'[t][Len(shown'[t])].path, Counts(stack'[t]))
<1>1. /\ Data /\ stack[t] \in Seq(Frames) /\ shown[t] \in Seq(Shows) /\ stack[t] # <<>>
      /\ Len(stack[t]) \in Nat \ {0}
  BY AtSpan DEF Inv, Data, Standing
<1>2. PICK what \in Whats :
        shown'[t] = shown[t] \o <<[path |-> Path(t), what |-> what,
                                  name |-> Current(t).name, arg |-> Current(t).arg]>>
  BY DEF Showing
<1>3. PICK x \in Shows :
        x = [path |-> Path(t), what |-> what, name |-> Current(t).name, arg |-> Current(t).arg]
  BY <1>1, FramesMade DEF Shows, Whats
<1>4. x.path = NextAt(Counts(stack[t]), Len(stack[t])) /\ shown'[t] = shown[t] \o <<x>>
  BY <1>1, <1>2, <1>3, PathIs
<1>5. /\ Numbers(Counts(stack[t]), Len(stack[t])) /\ Numbers(Counts(stack'[t]), Len(stack'[t]))
      /\ \A k \in 1..Len(stack[t]) : Counts(stack[t])[k] = stack[t][k].n
      /\ \A k \in 1..Len(stack'[t]) : Counts(stack'[t])[k] = stack'[t][k].n
  BY <1>1, CountsAre
<1>6. shown[t] # <<>> => Precedes(shown[t][Len(shown[t])].path, x.path)
  <2>1. Len(stack[t]) \in DOMAIN Counts(stack[t])
    BY <1>1, <1>5 DEF Numbers
  <2> QED  BY <1>4, <2>1 DEF InOrder, After
<1>7. /\ \A i \in 2..Len(shown'[t]) : Precedes(shown'[t][i - 1].path, shown'[t][i].path)
      /\ shown'[t][Len(shown'[t])] = x
  <2>1. PICK sh : sh = shown[t]
    OBVIOUS
  <2>2. PICK nx : nx = shown'[t]
    OBVIOUS
  <2>3. sh \in Seq(Shows) /\ nx = sh \o <<x>>
    BY <1>1, <1>4, <2>1, <2>2
  <2>4. \A i \in 2..Len(sh) : Precedes(sh[i - 1].path, sh[i].path)
    BY <2>1 DEF InOrder
  <2>5. sh # <<>> => Precedes(sh[Len(sh)].path, x.path)
    BY <1>6, <2>1
  <2>6. /\ \A i \in 2..Len(nx) : Precedes(nx[i - 1].path, nx[i].path)
        /\ nx[Len(nx)] = x
    BY <2>3, <2>4, <2>5, OneMore
  <2> QED  BY <2>2, <2>6
<1>8. After(x.path, Counts(stack'[t]))
  <2>1. \A k \in 1..Len(stack'[t]) :
          k < Len(stack[t]) => Counts(stack'[t])[k] = Counts(stack[t])[k]
    BY <1>1, <1>5
  <2>2. Len(stack'[t]) >= Len(stack[t]) =>
          Counts(stack'[t])[Len(stack[t])] = Counts(stack[t])[Len(stack[t])] + 1
    BY <1>1, <1>5 DEF Top
  <2> QED  BY <1>1, <1>4, <1>5, <2>1, <2>2, AfterShown
<1> QED  BY <1>7, <1>8

LEMMA OrderHidden ==
  ASSUME Inv, InOrder, NEW t \in Tasks, stack[t] # <<>>, shown'[t] = shown[t],
         stack'[t] \in Seq(Frames), Len(stack'[t]) \in 0..(Len(stack[t]) + 1),
         \A k \in 1..Len(stack'[t]) : k < Len(stack[t]) => stack'[t][k].n = stack[t][k].n,
         Len(stack'[t]) >= Len(stack[t]) => stack'[t][Len(stack[t])].n >= Top(t).n,
         Len(stack'[t]) > Len(stack[t]) => stack'[t][Len(stack[t])].n = Top(t).n + 1
  PROVE  /\ \A i \in 2..Len(shown'[t]) : Precedes(shown'[t][i - 1].path, shown'[t][i].path)
         /\ shown'[t] # <<>> => After(shown'[t][Len(shown'[t])].path, Counts(stack'[t]))
<1>1. stack[t] \in Seq(Frames) /\ shown[t] \in Seq(Shows) /\ Len(stack[t]) \in Nat \ {0}
  BY Front DEF Inv, Data
<1>2. /\ Numbers(Counts(stack[t]), Len(stack[t])) /\ Numbers(Counts(stack'[t]), Len(stack'[t]))
      /\ \A k \in 1..Len(stack[t]) : Counts(stack[t])[k] = stack[t][k].n
      /\ \A k \in 1..Len(stack'[t]) : Counts(stack'[t])[k] = stack'[t][k].n
  BY <1>1, CountsAre
<1>3. ASSUME shown[t] # <<>> PROVE After(shown[t][Len(shown[t])].path, Counts(stack'[t]))
  <2>1. Len(shown[t]) \in Nat \ {0} /\ shown[t][Len(shown[t])] \in Shows
    BY <1>1, <1>3, Front
  <2>2. PICK p : p = shown[t][Len(shown[t])].path
    OBVIOUS
  <2>3. p \in Seq(Nat) /\ After(p, Counts(stack[t]))
    BY <1>3, <2>1, <2>2 DEF Shows, InOrder
  <2>4. Numbers(p, Len(p)) /\ Len(p) \in Nat
    BY <2>3, LenProperties DEF Numbers
  <2>5. \A k \in 1..Len(stack'[t]) :
          k < Len(stack[t]) => Counts(stack'[t])[k] = Counts(stack[t])[k]
    BY <1>1, <1>2
  <2>6. /\ Len(stack'[t]) >= Len(stack[t]) =>
             Counts(stack'[t])[Len(stack[t])] >= Counts(stack[t])[Len(stack[t])]
        /\ Len(stack'[t]) > Len(stack[t]) =>
             Counts(stack'[t])[Len(stack[t])] = Counts(stack[t])[Len(stack[t])] + 1
    BY <1>1, <1>2 DEF Top
  <2>7. After(p, Counts(stack'[t]))
    BY <1>1, <1>2, <2>3, <2>4, <2>5, <2>6, AfterOn
  <2> QED  BY <2>2, <2>7
<1> QED  BY <1>3 DEF InOrder

(* A step keeps the order of the task that takes it.                       *)
LEMMA StepOrder ==
  ASSUME Inv, InOrder, NEW t \in Tasks, Effect(t)
  PROVE  /\ \A i \in 2..Len(shown'[t]) : Precedes(shown'[t][i - 1].path, shown'[t][i].path)
         /\ shown'[t] # <<>> => After(shown'[t][Len(shown'[t])].path, Counts(stack'[t]))
<1>1. Data /\ stack[t] \in Seq(Frames) /\ stack'[t] \in Seq(Frames)
  BY StackType DEF Inv, Data
<1>2. ASSUME stack[t] # <<>>
      PROVE  /\ Len(stack[t]) \in Nat \ {0} /\ Len(Below(t)) = Len(stack[t]) - 1 /\ Top(t).n \in Nat
             /\ \A k \in 1..(Len(stack[t]) - 1) : Below(t)[k] = stack[t][k]
  <2>1. Top(t) \in Frames
    BY <1>1, <1>2, Front DEF Top
  <2> QED  BY <1>1, <1>2, <2>1, BelowIs DEF Frames
<1>3. ASSUME Standing(t)
      PROVE  /\ Len(Rest(t)) = Len(stack[t]) /\ Rest(t)[Len(stack[t])].n = Top(t).n + 1
             /\ \A k \in 1..(Len(stack[t]) - 1) : Rest(t)[k] = stack[t][k]
  BY <1>1, <1>3, RestIs DEF Standing
<1>4. CASE Standing(t) /\ Waits(t)
  BY <1>4 DEF Waits, InOrder
<1>5. CASE stack[t] # <<>> /\ stack'[t] = Below(t) /\ shown'[t] = shown[t]
  <2>1. /\ Len(stack'[t]) \in 0..(Len(stack[t]) + 1) /\ ~(Len(stack'[t]) >= Len(stack[t]))
        /\ ~(Len(stack'[t]) > Len(stack[t]))
        /\ \A k \in 1..Len(stack'[t]) : k < Len(stack[t]) => stack'[t][k].n = stack[t][k].n
    BY <1>2, <1>5
  <2> QED  BY <1>1, <1>2, <1>5, <2>1, OrderHidden
<1>6. CASE Standing(t) /\ MovesOn(t)
  <2>1. /\ stack[t] # <<>> /\ Len(stack'[t]) = Len(stack[t])
        /\ \A k \in 1..Len(stack'[t]) : k < Len(stack[t]) => stack'[t][k].n = stack[t][k].n
        /\ stack'[t][Len(stack[t])].n = Top(t).n + 1
        /\ Len(stack'[t]) \in 0..(Len(stack[t]) + 1)
    <3>1. stack[t] # <<>> /\ Len(stack'[t]) = Len(stack[t]) /\ stack'[t] = Rest(t)
      BY <1>3, <1>6 DEF MovesOn, Standing
    <3>2. \A k \in 1..(Len(stack[t]) - 1) : stack'[t][k].n = stack[t][k].n
      BY <1>3, <1>6, <3>1
    <3>3. \A k \in 1..Len(stack'[t]) : k < Len(stack[t]) => k \in 1..(Len(stack[t]) - 1)
      BY <1>2, <3>1
    <3>4. stack'[t][Len(stack[t])].n = Top(t).n + 1
      BY <1>3, <1>6, <3>1
    <3>5. Len(stack'[t]) \in 0..(Len(stack[t]) + 1)
      BY <1>2, <3>1
    <3> QED  BY <3>1, <3>2, <3>3, <3>4, <3>5
  <2>2. stack'[t][Len(stack[t])].n >= Top(t).n
    BY <1>2, <2>1
  <2>3. ~(Len(stack'[t]) > Len(stack[t]))
    BY <1>2, <2>1
  <2>4. CASE Showing(t)
    BY <1>1, <1>6, <2>1, <2>4, OrderShown
  <2>5. CASE Silent(t)
    BY <1>1, <1>6, <2>1, <2>2, <2>3, <2>5, OrderHidden DEF Silent
  <2> QED  BY <1>6, <2>4, <2>5 DEF MovesOn
<1>7. CASE Standing(t) /\ Opens(t)
  <2>1. Frame(Current(t).body, 0, Top(t).arg, Opener(t)) \in Frames
    <3>1. Current(t).body \in Seq(Spans) /\ Top(t).arg \in Args
      BY <1>1, <1>7, FramesMade
    <3> QED  BY <1>1, <1>7, <3>1, FramesMade
  <2>2. /\ Len(stack'[t]) = Len(stack[t]) + 1
        /\ \A k \in 1..Len(stack[t]) : stack'[t][k] = Rest(t)[k]
    BY <1>1, <1>7, <2>1, Entered DEF Opens, Standing
  <2>3. /\ stack'[t][Len(stack[t])] = Rest(t)[Len(stack[t])]
        /\ \A k \in 1..(Len(stack[t]) - 1) : stack'[t][k] = stack[t][k]
        /\ Len(stack'[t]) \in 0..(Len(stack[t]) + 1)
    BY <1>2, <1>3, <1>7, <2>2 DEF Standing
  <2>4. \A k \in 1..Len(stack'[t]) : k < Len(stack[t]) => stack'[t][k].n = stack[t][k].n
    BY <1>2, <1>7, <2>2, <2>3 DEF Standing
  <2>5. stack'[t][Len(stack[t])].n = Top(t).n + 1
    BY <1>3, <1>7, <2>3
  <2> QED  BY <1>1, <1>7, <2>3, <2>4, <2>5, OrderShown DEF Opens
<1>8. CASE Standing(t) /\ GivesWay(t)
  <2>1. PICK f \in Arrays, arg \in {Current(t).arg, Blank, Hole} :
          \/ stack'[t] = Below(t) \o <<Frame(Disk[f], Top(t).n, arg, Opener(t))>>
          \/ stack'[t] = Rest(t) \o <<Frame(Disk[f], 0, arg, Opener(t))>>
    BY <1>8 DEF GivesWay
  <2>2. /\ Frame(Disk[f], Top(t).n, arg, Opener(t)) \in Frames
        /\ Frame(Disk[f], 0, arg, Opener(t)) \in Frames
    <3>1. Disk[f] \in Seq(Spans)
      BY UiDispatchAssumption, SpansAssumption
    <3>2. arg \in Args /\ Top(t).n \in Nat
      BY <1>1, <1>8, FramesMade DEF Args
    <3> QED  BY <1>1, <1>8, <3>1, <3>2, FramesMade
  <2>3. CASE stack'[t] = Below(t) \o <<Frame(Disk[f], Top(t).n, arg, Opener(t))>>
    <3>1. /\ Len(stack'[t]) = Len(stack[t])
          /\ stack'[t][Len(stack[t])] = Frame(Disk[f], Top(t).n, arg, Opener(t))
          /\ \A k \in 1..(Len(stack[t]) - 1) : stack'[t][k] = stack[t][k]
      BY <1>1, <1>8, <2>2, <2>3, Entered DEF Standing
    <3>2. /\ \A k \in 1..Len(stack'[t]) : k < Len(stack[t]) => stack'[t][k].n = stack[t][k].n
          /\ stack'[t][Len(stack[t])].n >= Top(t).n
          /\ Len(stack'[t]) \in 0..(Len(stack[t]) + 1) /\ ~(Len(stack'[t]) > Len(stack[t]))
      BY <1>2, <1>8, <3>1 DEF Standing, Frame
    <3> QED  BY <1>1, <1>8, <3>2, OrderHidden DEF GivesWay, Silent, Standing
  <2>4. CASE stack'[t] = Rest(t) \o <<Frame(Disk[f], 0, arg, Opener(t))>>
    <3>1. /\ Len(stack'[t]) = Len(stack[t]) + 1
          /\ \A k \in 1..Len(stack[t]) : stack'[t][k] = Rest(t)[k]
      BY <1>1, <1>8, <2>2, <2>4, Entered DEF Standing
    <3>2. /\ \A k \in 1..Len(stack'[t]) : k < Len(stack[t]) => stack'[t][k].n = stack[t][k].n
          /\ stack'[t][Len(stack[t])].n = Top(t).n + 1 /\ stack'[t][Len(stack[t])].n >= Top(t).n
          /\ Len(stack'[t]) \in 0..(Len(stack[t]) + 1)
      BY SMTT(20), <1>2, <1>3, <1>8, <3>1 DEF Standing
    <3> QED  BY <1>1, <1>8, <3>2, OrderHidden DEF GivesWay, Silent, Standing
  <2> QED  BY <2>1, <2>3, <2>4
<1>9. CASE Standing(t) /\ GivesUp(t)
  <2>1. /\ Len(stack'[t]) \in 0..(Len(stack[t]) + 1) /\ ~(Len(stack'[t]) >= Len(stack[t]))
        /\ \A k \in 1..Len(stack'[t]) : k < Len(stack[t]) => stack'[t][k].n = stack[t][k].n
    BY <1>2, <1>9 DEF GivesUp, Standing
  <2> QED  BY <1>1, <1>9, <2>1, OrderShown DEF GivesUp
<1> QED  BY <1>4, <1>5, <1>6, <1>7, <1>8, <1>9 DEF Effect

LEMMA NextOrder ==
  ASSUME Inv, InOrder, [Next]_vars
  PROVE  InOrder'
<1>1. ASSUME NEW t \in Tasks, Step(t) PROVE InOrder'
  <2>1. Effect(t) /\ OthersStay(t)
    BY <1>1, StepIs
  <2> QED  BY <2>1, StepOrder DEF InOrder, OthersStay, Counts
<1>2. CASE bootstrapLogLineUI
  <2>1. /\ shown' = shown /\ shown[Boot] = <<>>
        /\ \A u \in Tasks \ {Boot} : stack'[u] = stack[u]
    BY <1>2, BootType
  <2> QED  BY <2>1 DEF InOrder, Counts
<1>3. CASE initializeRuntime
  BY <1>3, StartType DEF InOrder
<1>4. ASSUME NEW t \in Tasks, Click(t) PROVE InOrder'
  <2>1. /\ shown' = shown /\ shown[t] = <<>> /\ \A u \in Tasks \ {t} : stack'[u] = stack[u]
    BY <1>4, ClickType
  <2> QED  BY <2>1 DEF InOrder, Counts
<1>5. CASE loadConfigurations \/ (\E p \in Paths : Input(p)) \/ UNCHANGED vars
  <2>1. UNCHANGED <<stack, shown>>
    BY <1>5, OtherType DEF taskVars
  <2> QED  BY <2>1 DEF InOrder, Counts
<1> QED  BY <1>1, <1>2, <1>3, <1>4, <1>5 DEF Next, Browser, User

(***************************************************************************)
(* What a task appends to the document comes out in the order in which the *)
(* files say it, for any pages, however deep they nest, and however the    *)
(* tasks interleave.                                                       *)
(***************************************************************************)
THEOREM RendersInOrder == Spec => []RenderOrder
<1>1. Init => Inv /\ InOrder
  BY InitType DEF Init, InOrder
<1>2. Inv /\ InOrder /\ [Next]_vars => Inv' /\ InOrder'
  BY NextType, NextOrder
<1>3. Inv /\ InOrder => RenderOrder
  <2> SUFFICES ASSUME Inv, InOrder, NEW t \in Tasks, NEW i \in DOMAIN shown[t], i > 1
               PROVE  Precedes(shown[t][i - 1].path, shown[t][i].path)
    BY DEF RenderOrder
  <2>1. shown[t] \in Seq(Shows)
    BY DEF Inv, Data
  <2>2. i \in 2..Len(shown[t])
    BY <2>1, LenProperties
  <2> QED  BY <2>2 DEF InOrder
<1> QED  BY <1>1, <1>2, <1>3, PTL DEF Spec
-----------------------------------------------------------------------------
(* What a click stands at, and what that can lead to, is its own.          *)
LEMMA OwnAhead ==
  ASSUME Inv, OwnOnly, NEW t \in Clicks, Standing(t)
  PROVE  /\ Top(t).arg \in OwnArgs(t) /\ Current(t).arg \in OwnArgs(t)
         /\ \A i \in DOMAIN Current(t).body : OwnItem(t, Current(t).body[i])
         /\ \A f : LeadsTo(t, f) => \A i \in DOMAIN Disk[f] : OwnItem(t, Disk[f][i])
<1>1. /\ t \in Tasks /\ Data /\ Len(stack[t]) \in DOMAIN stack[t]
      /\ Top(t).todo \in Seq(Items) /\ Top(t).todo # <<>>
  <2>1. t \in Tasks /\ Data
    BY DEF Tasks, Inv
  <2>2. stack[t] \in Seq(Frames) /\ Len(stack[t]) \in Nat \ {0} /\ Top(t) \in Frames
    BY <2>1, AtSpan DEF Standing
  <2> QED  BY <2>1, <2>2, LenProperties DEF Frames, Standing
<1>2. OwnFrame(t, Top(t))
  BY <1>1 DEF OwnOnly, Top
<1>3. PICK s : s = Top(t).todo[1]
  OBVIOUS
<1>4. 1 \in DOMAIN Top(t).todo
  BY <1>1, EmptySeq, LenProperties
<1>5. OwnItem(t, s) /\ Top(t).arg \in OwnArgs(t)
  BY <1>2, <1>3, <1>4 DEF OwnFrame
<1>6. /\ Current(t).kind = s.kind /\ Current(t).name = s.name /\ Current(t).body = s.body
      /\ Current(t).arg = IF s.arg = Hole THEN Top(t).arg ELSE s.arg
  BY <1>1, <1>3, AtSpan
<1>7. Current(t).arg \in OwnArgs(t)
  BY <1>5, <1>6 DEF OwnItem, OwnArgs
<1>8. \A i \in DOMAIN Current(t).body : OwnItem(t, Current(t).body[i])
  BY <1>5, <1>6, HandlerSpansAssumption DEF OwnItem
<1>9. ASSUME NEW f, LeadsTo(t, f) PROVE SpansOf(f) \subseteq HandlerSpans
  <2>1. CASE \E o \in DOMAIN HandlerOf : f = HandlerOf[o]
    BY <1>9, <2>1, HandlerSpansAssumption DEF LeadsTo
  <2>2. CASE s.kind \in {"include", "part"} /\ f = s.name
    BY <1>5, <1>9, <2>2, HandlerSpansAssumption DEF LeadsTo, OwnItem
  <2>3. CASE s.kind = "component" /\ f = HandlerFor[s.name]
    BY <1>5, <1>9, <2>3, HandlerSpansAssumption DEF LeadsTo, OwnItem
  <2> QED  BY <1>6, <1>9, <2>1, <2>2, <2>3 DEF LeadsTo
<1>10. ASSUME NEW f, LeadsTo(t, f), NEW i \in DOMAIN Disk[f] PROVE OwnItem(t, Disk[f][i])
  BY <1>9, <1>10 DEF SpansOf, OwnItem
<1> QED  BY <1>5, <1>7, <1>8, <1>10

LEMMA OwnRest ==
  ASSUME Inv, OwnOnly, NEW t \in Clicks, Standing(t)
  PROVE  \A k \in 1..Len(stack[t]) : OwnFrame(t, Rest(t)[k])
<1>1. /\ t \in Tasks /\ Data /\ Len(stack[t]) \in Nat \ {0} /\ DOMAIN stack[t] = 1..Len(stack[t])
      /\ Top(t).todo \in Seq(Items) /\ Top(t).todo # <<>>
  <2>1. t \in Tasks /\ Data
    BY DEF Tasks, Inv
  <2>2. stack[t] \in Seq(Frames) /\ Len(stack[t]) \in Nat \ {0} /\ Top(t) \in Frames
    BY <2>1, AtSpan DEF Standing
  <2> QED  BY <2>1, <2>2, LenProperties DEF Frames, Standing
<1>2. PICK g, todo : g = Rest(t)[Len(stack[t])] /\ todo = Top(t).todo
  OBVIOUS
<1>3. g.todo = Tail(todo) /\ g.arg = Top(t).arg
  BY <1>1, <1>2, RestIs DEF Standing
<1>4. OwnFrame(t, Top(t))
  BY <1>1 DEF OwnOnly, Top
<1>5. ASSUME NEW i \in DOMAIN Tail(todo) PROVE OwnItem(t, Tail(todo)[i])
  <2>1. i \in 1..(Len(todo) - 1) /\ Tail(todo)[i] = todo[i + 1] /\ i + 1 \in DOMAIN todo
    BY <1>1, <1>2, <1>5, TailIs, LenProperties
  <2> QED  BY <1>2, <1>4, <2>1 DEF OwnFrame
<1>6. OwnFrame(t, g)
  BY <1>3, <1>4, <1>5 DEF OwnFrame
<1>7. \A k \in 1..(Len(stack[t]) - 1) : OwnFrame(t, Rest(t)[k])
  <2>1. \A k \in 1..(Len(stack[t]) - 1) : Rest(t)[k] = stack[t][k] /\ k \in DOMAIN stack[t]
    BY <1>1, RestIs DEF Standing
  <2> QED  BY <2>1 DEF OwnOnly
<1>8. \A k \in 1..Len(stack[t]) : k = Len(stack[t]) \/ k \in 1..(Len(stack[t]) - 1)
  BY <1>1
<1> QED  BY <1>2, <1>6, <1>7, <1>8

(* A step of a click leaves it with what is its own.                       *)
LEMMA StepOwn ==
  ASSUME Inv, OwnOnly, NEW t \in Clicks, Effect(t)
  PROVE  /\ \A k \in DOMAIN stack'[t] : OwnFrame(t, stack'[t][k])
         /\ \A i \in DOMAIN shown'[t] : shown'[t][i].arg \in OwnArgs(t)
<1>1. /\ t \in Tasks /\ Data /\ stack[t] \in Seq(Frames) /\ shown[t] \in Seq(Shows)
      /\ DOMAIN stack[t] = 1..Len(stack[t]) /\ Len(stack[t]) \in Nat
  <2>1. t \in Tasks /\ Data
    BY DEF Tasks, Inv
  <2> QED  BY <2>1, LenProperties DEF Data
<1>2. ASSUME Standing(t), Showing(t)
      PROVE  \A i \in DOMAIN shown'[t] : shown'[t][i].arg \in OwnArgs(t)
  <2>1. PICK what \in Whats :
          shown'[t] = shown[t] \o <<[path |-> Path(t), what |-> what,
                                    name |-> Current(t).name, arg |-> Current(t).arg]>>
    BY <1>2 DEF Showing
  <2>2. PICK x \in Shows :
          x = [path |-> Path(t), what |-> what, name |-> Current(t).name, arg |-> Current(t).arg]
    BY <1>1, <1>2, FramesMade DEF Shows, Whats
  <2>3. x.arg \in OwnArgs(t)
    BY <1>2, <2>2, OwnAhead
  <2>4. /\ shown'[t] \in Seq(Shows) /\ Len(shown'[t]) = Len(shown[t]) + 1
        /\ shown'[t][Len(shown[t]) + 1] = x /\ \A i \in 1..Len(shown[t]) : shown'[t][i] = shown[t][i]
    BY <1>1, <2>1, <2>2, OnTop
  <2>5. \A i \in 1..Len(shown[t]) : shown'[t][i].arg \in OwnArgs(t)
    BY <1>1, <2>4, LenProperties DEF OwnOnly
  <2>6. /\ DOMAIN shown'[t] = 1..(Len(shown[t]) + 1)
        /\ \A i \in DOMAIN shown'[t] : i = Len(shown[t]) + 1 \/ i \in 1..Len(shown[t])
    BY <1>1, <2>4, LenProperties
  <2> QED  BY <2>3, <2>4, <2>5, <2>6
<1>3. ASSUME shown'[t] = shown[t]
      PROVE  \A i \in DOMAIN shown'[t] : shown'[t][i].arg \in OwnArgs(t)
  BY <1>3 DEF OwnOnly
<1>4. ASSUME stack[t] # <<>>, stack'[t] = Below(t)
      PROVE  \A k \in DOMAIN stack'[t] : OwnFrame(t, stack'[t][k])
  <2>1. \A k \in DOMAIN stack'[t] : k \in DOMAIN stack[t] /\ stack'[t][k] = stack[t][k]
    BY SMTT(20), <1>1, <1>4, BelowIs, LenProperties
  <2> QED  BY <2>1 DEF OwnOnly
<1>5. ASSUME Standing(t), stack'[t] = Rest(t)
      PROVE  \A k \in DOMAIN stack'[t] : OwnFrame(t, stack'[t][k])
  <2>1. DOMAIN stack'[t] = 1..Len(stack[t])
    BY <1>1, <1>5, RestIs, LenProperties DEF Standing
  <2> QED  BY <1>5, <2>1, OwnRest
<1>6. ASSUME Standing(t), NEW f \in Frames, OwnFrame(t, f),
             stack'[t] = Rest(t) \o <<f>> \/ stack'[t] = Below(t) \o <<f>>
      PROVE  \A k \in DOMAIN stack'[t] : OwnFrame(t, stack'[t][k])
  <2>1. CASE stack'[t] = Rest(t) \o <<f>>
    <3>1. /\ stack'[t] \in Seq(Frames) /\ Len(stack'[t]) = Len(stack[t]) + 1
          /\ stack'[t][Len(stack[t]) + 1] = f
          /\ \A k \in 1..Len(stack[t]) : stack'[t][k] = Rest(t)[k]
      BY <1>1, <1>6, <2>1, Entered DEF Standing
    <3>2. \A k \in DOMAIN stack'[t] : k = Len(stack[t]) + 1 \/ k \in 1..Len(stack[t])
      BY <1>1, <3>1, LenProperties
    <3> QED  BY <1>6, <3>1, <3>2, OwnRest
  <2>2. CASE stack'[t] = Below(t) \o <<f>>
    <3>1. /\ stack'[t] \in Seq(Frames) /\ Len(stack'[t]) = Len(stack[t])
          /\ stack'[t][Len(stack[t])] = f
          /\ \A k \in 1..(Len(stack[t]) - 1) : stack'[t][k] = stack[t][k]
      BY <1>1, <1>6, <2>2, Entered DEF Standing
    <3>2. \A k \in DOMAIN stack'[t] : k = Len(stack[t]) \/ k \in 1..(Len(stack[t]) - 1)
      BY <1>1, <3>1, LenProperties
    <3>3. \A k \in 1..(Len(stack[t]) - 1) : k \in DOMAIN stack[t]
      BY <1>1
    <3> QED  BY <1>6, <3>1, <3>2, <3>3 DEF OwnOnly
  <2> QED  BY <1>6, <2>1, <2>2
<1>7. CASE Standing(t) /\ Waits(t)
  BY <1>3, <1>7 DEF Waits, OwnOnly
<1>8. CASE stack[t] # <<>> /\ stack'[t] = Below(t) /\ shown'[t] = shown[t]
  BY <1>3, <1>4, <1>8
<1>9. CASE Standing(t) /\ MovesOn(t)
  BY <1>2, <1>3, <1>5, <1>9 DEF MovesOn, Silent
<1>10. CASE Standing(t) /\ Opens(t)
  <2>1. PICK f : f = Frame(Current(t).body, 0, Top(t).arg, Opener(t))
    OBVIOUS
  <2>2. f \in Frames
    <3>1. Current(t).body \in Seq(Spans) /\ Top(t).arg \in Args
      BY <1>1, <1>10, FramesMade
    <3> QED  BY <1>1, <1>10, <2>1, <3>1, FramesMade
  <2>3. OwnFrame(t, f)
    BY <1>10, <2>1, OwnAhead DEF OwnFrame, Frame
  <2> QED  BY <1>2, <1>6, <1>10, <2>1, <2>2, <2>3 DEF Opens
<1>11. CASE Standing(t) /\ GivesWay(t)
  <2>1. PICK f \in Arrays, arg \in {Current(t).arg, Blank, Hole} :
          /\ LeadsTo(t, f)
          /\ \/ stack'[t] = Below(t) \o <<Frame(Disk[f], Top(t).n, arg, Opener(t))>>
             \/ stack'[t] = Rest(t) \o <<Frame(Disk[f], 0, arg, Opener(t))>>
    BY <1>11 DEF GivesWay
  <2>2. arg \in OwnArgs(t) /\ \A i \in DOMAIN Disk[f] : OwnItem(t, Disk[f][i])
    BY <1>11, <2>1, OwnAhead DEF OwnArgs
  <2>3. Disk[f] \in Seq(Spans) /\ arg \in Args /\ Top(t).n \in Nat
    BY <1>1, <1>11, FramesMade, UiDispatchAssumption, SpansAssumption DEF Args
  <2>4. ASSUME NEW n \in Nat
        PROVE  Frame(Disk[f], n, arg, Opener(t)) \in Frames /\ OwnFrame(t, Frame(Disk[f], n, arg, Opener(t)))
    <3>1. Frame(Disk[f], n, arg, Opener(t)) \in Frames
      BY <1>1, <1>11, <2>3, FramesMade
    <3> QED  BY <2>2, <3>1 DEF OwnFrame, Frame
  <2>5. PICK n \in Nat :
          \/ stack'[t] = Below(t) \o <<Frame(Disk[f], n, arg, Opener(t))>>
          \/ stack'[t] = Rest(t) \o <<Frame(Disk[f], n, arg, Opener(t))>>
    BY <2>1, <2>3
  <2> QED  BY <1>3, <1>6, <1>11, <2>4, <2>5 DEF GivesWay, Silent
<1>12. CASE Standing(t) /\ GivesUp(t)
  BY <1>2, <1>4, <1>12 DEF GivesUp, Standing
<1> QED  BY <1>7, <1>8, <1>9, <1>10, <1>11, <1>12 DEF Effect

LEMMA NextOwn ==
  ASSUME Inv, OwnOnly, [Next]_vars
  PROVE  OwnOnly'
<1>1. ASSUME NEW t \in Tasks, Step(t) PROVE OwnOnly'
  <2>1. Effect(t) /\ OthersStay(t) /\ own' = own
    BY <1>1, StepIs
  <2>2. Clicks \subseteq Tasks
    BY DEF Tasks
  <2>3. ASSUME NEW u \in Clicks
        PROVE  /\ \A k \in DOMAIN stack'[u] : OwnFrame(u, stack'[u][k])
               /\ \A i \in DOMAIN shown'[u] : shown'[u][i].arg \in OwnArgs(u)
    <3>1. CASE u = t
      BY <2>1, <3>1, StepOwn
    <3>2. CASE u # t
      <4>1. stack'[u] = stack[u] /\ shown'[u] = shown[u]
        BY <2>1, <2>2, <2>3, <3>2 DEF OthersStay
      <4> QED  BY <2>3, <4>1 DEF OwnOnly
    <3> QED  BY <3>1, <3>2
  <2>4. ASSUME NEW u \in Clicks
        PROVE  /\ OwnArgs(u)' = OwnArgs(u)
               /\ \A k \in DOMAIN stack'[u] : OwnFrame(u, stack[u][k])' = OwnFrame(u, stack'[u][k])
    BY <2>1 DEF OwnArgs, OwnFrame, OwnItem
  <2> QED  BY <2>3, <2>4 DEF OwnOnly
<1>2. CASE bootstrapLogLineUI
  <2>1. /\ UNCHANGED <<own, shown>> /\ \A u \in Tasks \ {Boot} : stack'[u] = stack[u]
    BY <1>2, BootType
  <2>2. Clicks \subseteq Tasks \ {Boot}
    BY UiDispatchAssumption DEF Tasks
  <2> QED  BY <2>1, <2>2 DEF OwnOnly, OwnFrame, OwnItem, OwnArgs
<1>3. CASE initializeRuntime
  <2>1. /\ UNCHANGED <<own, shown>> /\ \A c \in Clicks : stack'[c] = <<>>
    BY <1>3, StartType
  <2> QED  BY <2>1 DEF OwnOnly, OwnFrame, OwnItem, OwnArgs
<1>4. ASSUME NEW t \in Tasks, Click(t) PROVE OwnOnly'
  <2>1. /\ shown' = shown /\ shown[t] = <<>>
        /\ \A u \in Tasks \ {t} : stack'[u] = stack[u] /\ own'[u] = own[u]
    BY <1>4, ClickType
  <2>2. PICK s \in Items : /\ s.kind = "operation" /\ s.arg = own'[t] /\ s.body = <<>>
                          /\ stack'[t] = <<Frame(<<s>>, 0, Hole, Page)>>
    BY <1>4, ClickType
  <2>3. Clicks \subseteq Tasks
    BY DEF Tasks
  <2>4. ASSUME NEW u \in Clicks, NEW k \in DOMAIN stack'[u]
        PROVE  /\ stack'[u][k].arg \in OwnArgs(u)'
               /\ \A i \in DOMAIN stack'[u][k].todo : OwnItem(u, stack[u][k].todo[i])'
    <3>1. CASE u = t
      <4>1. k = 1 /\ stack'[u][k].todo = <<s>> /\ stack'[u][k].arg = Hole
        BY <2>2, <2>4, <3>1 DEF Frame
      <4> QED  BY <2>2, <3>1, <4>1 DEF OwnItem, OwnArgs
    <3>2. CASE u # t
      BY <2>1, <2>3, <2>4, <3>2 DEF OwnOnly, OwnFrame, OwnItem, OwnArgs
    <3> QED  BY <3>1, <3>2
  <2>5. ASSUME NEW u \in Clicks, NEW i \in DOMAIN shown'[u]
        PROVE  shown'[u][i].arg \in OwnArgs(u)'
    BY <2>1, <2>3, <2>5 DEF OwnOnly, OwnArgs
  <2> QED  BY <2>4, <2>5 DEF OwnOnly, OwnFrame
<1>5. CASE loadConfigurations \/ (\E p \in Paths : Input(p)) \/ UNCHANGED vars
  <2>1. UNCHANGED <<stack, own, shown>>
    BY <1>5, OtherType DEF taskVars
  <2> QED  BY <2>1 DEF OwnOnly, OwnFrame, OwnItem, OwnArgs
<1> QED  BY <1>1, <1>2, <1>3, <1>4, <1>5 DEF Next, Browser, User

(***************************************************************************)
(* The handlers are cached and shared, what is passed to them is not: a    *)
(* click shows its own argument, or what its handlers say, or nothing that *)
(* was filled in, whatever else runs through the same handlers meanwhile.  *)
(***************************************************************************)
THEOREM ArgumentsAreOwn == Spec => []OwnArguments
<1>1. Init => Inv /\ OwnOnly
  BY InitType DEF Init, OwnOnly, Tasks
<1>2. Inv /\ OwnOnly /\ [Next]_vars => Inv' /\ OwnOnly'
  BY NextType, NextOwn
<1>3. OwnOnly => OwnArguments
  BY DEF OwnOnly, OwnArguments, OwnArgs
<1> QED  BY <1>1, <1>2, <1>3, PTL DEF Spec
-----------------------------------------------------------------------------
(* What was shown stays, and one more is what the current span leaves.     *)
LEMMA ThereStays ==
  ASSUME Inv, entry' = entry, Boot \in Tasks,
         shown'[Boot] = shown[Boot] \/ (Standing(Boot) /\ Showing(Boot)),
         NEW i, There(i)
  PROVE  There(i)'
<1>1. Data /\ shown[Boot] \in Seq(Shows)
  BY DEF Inv, Data
<1>2. CASE Standing(Boot) /\ Showing(Boot)
  <2>1. PICK x \in Shows : shown'[Boot] = shown[Boot] \o <<x>>
    BY <1>1, <1>2, FramesMade DEF Showing, Shows, Whats
  <2>2. /\ shown'[Boot] \in Seq(Shows) /\ Len(shown'[Boot]) = Len(shown[Boot]) + 1
        /\ \A k \in 1..Len(shown[Boot]) : shown'[Boot][k] = shown[Boot][k]
    BY <1>1, <2>1, OnTop
  <2>3. \A k \in DOMAIN shown[Boot] : k \in DOMAIN shown'[Boot] /\ k \in 1..Len(shown[Boot])
    BY <1>1, <2>2, LenProperties
  <2> QED  BY <2>2, <2>3 DEF There
<1> QED  BY <1>2 DEF There

(* At the first level, the current span is the next one of the entry file. *)
LEMMA EntrySpan ==
  ASSUME Inv, AtEntry, Boot \in Tasks, Len(stack[Boot]) = 1, Standing(Boot)
  PROVE  /\ stack[Boot][1].n \in Nat /\ Len(stack[Boot][1].todo) \in Nat \ {0}
         /\ stack[Boot][1] = Top(Boot)
         /\ stack[Boot][1].n + 1 \in DOMAIN Disk[entry]
         /\ Current(Boot).kind = Disk[entry][stack[Boot][1].n + 1].kind
         /\ Due(stack[Boot][1].n + 1) => Plain(Boot)
<1>1. Data /\ entry \in Files /\ Disk[entry] \in Seq(Spans)
  BY UiDispatchAssumption, SpansAssumption DEF Inv, Data
<1>2. PICK f \in Frames : f = stack[Boot][1] /\ f = Top(Boot)
  BY <1>1, AtSpan DEF Standing, Top
<1>3. f.todo \in Seq(Items) /\ f.n \in Nat /\ f.todo # <<>>
  BY <1>2 DEF Frames, Standing
<1>4. Len(f.todo) \in Nat \ {0} /\ 1 \in DOMAIN f.todo
  BY <1>3, EmptySeq, LenProperties
<1>5. f.todo[1] = Disk[entry][f.n + 1] /\ f.n + 1 \in DOMAIN Disk[entry]
  <2>1. f.n + Len(f.todo) = Len(Disk[entry]) /\ f.todo[1] = Disk[entry][f.n + 1]
    BY <1>2, <1>4 DEF AtEntry
  <2> QED  BY <1>1, <1>3, <1>4, <2>1, LenProperties
<1>6. PICK s : s = f.todo[1]
  OBVIOUS
<1>7. Current(Boot).kind = s.kind /\ (s.cond # Hole => Current(Boot).cond = s.cond)
  BY <1>1, <1>2, <1>6, AtSpan DEF Standing
<1>8. Always # Hole
  BY UiDispatchAssumption
<1> QED  BY <1>2, <1>3, <1>4, <1>5, <1>6, <1>7, <1>8 DEF Due, Plain

LEMMA EntrySpanDone ==
  ASSUME Inv, AtEntry, Boot \in Tasks, Len(stack[Boot]) = 1, Standing(Boot),
         Showing(Boot) \/ Silent(Boot), entry' = entry,
         NEW n \in Nat, n = stack[Boot][1].n + 1
  PROVE  Upto(n)'
<1>1. Data /\ shown[Boot] \in Seq(Shows) /\ stack[Boot] \in Seq(Frames)
  BY DEF Inv, Data
<1>2. stack[Boot][1].n \in Nat /\ (Due(n) => Plain(Boot))
  BY EntrySpan
<1>3. \A i : There(i) => There(i)'
  <2>1. shown'[Boot] = shown[Boot] \/ (Standing(Boot) /\ Showing(Boot))
    BY DEF Silent
  <2> QED  BY <2>1, ThereStays
<1>4. Upto(stack[Boot][1].n)
  BY DEF AtEntry
<1>5. Due(n) => There(n)'
  <2>1. SUFFICES ASSUME Due(n) PROVE There(n)'
    OBVIOUS
  <2>2. Showing(Boot)
    BY <1>2, <2>1 DEF Silent
  <2>3. PICK x \in Shows : shown'[Boot] = shown[Boot] \o <<x>> /\ x.path = Path(Boot)
    <3>1. PICK what \in Whats :
            shown'[Boot] = shown[Boot] \o <<[path |-> Path(Boot), what |-> what,
                                            name |-> Current(Boot).name, arg |-> Current(Boot).arg]>>
      BY <2>2 DEF Showing
    <3>2. PICK x : x = [path |-> Path(Boot), what |-> what,
                        name |-> Current(Boot).name, arg |-> Current(Boot).arg]
      OBVIOUS
    <3>3. x \in Shows /\ x.path = Path(Boot)
      BY <1>1, <3>2, FramesMade DEF Shows, Whats
    <3> QED  BY <3>1, <3>2, <3>3
  <2>4. Path(Boot) = <<n>>
    <3>1. Path(Boot) = [k \in 1..1 |-> IF k = 1 THEN n ELSE stack[Boot][k].n]
      BY DEF Path, Top
    <3>2. [k \in 1..1 |-> IF k = 1 THEN n ELSE stack[Boot][k].n] = <<n>>
      OBVIOUS
    <3> QED  BY <3>1, <3>2
  <2>5. Len(shown[Boot]) + 1 \in DOMAIN shown'[Boot] /\ shown'[Boot][Len(shown[Boot]) + 1] = x
    BY <1>1, <2>3, OnTop, LenProperties
  <2> QED  BY <2>3, <2>4, <2>5 DEF There
<1>6. ASSUME NEW i \in DOMAIN Disk[entry], i =< n, Due(i) PROVE There(i)'
  <2>1. CASE i = n
    BY <1>5, <1>6, <2>1
  <2>2. CASE i # n
    <3>1. Disk[entry] \in Seq(Spans)
      BY <1>1, UiDispatchAssumption, SpansAssumption DEF Data
    <3>2. i =< stack[Boot][1].n
      BY <1>2, <1>6, <2>2, <3>1, LenProperties
    <3> QED  BY <1>3, <1>4, <1>6, <3>2 DEF Upto
  <2> QED  BY <2>1, <2>2
<1> QED  BY <1>6 DEF Upto, Due

(* The loop over the entry file keeps its place below whatever it opens,   *)
(* and leaves no span out.                                                 *)
LEMMA StepProgress ==
  ASSUME Inv, Progress, Boot \in Tasks, Effect(Boot), entry' = entry
  PROVE  Progress'
<1>1. /\ Data /\ TypeOK /\ stack[Boot] \in Seq(Frames) /\ stack[Boot] # <<>>
      /\ entry \in Files /\ Disk[entry] \in Seq(Spans)
  BY UiDispatchAssumption, SpansAssumption DEF Inv, Data, Effect, Standing
<1>2. SUFFICES ASSUME Layouts(Disk[entry]) = {}
               PROVE  Upto(Len(Disk[entry]))' \/ AtEntry'
  BY DEF Progress, Layouts
<1>3. Upto(Len(Disk[entry])) \/ AtEntry
  BY <1>1, <1>2 DEF Progress, TypeOK
<1>4. \A i : There(i) => There(i)'
  <2>1. shown'[Boot] = shown[Boot] \/ (Standing(Boot) /\ Showing(Boot))
    BY DEF Effect, Waits, MovesOn, Opens, GivesWay, GivesUp, Silent
  <2> QED  BY <2>1, ThereStays
<1>5. \A n : Upto(n) => Upto(n)'
  BY <1>4 DEF Upto, Due
<1>6. CASE Upto(Len(Disk[entry]))
  BY <1>5, <1>6
<1>7. ASSUME AtEntry, stack'[Boot] # <<>>, stack'[Boot][1] = stack[Boot][1] PROVE AtEntry'
  BY <1>5, <1>7 DEF AtEntry
<1>8. Len(stack[Boot]) \in Nat \ {0}
  BY <1>1, Front
<1>9. CASE AtEntry /\ Len(stack[Boot]) > 1
  <2>1. Below(Boot) # <<>> /\ Below(Boot)[1] = stack[Boot][1]
    <3>1. /\ Below(Boot) \in Seq(Frames) /\ Len(Below(Boot)) = Len(stack[Boot]) - 1
          /\ 1 \in 1..(Len(stack[Boot]) - 1)
          /\ \A k \in 1..(Len(stack[Boot]) - 1) : Below(Boot)[k] = stack[Boot][k]
      BY <1>1, <1>8, <1>9, BelowIs
    <3> QED  BY <1>8, <1>9, <3>1
  <2>2. ASSUME Standing(Boot) PROVE Rest(Boot) # <<>> /\ Rest(Boot)[1] = stack[Boot][1]
    <3>1. /\ Rest(Boot) \in Seq(Frames) /\ Len(Rest(Boot)) = Len(stack[Boot])
          /\ 1 \in 1..(Len(stack[Boot]) - 1)
          /\ \A k \in 1..(Len(stack[Boot]) - 1) : Rest(Boot)[k] = stack[Boot][k]
      BY <1>1, <1>8, <1>9, <2>2, RestIs DEF Standing
    <3> QED  BY <1>8, <1>9, <3>1
  <2>3. ASSUME Standing(Boot), NEW f \in Frames
        PROVE  /\ Rest(Boot) \o <<f>> # <<>> /\ (Rest(Boot) \o <<f>>)[1] = stack[Boot][1]
               /\ Below(Boot) \o <<f>> # <<>> /\ (Below(Boot) \o <<f>>)[1] = stack[Boot][1]
    <3>1. 1 \in 1..Len(stack[Boot]) /\ 1 \in 1..(Len(stack[Boot]) - 1)
      BY <1>8, <1>9
    <3>2. /\ (Rest(Boot) \o <<f>>)[1] = Rest(Boot)[1] /\ Len(Rest(Boot) \o <<f>>) = Len(stack[Boot]) + 1
          /\ (Below(Boot) \o <<f>>)[1] = stack[Boot][1] /\ Len(Below(Boot) \o <<f>>) = Len(stack[Boot])
          /\ Rest(Boot) \o <<f>> \in Seq(Frames) /\ Below(Boot) \o <<f>> \in Seq(Frames)
      BY <1>1, <2>3, <3>1, Entered DEF Standing
    <3> QED  BY <1>8, <2>2, <2>3, <3>2
  <2>4. CASE Standing(Boot) /\ Waits(Boot)
    BY <1>1, <1>7, <1>9, <2>4 DEF Waits
  <2>5. CASE Standing(Boot) /\ MovesOn(Boot)
    BY <1>7, <1>9, <2>2, <2>5 DEF MovesOn
  <2>6. CASE Standing(Boot) /\ Opens(Boot)
    <3>1. Current(Boot).body \in Seq(Spans) /\ Top(Boot).arg \in Args
      BY <1>1, <2>6, FramesMade
    <3>2. Frame(Current(Boot).body, 0, Top(Boot).arg, Opener(Boot)) \in Frames
      BY <1>1, <2>6, <3>1, FramesMade
    <3> QED  BY <1>7, <1>9, <2>3, <2>6, <3>2 DEF Opens
  <2>7. CASE Standing(Boot) /\ GivesWay(Boot)
    <3>1. PICK g \in Frames : stack'[Boot] = Rest(Boot) \o <<g>> \/ stack'[Boot] = Below(Boot) \o <<g>>
      BY <1>1, <2>7, GivesFrame
    <3> QED  BY <1>7, <1>9, <2>3, <2>7, <3>1
  <2>8. CASE stack'[Boot] = Below(Boot)
    BY <1>7, <1>9, <2>1, <2>8
  <2> QED  BY <2>4, <2>5, <2>6, <2>7, <2>8 DEF Effect, GivesUp
<1>10. CASE AtEntry /\ Len(stack[Boot]) = 1
  <2>1. PICK f \in Frames : f = stack[Boot][1] /\ f = Top(Boot)
    BY <1>1, <1>10, Front DEF Top
  <2>2. f.n \in Nat /\ f.todo \in Seq(Items) /\ Len(f.todo) \in Nat
    BY <2>1, LenProperties DEF Frames
  <2>3. f.n + Len(f.todo) = Len(Disk[entry]) /\ Upto(f.n)
    BY <1>10, <2>1 DEF AtEntry
  <2>4. PICK n \in Nat : n = f.n + 1
    BY <2>2
  <2>5. CASE Standing(Boot) /\ Waits(Boot)
    BY <1>1, <1>7, <1>10, <2>5 DEF Waits
  <2>6. CASE f.todo = <<>>
    BY <1>5, <2>2, <2>3, <2>6
  <2>7. ASSUME Standing(Boot), Showing(Boot) \/ Silent(Boot) PROVE Upto(n)'
    BY <1>10, <2>1, <2>4, <2>7, EntrySpanDone
  <2>8. ASSUME Standing(Boot), Showing(Boot) \/ Silent(Boot),
               stack'[Boot] # <<>>, stack'[Boot][1] = Rest(Boot)[1]
        PROVE  AtEntry'
    <3>1. PICK g : g = stack'[Boot][1]
      OBVIOUS
    <3>2. g.todo = Tail(f.todo) /\ g.n = n
      BY <1>1, <1>10, <2>1, <2>4, <2>8, <3>1, RestIs DEF Standing
    <3>3. /\ Len(Tail(f.todo)) = Len(f.todo) - 1 /\ Tail(f.todo) \in Seq(Items)
          /\ \A i \in 1..(Len(f.todo) - 1) : Tail(f.todo)[i] = f.todo[i + 1]
      BY <2>1, <2>2, <2>8, TailIs DEF Standing
    <3>4. g.n + Len(g.todo) = Len(Disk[entry])
      BY <2>2, <2>3, <2>4, <3>2, <3>3
    <3>5. ASSUME NEW i \in DOMAIN g.todo PROVE g.todo[i] = Disk[entry][g.n + i]
      <4>1. i \in 1..(Len(f.todo) - 1) /\ i + 1 \in DOMAIN f.todo /\ i \in Nat
        BY <2>2, <3>2, <3>3, <3>5, LenProperties
      <4>2. f.todo[i + 1] = Disk[entry][f.n + (i + 1)]
        BY <1>10, <2>1, <4>1 DEF AtEntry
      <4>3. PICK m \in Nat : m = f.n
        BY <2>2
      <4>4. f.n + (i + 1) = g.n + i
        <5>1. n = m + 1
          BY <2>4, <4>3
        <5>2. m + (i + 1) = n + i
          BY <4>1, <5>1
        <5> QED  BY <3>2, <4>3, <5>2
      <4> QED  BY <3>2, <3>3, <4>1, <4>2, <4>4
    <3>6. Upto(n)'
      BY <2>7, <2>8
    <3>7. Upto(g.n)'
      BY <3>2, <3>6
    <3> QED  BY <2>8, <3>1, <3>2, <3>4, <3>5, <3>6 DEF AtEntry
  <2>9. ASSUME Standing(Boot)
        PROVE  /\ Rest(Boot) # <<>> /\ \A g \in Frames : Rest(Boot) \o <<g>> # <<>> /\
                    (Rest(Boot) \o <<g>>)[1] = Rest(Boot)[1]
    <3>1. Rest(Boot) \in Seq(Frames) /\ Len(Rest(Boot)) = 1
      BY <1>1, <1>10, <2>9, RestIs DEF Standing
    <3> QED  BY <3>1, OnTop
  <2>10. CASE Standing(Boot) /\ MovesOn(Boot)
    BY <2>8, <2>9, <2>10 DEF MovesOn
  <2>11. CASE Standing(Boot) /\ Opens(Boot)
    <3>1. Current(Boot).body \in Seq(Spans) /\ Top(Boot).arg \in Args
      BY <1>1, <2>11, FramesMade
    <3>2. Frame(Current(Boot).body, 0, Top(Boot).arg, Opener(Boot)) \in Frames
      BY <1>1, <2>11, <3>1, FramesMade
    <3> QED  BY <2>8, <2>9, <2>11, <3>2 DEF Opens
  <2>12. CASE Standing(Boot) /\ GivesWay(Boot)
    <3>1. CASE Len(Top(Boot).todo) = 1
      BY <2>1, <2>2, <2>3, <2>4, <2>7, <2>12, <3>1 DEF GivesWay
    <3>2. PICK g \in Frames :
            \/ Len(Top(Boot).todo) = 1
            \/ stack'[Boot] = Rest(Boot) \o <<g>>
      BY <1>1, <2>12, GivesFrame
    <3> QED  BY <2>8, <2>9, <2>12, <3>1, <3>2 DEF GivesWay
  <2>13. CASE Standing(Boot) /\ GivesUp(Boot)
    <3>1. Current(Boot).kind # "part"
      BY <1>1, <1>10, <2>13, EntrySpan, SpansAssumption
    <3> QED  BY <2>13, <3>1 DEF GivesUp
  <2> QED  BY <2>1, <2>5, <2>6, <2>10, <2>11, <2>12, <2>13 DEF Effect
<1>11. Len(stack[Boot]) = 1 \/ Len(stack[Boot]) > 1
  <2>1. \A a \in Nat \ {0} : a = 1 \/ a > 1
    OBVIOUS
  <2> QED  BY <1>8, <2>1
<1> QED  BY <1>3, <1>6, <1>9, <1>10, <1>11

LEMMA NextProgress ==
  ASSUME Inv, Progress, [Next]_vars
  PROVE  Progress'
<1> DEFINE Same == UNCHANGED <<phase[Boot], stack[Boot], shown[Boot], entry>>
<1>1. ASSUME Same PROVE Progress'
  BY ZenonT(40), <1>1 DEF Progress, AtEntry, Upto, Due, There
<1>2. Boot \in Tasks
  BY DEF Tasks
<1>3. ASSUME NEW t \in Tasks, Step(t) PROVE Progress'
  <2>1. Effect(t) /\ OthersStay(t) /\ entry' = entry
    BY <1>3, StepIs DEF stateVars
  <2>2. CASE t = Boot
    BY <1>2, <2>1, <2>2, StepProgress
  <2>3. CASE t # Boot
    BY <1>1, <1>2, <2>1, <2>3 DEF OthersStay
  <2> QED  BY <2>2, <2>3
<1>4. CASE bootstrapLogLineUI
  <2>1. /\ entry' = entry /\ Inv
        /\ phase'[Boot] # "rejected" => stack'[Boot] = <<Frame(EntrySpans, 0, Hole, Page)>>
    BY <1>4, BootType DEF stateVars
  <2>2. Disk[entry] \in Seq(Spans)
    BY UiDispatchAssumption, SpansAssumption DEF Inv, Data
  <2>3. SUFFICES ASSUME phase'[Boot] # "rejected", Layouts(Disk[entry]) = {} PROVE AtEntry'
    BY <2>1 DEF Progress, Layouts
  <2>4. PICK f : f = stack'[Boot][1]
    OBVIOUS
  <2>5. f.n = 0 /\ f.todo = Disk[entry] /\ stack'[Boot] # <<>>
    BY <2>1, <2>3, <2>4 DEF Frame, EntrySpans
  <2>6. /\ f.n + Len(f.todo) = Len(Disk[entry])
        /\ \A i \in DOMAIN f.todo : f.todo[i] = Disk[entry][f.n + i] /\ ~(i =< f.n)
    BY <2>2, <2>5, LenProperties
  <2> QED  BY <2>1, <2>4, <2>5, <2>6 DEF AtEntry, Upto
<1>5. CASE initializeRuntime
  BY <1>5, StartType DEF Progress
<1>6. ASSUME NEW t \in Tasks, Click(t) PROVE Progress'
  BY <1>1, <1>2, <1>6, ClickType DEF stateVars
<1>7. CASE loadConfigurations \/ (\E p \in Paths : Input(p)) \/ UNCHANGED vars
  BY <1>1, <1>7, OtherType DEF taskVars
<1> QED  BY <1>3, <1>4, <1>5, <1>6, <1>7 DEF Next, Browser, User

(***************************************************************************)
(* An error costs one span: whichever loads fail and whatever spans cannot *)
(* be used, every other span of the entry file is there in the end.        *)
(***************************************************************************)
THEOREM PageIsComplete == Spec => []PageComplete
<1>1. Init => Inv /\ Progress
  BY InitType DEF Init, Progress, Tasks
<1>2. Inv /\ Progress /\ [Next]_vars => Inv' /\ Progress'
  BY NextType, NextProgress
<1>3. Inv /\ Progress => PageComplete
  <2> SUFFICES ASSUME Inv, Progress, Ended(Boot), Layouts(Disk[entry]) = {},
                      NEW i \in DOMAIN Disk[entry], Due(i)
               PROVE  There(i)
    BY DEF PageComplete, Due, There
  <2>1. Disk[entry] \in Seq(Spans)
    BY UiDispatchAssumption, SpansAssumption DEF Inv, Data
  <2>2. Upto(Len(Disk[entry])) /\ i =< Len(Disk[entry])
    BY <2>1, LenProperties DEF Progress, AtEntry, Ended
  <2> QED  BY <2>2 DEF Upto
<1> QED  BY <1>1, <1>2, <1>3, PTL DEF Spec
=============================================================================
