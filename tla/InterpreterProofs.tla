------------------------- MODULE InterpreterProofs -------------------------
(***************************************************************************)
(* What holds of the interpreter for any files, plugins and runs: the      *)
(* trace says what was printed, and what is printed is what a file means.  *)
(***************************************************************************)
EXTENDS Meaning, SequenceTheorems, NaturalsInduction, WellFoundedInduction, TLAPS

(* A run has printed nothing before its chronicler is opened.              *)
Fresh == \A r \in Runs : phase[r] = "starting" => said[r] = <<>>

(* Record stands right after the line it records, which has no span yet.   *)
Printed ==
  \A r \in Runs : phase[r] = "recording" =>
    /\ tracing[r] /\ said[r] # <<>> /\ said[r][Len(said[r])].recorded
    /\ \A i \in DOMAIN spans : spans[i].run = r => spans[i].n < Len(said[r])

IInv == TypeOK /\ Fresh /\ Printed /\ TraceFollowsOutput

-----------------------------------------------------------------------------
(* Types of the parts of a run.                                            *)

(* The last element of a sequence and what is before it. *)
LEMMA LastAndFront ==
  ASSUME NEW S, NEW s \in Seq(S), s # <<>>
  PROVE s[Len(s)] \in S /\ SubSeq(s, 1, Len(s) - 1) \in Seq(S)
<1>1. Len(s) \in Nat \ {0}
  BY EmptySeq, LenProperties
<1>2. \A i \in 1..Len(s) : s[i] \in S
  BY ElementOfSeq
<1>3. \A i \in 1..(Len(s) - 1) : s[i] \in S
  BY <1>1, <1>2
<1> QED
  BY <1>1, <1>2, <1>3, SubSeqProperties

(* A frame on top of a stack. *)
LEMMA Pushed ==
  ASSUME NEW s \in Seq(Frames), NEW f \in Frames
  PROVE s \o <<f>> \in Seq(Frames) /\ s \o <<f>> # <<>>
<1>1. <<f>> \in Seq(Frames) /\ Len(<<f>>) = 1
  OBVIOUS
<1>2. s \o <<f>> \in Seq(Frames) /\ Len(s \o <<f>>) = Len(s) + 1
  BY <1>1, ConcatProperties
<1>3. Len(s) \in Nat
  BY LenProperties
<1> QED
  BY <1>2, <1>3, EmptySeq

(* The stack of a run that is walking. *)
LEMMA StackParts ==
  ASSUME TypeOK, NEW r \in Runs, phase[r] = "running"
  PROVE Top(r) \in Frames /\ Below(r) \in Seq(Frames)
<1>1. stack[r] \in Seq(Frames) /\ stack[r] # <<>>
  BY DEF TypeOK
<1> QED
  BY <1>1, LastAndFront DEF Top, Below

(* The block a run stands at, and the rest of its walk. *)
LEMMA BlockParts ==
  ASSUME TypeOK, NEW r \in Runs, Executing(r)
  PROVE /\ Block(r) \in Blocks
        /\ Rest(r) \in Seq(Frames) /\ Rest(r) # <<>>
        /\ Frame(Block(r).body, <<>>, <<>>) \in Frames
        /\ Frame(<<>>, Block(r).body, <<>>) \in Frames
<1>1. Top(r) \in Frames /\ Below(r) \in Seq(Frames) /\ Top(r).todo # <<>>
  BY StackParts DEF Executing
<1>2. Head(Top(r).todo) \in Blocks /\ Tail(Top(r).todo) \in Seq(Blocks)
  BY <1>1, HeadTailProperties DEF Frames
<1>3. [Top(r) EXCEPT !.todo = Tail(@)] \in Frames
  BY <1>1, <1>2 DEF Frames
<1>4. Block(r) \in Blocks /\ Block(r).body \in Seq(Blocks)
  BY <1>2, InterpreterAssumption DEF Block
<1>5. Frame(Block(r).body, <<>>, <<>>) \in Frames /\ Frame(<<>>, Block(r).body, <<>>) \in Frames
  BY <1>4 DEF Frame, Frames
<1> QED
  BY <1>1, <1>3, <1>4, <1>5, Pushed DEF Rest

(* A sequence of one element. *)
LEMMA OneElement ==
  ASSUME NEW S, NEW x \in S
  PROVE <<x>> \in Seq(S) /\ Len(<<x>>) = 1 /\ <<x>>[1] = x
OBVIOUS

(* Every value is printed as a text. *)
LEMMA Printouts == \A v \in Values : Sprint[v] \in Texts
BY InterpreterAssumption

(* What the chosen block evaluates to. *)
LEMMA EvalType ==
  ASSUME TypeOK, NEW r \in Runs, NEW e
  PROVE evalExpr(r, e) \subseteq Values /\ eval(r, e) \subseteq Texts
<1>1. item[r] \in Values \cup {Unset}
  BY DEF TypeOK
<1>2. evalExpr(r, e) \subseteq Values
  <2>1. CASE e \in Calls
    BY <2>1, InterpreterAssumption DEF evalExpr
  <2>2. CASE e = Item /\ item[r] # Unset
    BY <2>2, <1>1, InterpreterAssumption DEF evalExpr
  <2>3. CASE e \in Vars
    BY <2>3, InterpreterAssumption DEF evalExpr
  <2>4. CASE e \notin Calls /\ e \notin Vars /\ ~(e = Item /\ item[r] # Unset)
    BY <2>4, InterpreterAssumption DEF evalExpr
  <2> QED
    BY <2>1, <2>2, <2>3, <2>4
<1>3. eval(r, e) \subseteq Texts
  <2>1. CASE e \in Texts
    BY <2>1 DEF eval
  <2>2. CASE e \notin Texts
    BY <1>2, <2>2, Printouts DEF eval
  <2> QED
    BY <2>1, <2>2
<1> QED
  BY <1>2, <1>3

(* Prompts are lines that nobody records. *)
LEMMA AskingType ==
  ASSUME NEW e
  PROVE Asking(e) \in Seq(Lines) /\ \A n \in 1..Len(Asking(e)) : ~Asking(e)[n].recorded
<1> DEFINE l == Line(Prompt, FALSE)
<1>1. l \in Lines /\ ~l.recorded
  BY InterpreterAssumption DEF Line, Lines
<1>2. CASE e = InputCall
  <2>1. Asking(e) = <<l>>
    BY <1>2 DEF Asking
  <2> HIDE DEF l
  <2> QED
    BY <1>1, <2>1, OneElement
<1>3. CASE e # InputCall
  <2>1. Asking(e) = <<>>
    BY <1>3 DEF Asking
  <2> QED
    BY <2>1
<1> QED
  BY <1>2, <1>3

-----------------------------------------------------------------------------
(* What a step may print without owing a span.                             *)

(* w goes on where s ends, with lines that are not to be recorded.         *)
Extends(s, w) ==
  /\ w \in Seq(Lines) /\ Len(s) =< Len(w)
  /\ \A n \in 1..Len(s) : w[n] = s[n]
  /\ \A n \in (Len(s) + 1)..Len(w) : ~w[n].recorded

(* Going on further. *)
LEMMA ExtendsConcat ==
  ASSUME NEW s \in Seq(Lines), NEW w, Extends(s, w), NEW t \in Seq(Lines),
         \A n \in 1..Len(t) : ~t[n].recorded
  PROVE Extends(s, w \o t)
<1>1. w \in Seq(Lines) /\ Len(s) \in Nat /\ Len(w) \in Nat /\ Len(t) \in Nat
  BY LenProperties DEF Extends
<1>2. /\ w \o t \in Seq(Lines)
      /\ Len(w \o t) = Len(w) + Len(t)
      /\ \A i \in 1..(Len(w) + Len(t)) : (w \o t)[i] = IF i <= Len(w) THEN w[i] ELSE t[i - Len(w)]
  BY <1>1, ConcatProperties
<1>3. ASSUME NEW n \in (Len(s) + 1)..Len(w \o t) PROVE ~(w \o t)[n].recorded
  <2>1. CASE n =< Len(w)
    BY <1>1, <1>2, <1>3, <2>1 DEF Extends
  <2>2. CASE n > Len(w)
    <3>1. n - Len(w) \in 1..Len(t) /\ n \in 1..(Len(w) + Len(t)) /\ ~(n <= Len(w))
      BY <1>1, <1>2, <2>2
    <3>2. (w \o t)[n] = t[n - Len(w)]
      BY <1>2, <3>1
    <3> QED
      BY <3>1, <3>2
  <2> QED
    BY <1>1, <1>2, <2>1, <2>2
<1>4. ASSUME NEW n \in 1..Len(s) PROVE (w \o t)[n] = s[n]
  BY <1>1, <1>2 DEF Extends
<1> QED
  BY <1>1, <1>2, <1>3, <1>4 DEF Extends

(* Prompts alone. *)
LEMMA AskedExtends ==
  ASSUME TypeOK, NEW r \in Runs, NEW e
  PROVE Extends(said[r], Asked(r)) /\ Extends(said[r], Asked(r) \o Asking(e))
<1>1. said[r] \in Seq(Lines)
  BY DEF TypeOK
<1>2. Extends(said[r], said[r])
  BY <1>1, LenProperties DEF Extends
<1>3. Extends(said[r], Asked(r))
  BY <1>1, <1>2, AskingType, ExtendsConcat DEF Asked
<1> QED
  BY <1>1, <1>3, AskingType, ExtendsConcat

(* The parts of a span. *)
LEMMA SpanType ==
  ASSUME TypeOK, NEW i \in DOMAIN spans
  PROVE spans[i].run \in Runs /\ spans[i].n \in Nat /\ spans[i].text \in Texts
<1>1. spans \in Seq(Spans)
  BY DEF TypeOK
<1>2. i \in 1..Len(spans)
  BY <1>1, LenProperties
<1>3. spans[i] \in Spans
  BY <1>1, <1>2, ElementOfSeq
<1> QED
  BY <1>3 DEF Spans

(* Lines that are not to be recorded, a run that stops walking or goes on: *)
(* the trace still follows the output.                                     *)
LEMMA Quiet ==
  ASSUME IInv, NEW r \in Runs, NEW w, NEW p,
         phase[r] = "running", p \notin {"starting", "recording"},
         Extends(said[r], w),
         said' = [said EXCEPT ![r] = w], phase' = [phase EXCEPT ![r] = p],
         UNCHANGED <<tracing, encErr, spans>>
  PROVE Fresh' /\ Printed' /\ TraceFollowsOutput'
<1>1. /\ said \in [Runs -> Seq(Lines)] /\ spans \in Seq(Spans) /\ DOMAIN phase = Runs
      /\ \A q \in Runs : q # r => said'[q] = said[q] /\ phase'[q] = phase[q]
      /\ said'[r] = w /\ phase'[r] = p
  BY DEF IInv, TypeOK
<1>2. \A q \in Runs : Len(said[q]) \in Nat /\ DOMAIN said[q] = 1..Len(said[q])
  BY <1>1, LenProperties
<1>3. Len(w) \in Nat /\ DOMAIN w = 1..Len(w)
  BY LenProperties DEF Extends
<1>4. Fresh'
  BY <1>1 DEF IInv, Fresh
<1>5. Printed'
  BY <1>1 DEF IInv, Printed
<1>6. SpansTrue'
  <2> SUFFICES ASSUME NEW i \in DOMAIN spans
               PROVE /\ spans[i].n \in DOMAIN said'[spans[i].run]
                     /\ said'[spans[i].run][spans[i].n] = Line(spans[i].text, TRUE)
    BY DEF SpansTrue, Line
  <2>1. spans[i].run \in Runs /\ spans[i].n \in Nat
    BY SpanType DEF IInv
  <2>2. /\ spans[i].n \in DOMAIN said[spans[i].run]
        /\ said[spans[i].run][spans[i].n] = Line(spans[i].text, TRUE)
    BY DEF IInv, TraceFollowsOutput, SpansTrue
  <2>3. CASE spans[i].run = r
    <3>1. spans[i].n \in 1..Len(said[r]) /\ spans[i].n \in 1..Len(w)
      BY <1>2, <1>3, <2>1, <2>2, <2>3 DEF Extends
    <3>2. w[spans[i].n] = said[r][spans[i].n]
      BY <3>1 DEF Extends
    <3> QED
      BY <1>1, <1>3, <2>2, <2>3, <3>1, <3>2
  <2>4. CASE spans[i].run # r
    BY <1>1, <2>1, <2>2, <2>4
  <2> QED
    BY <2>3, <2>4
<1>7. SpansOrdered'
  BY DEF IInv, TraceFollowsOutput, SpansOrdered
<1>8. SpansComplete'
  <2> SUFFICES ASSUME NEW q \in Runs, tracing[q], NEW n \in DOMAIN said'[q], said'[q][n].recorded
               PROVE Recorded(q, n) \/ Lost(q, n) \/ Pending(q, n)'
    BY DEF SpansComplete, Recorded, Lost
  <2>1. CASE q = r
    <3>1. n \in DOMAIN said[q] /\ said[q][n].recorded
      BY <1>1, <1>2, <1>3, <2>1 DEF Extends
    <3> QED
      BY <2>1, <3>1 DEF IInv, TraceFollowsOutput, SpansComplete, Pending
  <2>2. CASE q # r
    BY <1>1, <2>2 DEF IInv, TraceFollowsOutput, SpansComplete, Pending
  <2> QED
    BY <2>1, <2>2
<1> QED
  BY <1>4, <1>5, <1>6, <1>7, <1>8 DEF TraceFollowsOutput

-----------------------------------------------------------------------------
(* Types.                                                                  *)

(* A line that shows what an expression yields, after the prompts. *)
LEMMA LineType ==
  ASSUME TypeOK, NEW r \in Runs, NEW e, NEW v \in eval(r, e), NEW b \in BOOLEAN
  PROVE /\ Line(v, b) \in Lines /\ Line(v, b).recorded = b /\ Line(v, b).text = v
        /\ Asked(r) \o Asking(e) \o <<Line(v, b)>> \in Seq(Lines)
<1>1. v \in Texts
  BY EvalType
<1>2. Line(v, b) \in Lines /\ Line(v, b).recorded = b /\ Line(v, b).text = v
  BY <1>1 DEF Line, Lines
<1>3. <<Line(v, b)>> \in Seq(Lines) /\ Asked(r) \o Asking(e) \in Seq(Lines)
  BY <1>2, OneElement, AskedExtends DEF Extends
<1> QED
  BY <1>2, <1>3, ConcatProperties

(* Every step keeps every type. *)
LEMMA TypeStep == TypeOK /\ Printed /\ [Next]_vars => TypeOK'
<1> SUFFICES ASSUME TypeOK, Printed, [Next]_vars PROVE TypeOK'
  OBVIOUS
<1> USE DEF TypeOK
<1>1. ASSUME NEW r \in Runs, main(r) PROVE TypeOK'
  <2> DEFINE whole == <<Frame(program[r], <<>>, <<>>)>>
  <2>1. Frame(program[r], <<>>, <<>>) \in Frames
    BY InterpreterAssumption DEF Frame, Frames
  <2>2. whole \in Seq(Frames) /\ whole # <<>>
    BY <2>1, OneElement, EmptySeq
  <2> HIDE DEF whole
  <2>3. CASE /\ phase' = [phase EXCEPT ![r] = "running"]
             /\ stack' = [stack EXCEPT ![r] = whole]
             /\ NewChronicler(r)
    BY <1>1, <2>2, <2>3 DEF main, NewChronicler
  <2>4. CASE phase' = [phase EXCEPT ![r] = "rejected"] /\ UNCHANGED <<stack, tracing, spans>>
    BY <1>1, <2>4 DEF main
  <2> QED
    BY <1>1, <2>3, <2>4 DEF main, whole
<1>2. ASSUME NEW r \in Runs, Skip(r) PROVE TypeOK'
  <2>1. Rest(r) \in Seq(Frames) /\ Rest(r) # <<>> /\ Asked(r) \in Seq(Lines)
    BY <1>2, BlockParts, AskedExtends DEF Skip, Extends
  <2> QED
    BY <1>2, <2>1 DEF Skip, Advance
<1>3. ASSUME NEW r \in Runs, RenderText(r) PROVE TypeOK'
  <2>1. Rest(r) \in Seq(Frames) /\ Rest(r) # <<>>
    BY <1>3, BlockParts DEF RenderText, Passes
  <2>2. PICK v \in eval(r, Block(r).expr) :
          said' = [said EXCEPT ![r] = Asked(r) \o Asking(Block(r).expr) \o <<Line(v, TRUE)>>]
    BY <1>3 DEF RenderText
  <2>3. said' \in [Runs -> Seq(Lines)]
    BY <2>2, LineType
  <2> QED
    BY <1>3, <2>1, <2>3 DEF RenderText, Advance
<1>4. ASSUME NEW r \in Runs, Record(r) PROVE TypeOK'
  <2>1. said[r] \in Seq(Lines) /\ Len(said[r]) \in Nat
    BY LenProperties
  <2>2. CASE UNCHANGED spans /\ encErr' = [encErr EXCEPT ![r] = TRUE]
    BY <1>4, <2>1, <2>2 DEF Record, walkVars
  <2>3. CASE /\ UNCHANGED encErr
             /\ spans' = Append(spans, [run |-> r, n |-> Len(said[r]),
                                        text |-> said[r][Len(said[r])].text])
    <3>1. said[r] # <<>>
      BY <1>4 DEF Record, Printed
    <3>2. said[r][Len(said[r])].text \in Texts
      <4>1. said[r][Len(said[r])] \in Lines
        BY <2>1, <3>1, LastAndFront
      <4> QED
        BY <4>1 DEF Lines
    <3>3. [run |-> r, n |-> Len(said[r]), text |-> said[r][Len(said[r])].text] \in Spans
      BY <2>1, <3>2 DEF Spans
    <3>4. spans' \in Seq(Spans)
      BY <2>3, <3>3, AppendProperties
    <3> QED
      BY <1>4, <2>3, <3>4 DEF Record, walkVars
  <2> QED
    BY <1>4, <2>2, <2>3 DEF Record
<1>5. ASSUME NEW r \in Runs, Show(r) PROVE TypeOK'
  <2>1. Rest(r) \in Seq(Frames) /\ Rest(r) # <<>>
    BY <1>5, BlockParts DEF Show, Passes
  <2>2. PICK v \in eval(r, Block(r).expr) :
          said' = [said EXCEPT ![r] = Asked(r) \o Asking(Block(r).expr) \o <<Line(v, FALSE)>>]
    BY <1>5 DEF Show
  <2>3. said' \in [Runs -> Seq(Lines)]
    BY <2>2, LineType
  <2> QED
    BY <1>5, <2>1, <2>3 DEF Show, Advance
<1>6. ASSUME NEW r \in Runs, Contain(r) PROVE TypeOK'
  <2>1. /\ Rest(r) \in Seq(Frames) /\ Asked(r) \in Seq(Lines)
        /\ Frame(Block(r).body, <<>>, <<>>) \in Frames
    BY <1>6, BlockParts, AskedExtends DEF Contain, Passes, Extends
  <2>2. /\ Rest(r) \o <<Frame(Block(r).body, <<>>, <<>>)>> \in Seq(Frames)
        /\ Rest(r) \o <<Frame(Block(r).body, <<>>, <<>>)>> # <<>>
    BY <2>1, Pushed
  <2> QED
    BY <1>6, <2>1, <2>2 DEF Contain, Push
<1>7. ASSUME NEW r \in Runs, When(r) PROVE TypeOK'
  <2>1. /\ Rest(r) \in Seq(Frames) /\ Rest(r) # <<>>
        /\ Asked(r) \o Asking(Block(r).expr) \in Seq(Lines)
        /\ Frame(Block(r).body, <<>>, <<>>) \in Frames
    BY <1>7, BlockParts, AskedExtends DEF When, Passes, Extends
  <2>2. /\ Rest(r) \o <<Frame(Block(r).body, <<>>, <<>>)>> \in Seq(Frames)
        /\ Rest(r) \o <<Frame(Block(r).body, <<>>, <<>>)>> # <<>>
    BY <2>1, Pushed
  <2> QED
    BY <1>7, <2>1, <2>2 DEF When, Push, Advance
<1>8. ASSUME NEW r \in Runs, Loop(r) PROVE TypeOK'
  <2> DEFINE f == Frame(<<>>, Block(r).body, Elements[Block(r).expr])
  <2>1. /\ Rest(r) \in Seq(Frames) /\ Rest(r) # <<>> /\ Asked(r) \in Seq(Lines)
        /\ Frame(<<>>, Block(r).body, <<>>) \in Frames
    BY <1>8, BlockParts, AskedExtends DEF Loop, Passes, Extends
  <2>2. ASSUME Block(r).expr \in Lists PROVE Rest(r) \o <<f>> \in Seq(Frames) /\ Rest(r) \o <<f>> # <<>>
    <3>1. f \in Frames
      BY <2>1, <2>2, InterpreterAssumption DEF Frame, Frames
    <3> QED
      BY <2>1, <3>1, Pushed
  <2> QED
    BY <1>8, <2>1, <2>2 DEF Loop, Push, Advance
<1>9. ASSUME NEW r \in Runs, NextItem(r) PROVE TypeOK'
  <2>1. Top(r) \in Frames /\ Below(r) \in Seq(Frames)
    BY <1>9, StackParts DEF NextItem
  <2>2. Head(Top(r).items) \in Values /\ Tail(Top(r).items) \in Seq(Values)
    BY <1>9, <2>1, HeadTailProperties DEF NextItem, Frames
  <2>3. Frame(Top(r).body, Top(r).body, Tail(Top(r).items)) \in Frames
    BY <2>1, <2>2 DEF Frame, Frames
  <2> QED
    BY <1>9, <2>1, <2>2, <2>3, Pushed DEF NextItem
<1>10. ASSUME NEW r \in Runs, Return(r) PROVE TypeOK'
  <2>1. Below(r) \in Seq(Frames)
    BY <1>10, StackParts DEF Return
  <2> QED
    BY <1>10, <2>1 DEF Return
<1>11. ASSUME NEW r \in Runs, Exit(r) PROVE TypeOK'
  <2>1. Asked(r) \in Seq(Lines)
    BY AskedExtends DEF Extends
  <2> QED
    BY <1>11, <2>1 DEF Exit, walkVars
<1>12. ASSUME NEW r \in Runs, Kill(r) PROVE TypeOK'
  BY <1>12 DEF Kill, walkVars
<1>13. CASE UNCHANGED vars
  BY <1>13 DEF vars, walkVars
<1> QED
  BY <1>1, <1>2, <1>3, <1>4, <1>5, <1>6, <1>7, <1>8, <1>9, <1>10, <1>11, <1>12, <1>13
     DEF Next, execute

-----------------------------------------------------------------------------
(* Steps that owe a span, or pay it.                                       *)

(* A text is printed: with a chronicler its span is pending, without one   *)
(* nobody asks for it.                                                     *)
LEMMA RenderTextStep ==
  ASSUME IInv, NEW r \in Runs, RenderText(r)
  PROVE Fresh' /\ Printed' /\ TraceFollowsOutput'
<1> DEFINE e == Block(r).expr
<1> DEFINE q == Asked(r) \o Asking(e)
<1> DEFINE p == IF tracing[r] THEN "recording" ELSE "running"
<1>1. PICK v \in eval(r, e) : said' = [said EXCEPT ![r] = q \o <<Line(v, TRUE)>>]
  BY DEF RenderText
<1> DEFINE w == q \o <<Line(v, TRUE)>>
<1>2. TypeOK /\ phase[r] = "running" /\ phase' = [phase EXCEPT ![r] = p]
      /\ UNCHANGED <<tracing, encErr, spans>>
  BY DEF IInv, RenderText, Passes, Executing
<1>3. Line(v, TRUE) \in Lines /\ Line(v, TRUE).recorded = TRUE /\ w \in Seq(Lines)
  BY <1>2, LineType
<1>4. Extends(said[r], q) /\ said[r] \in Seq(Lines)
  BY <1>2, AskedExtends DEF TypeOK
<1> HIDE DEF e, q, p
<1>5. q \in Seq(Lines) /\ Len(q) \in Nat /\ Len(said[r]) \in Nat /\ Len(said[r]) =< Len(q)
  BY <1>4, LenProperties DEF Extends
<1>6. /\ Len(w) = Len(q) + 1
      /\ \A n \in 1..(Len(q) + 1) : w[n] = IF n <= Len(q) THEN q[n] ELSE <<Line(v, TRUE)>>[n - Len(q)]
  BY <1>3, <1>5, OneElement, ConcatProperties
<1>7. w[Len(w)] = Line(v, TRUE)
  <2>1. Len(w) \in 1..(Len(q) + 1) /\ ~(Len(w) <= Len(q)) /\ Len(w) - Len(q) = 1
    BY <1>5, <1>6
  <2>2. <<Line(v, TRUE)>>[1] = Line(v, TRUE)
    BY <1>3, OneElement
  <2> HIDE DEF w
  <2>3. w[Len(w)] = <<Line(v, TRUE)>>[Len(w) - Len(q)]
    BY <1>6, <2>1
  <2> QED
    BY <2>1, <2>2, <2>3
<1>8. /\ \A n \in 1..Len(said[r]) : w[n] = said[r][n]
      /\ \A n \in (Len(said[r]) + 1)..Len(q) : ~w[n].recorded
  BY <1>4, <1>5, <1>6 DEF Extends
<1> HIDE DEF w
<1>9. /\ DOMAIN phase = Runs /\ DOMAIN said = Runs
      /\ \A x \in Runs : x # r => said'[x] = said[x] /\ phase'[x] = phase[x]
      /\ said'[r] = w /\ phase'[r] = p
  BY <1>1, <1>2 DEF TypeOK, w
<1>10. DOMAIN said[r] = 1..Len(said[r]) /\ DOMAIN w = 1..Len(w) /\ w # <<>>
  BY <1>3, <1>4, <1>5, <1>6, LenProperties, EmptySeq DEF w
<1>11. \A i \in DOMAIN spans : spans[i].run = r => spans[i].n \in 1..Len(said[r])
  BY <1>10 DEF IInv, TraceFollowsOutput, SpansTrue
<1>12. Fresh'
  BY <1>9 DEF IInv, Fresh, p
<1>13. Printed'
  <2>1. ASSUME phase'[r] = "recording" PROVE tracing[r]
    BY <1>9, <2>1 DEF p
  <2>2. \A i \in DOMAIN spans : spans[i].run = r => spans[i].n < Len(w)
    BY <1>5, <1>6, <1>11
  <2> QED
    BY ZenonT(40), <1>2, <1>3, <1>7, <1>9, <1>10, <2>1, <2>2 DEF IInv, Printed
<1>14. SpansTrue'
  <2> SUFFICES ASSUME NEW i \in DOMAIN spans
               PROVE /\ spans[i].n \in DOMAIN said'[spans[i].run]
                     /\ said'[spans[i].run][spans[i].n] = Line(spans[i].text, TRUE)
    BY <1>2 DEF SpansTrue, Line
  <2>1. /\ spans[i].run \in Runs /\ spans[i].n \in DOMAIN said[spans[i].run]
        /\ said[spans[i].run][spans[i].n] = Line(spans[i].text, TRUE)
    BY SpanType DEF IInv, TraceFollowsOutput, SpansTrue
  <2>2. CASE spans[i].run = r
    <3>1. spans[i].n \in 1..Len(said[r]) /\ spans[i].n \in 1..Len(w)
      BY <1>5, <1>6, <1>11, <2>2
    <3> QED
      BY <1>8, <1>9, <1>10, <2>1, <2>2, <3>1
  <2>3. CASE spans[i].run # r
    BY <1>9, <2>1, <2>3
  <2> QED
    BY <2>2, <2>3
<1>15. SpansOrdered'
  BY <1>2 DEF IInv, TraceFollowsOutput, SpansOrdered
<1>16. SpansComplete'
  <2> SUFFICES ASSUME NEW x \in Runs, tracing[x], NEW n \in DOMAIN said'[x], said'[x][n].recorded
               PROVE Recorded(x, n) \/ Lost(x, n) \/ Pending(x, n)'
    BY <1>2 DEF SpansComplete, Recorded, Lost
  <2>1. CASE x = r /\ n = Len(w)
    BY <1>9, <2>1 DEF Pending, p
  <2>2. CASE x = r /\ n # Len(w)
    <3>1. n \in 1..Len(q)
      BY <1>5, <1>6, <1>9, <1>10, <2>2
    <3>2. n \in DOMAIN said[r] /\ said[r][n].recorded
      BY <1>5, <1>8, <1>9, <1>10, <2>2, <3>1
    <3> QED
      BY <1>2, <2>2, <3>2 DEF IInv, TraceFollowsOutput, SpansComplete, Pending
  <2>3. CASE x # r
    BY <1>9, <2>3 DEF IInv, TraceFollowsOutput, SpansComplete, Pending
  <2> QED
    BY <2>1, <2>2, <2>3
<1> QED
  BY <1>12, <1>13, <1>14, <1>15, <1>16 DEF TraceFollowsOutput

(* The span of the last line is appended, or its write fails.              *)
LEMMA RecordStep ==
  ASSUME IInv, NEW r \in Runs, Record(r)
  PROVE Fresh' /\ Printed' /\ TraceFollowsOutput'
<1> DEFINE last == Len(said[r])
<1>1. /\ TypeOK /\ phase[r] = "recording" /\ phase' = [phase EXCEPT ![r] = "running"]
      /\ UNCHANGED <<tracing, said>>
  BY DEF IInv, Record
<1>2. /\ DOMAIN phase = Runs /\ phase'[r] = "running"
      /\ \A x \in Runs : x # r => phase'[x] = phase[x]
  BY <1>1 DEF TypeOK
<1>3. /\ tracing[r] /\ said[r] # <<>> /\ said[r][last].recorded
      /\ \A i \in DOMAIN spans : spans[i].run = r => spans[i].n < last
  BY <1>1 DEF IInv, Printed
<1>4. said[r] \in Seq(Lines) /\ last \in Nat \ {0} /\ DOMAIN said[r] = 1..last
  BY <1>1, <1>3, LenProperties, EmptySeq DEF TypeOK
<1>5. Fresh'
  BY <1>1, <1>2 DEF IInv, Fresh
<1>6. CASE UNCHANGED spans /\ encErr' = [encErr EXCEPT ![r] = TRUE]
  <2>1. encErr'[r] /\ \A x \in Runs : x # r => encErr'[x] = encErr[x]
    BY <1>1, <1>6 DEF TypeOK
  <2>2. Printed'
    BY <1>1, <1>2, <1>6 DEF IInv, Printed
  <2>3. SpansTrue' /\ SpansOrdered'
    BY <1>1, <1>6 DEF IInv, TraceFollowsOutput, SpansTrue, SpansOrdered
  <2>4. SpansComplete'
    <3> SUFFICES ASSUME NEW x \in Runs, tracing[x], NEW n \in DOMAIN said[x], said[x][n].recorded
                 PROVE Recorded(x, n) \/ Lost(x, n)' \/ Pending(x, n)'
      BY <1>1, <1>6 DEF SpansComplete, Recorded
    <3>1. Recorded(x, n) \/ Lost(x, n) \/ Pending(x, n)
      BY DEF IInv, TraceFollowsOutput, SpansComplete
    <3>2. CASE x = r /\ n = last
      BY <1>3, <1>6, <2>1, <3>2 DEF Lost
    <3>3. CASE x = r /\ n # last
      BY <1>6, <2>1, <3>1, <3>3 DEF Lost, Pending
    <3>4. CASE x # r
      BY <1>1, <1>2, <1>6, <2>1, <3>1, <3>4 DEF Lost, Pending
    <3> QED
      BY <3>2, <3>3, <3>4
  <2> QED
    BY <1>5, <2>2, <2>3, <2>4 DEF TraceFollowsOutput
<1>7. CASE ~encErr[r] /\ UNCHANGED encErr
           /\ spans' = Append(spans, [run |-> r, n |-> last, text |-> said[r][last].text])
  <2> DEFINE c == [run |-> r, n |-> last, text |-> said[r][last].text]
  <2>1. said[r][last] \in Lines
    BY <1>3, <1>4, LastAndFront
  <2>2. said[r][last] = Line(c.text, TRUE)
    BY <1>3, <2>1 DEF Line, Lines
  <2>3. c \in Spans /\ spans \in Seq(Spans)
    BY <1>1, <1>4, <2>1 DEF Spans, Lines, TypeOK
  <2>4. /\ DOMAIN spans = 1..Len(spans) /\ Len(spans) \in Nat
        /\ DOMAIN spans' = 1..(Len(spans) + 1)
        /\ \A i \in 1..Len(spans) : spans'[i] = spans[i]
        /\ spans'[Len(spans) + 1] = c
    BY <1>7, <2>3, AppendProperties, LenProperties
  <2>5. c.run = r /\ c.n = last
    OBVIOUS
  <2> HIDE DEF c, last
  <2>6. Printed'
    <3> SUFFICES ASSUME NEW x \in Runs, phase'[x] = "recording"
                 PROVE /\ tracing[x] /\ said[x] # <<>> /\ said[x][Len(said[x])].recorded
                       /\ \A i \in DOMAIN spans' : spans'[i].run = x => spans'[i].n < Len(said[x])
      BY <1>1 DEF Printed
    <3>1. x # r /\ phase[x] = "recording"
      BY <1>2
    <3> QED
      BY <2>4, <2>5, <3>1 DEF IInv, Printed
  <2>7. SpansTrue'
    <3> SUFFICES ASSUME NEW i \in DOMAIN spans'
                 PROVE /\ spans'[i].n \in DOMAIN said[spans'[i].run]
                       /\ said[spans'[i].run][spans'[i].n] = Line(spans'[i].text, TRUE)
      BY <1>1 DEF SpansTrue, Line
    <3>1. CASE i \in DOMAIN spans
      BY <2>4, <3>1 DEF IInv, TraceFollowsOutput, SpansTrue
    <3>2. CASE i = Len(spans) + 1
      <4>1. spans'[i] = c
        BY <2>4, <3>2
      <4>2. last \in DOMAIN said[r]
        BY <1>4
      <4> QED
        BY <2>2, <2>5, <4>1, <4>2, Zenon
    <3>3. i \in DOMAIN spans \/ i = Len(spans) + 1
      BY <2>4
    <3> QED
      BY <3>1, <3>2, <3>3, Zenon
  <2>8. SpansOrdered'
    <3> SUFFICES ASSUME NEW i \in DOMAIN spans', NEW j \in DOMAIN spans',
                        i < j, spans'[i].run = spans'[j].run
                 PROVE spans'[i].n < spans'[j].n
      BY DEF SpansOrdered
    <3>1. i \in DOMAIN spans
      BY <2>4
    <3>2. CASE j \in DOMAIN spans
      BY <2>4, <3>1, <3>2 DEF IInv, TraceFollowsOutput, SpansOrdered
    <3>3. CASE j = Len(spans) + 1
      BY <1>3, <2>4, <2>5, <3>1, <3>3
    <3> QED
      BY <2>4, <3>2, <3>3
  <2>9. SpansComplete'
    <3>1. \A x \in Runs : \A n : Recorded(x, n) => Recorded(x, n)'
      BY <2>4 DEF Recorded
    <3>2. \E i \in DOMAIN spans' : spans'[i].run = r /\ spans'[i].n = last
      <4>1. Len(spans) + 1 \in DOMAIN spans'
        BY <2>4
      <4> QED
        BY <2>4, <2>5, <4>1, Zenon
    <3> SUFFICES ASSUME NEW x \in Runs, tracing[x], NEW n \in DOMAIN said[x], said[x][n].recorded
                 PROVE Recorded(x, n)' \/ Lost(x, n)' \/ Pending(x, n)'
      BY <1>1 DEF SpansComplete
    <3>3. Recorded(x, n) \/ Lost(x, n) \/ Pending(x, n)
      BY DEF IInv, TraceFollowsOutput, SpansComplete
    <3>4. CASE x = r
      <4>1. ~Lost(x, n)
        BY <1>7, <3>4 DEF Lost
      <4> QED
        BY <3>1, <3>2, <3>3, <3>4, <4>1 DEF Pending, Recorded, last
    <3>5. CASE x # r
      <4>1. ASSUME Lost(x, n) PROVE Lost(x, n)'
        <5>1. encErr'[x] /\ \A i \in DOMAIN spans : spans[i].run = x => spans[i].n < n
          BY <1>7, <4>1 DEF Lost
        <5>2. \A i \in DOMAIN spans' : i \in DOMAIN spans \/ i = Len(spans) + 1
          BY <2>4
        <5>3. \A i \in DOMAIN spans' : spans'[i].run = x => spans'[i].n < n
          BY <2>4, <2>5, <3>5, <5>1, <5>2
        <5> QED
          BY <5>1, <5>3 DEF Lost
      <4> QED
        BY <1>1, <1>2, <3>1, <3>3, <3>5, <4>1 DEF Pending
    <3> QED
      BY <3>4, <3>5
  <2> QED
    BY <1>5, <2>6, <2>7, <2>8, <2>9 DEF TraceFollowsOutput
<1> QED
  BY <1>6, <1>7 DEF Record

(* A line that is shown and not recorded, after the prompts.               *)
LEMMA ShowStep ==
  ASSUME IInv, NEW r \in Runs, Show(r)
  PROVE Fresh' /\ Printed' /\ TraceFollowsOutput'
<1> DEFINE q == Asked(r) \o Asking(Block(r).expr)
<1>1. PICK v \in eval(r, Block(r).expr) : said' = [said EXCEPT ![r] = q \o <<Line(v, FALSE)>>]
  BY DEF Show
<1>2. /\ TypeOK /\ phase[r] = "running" /\ phase' = [phase EXCEPT ![r] = "running"]
      /\ UNCHANGED <<tracing, encErr, spans>>
  BY DEF IInv, TypeOK, Show, Passes, Executing
<1>3. <<Line(v, FALSE)>> \in Seq(Lines) /\ \A n \in 1..Len(<<Line(v, FALSE)>>) : ~<<Line(v, FALSE)>>[n].recorded
  <2>1. Line(v, FALSE) \in Lines /\ Line(v, FALSE).recorded = FALSE
    BY <1>2, LineType
  <2> DEFINE l == Line(v, FALSE)
  <2>2. l \in Lines /\ ~l.recorded
    BY <2>1
  <2> HIDE DEF l
  <2>3. <<l>> \in Seq(Lines) /\ \A n \in 1..Len(<<l>>) : ~<<l>>[n].recorded
    BY <2>2, OneElement
  <2> QED
    BY <2>3 DEF l
<1>4. Extends(said[r], q) /\ said[r] \in Seq(Lines)
  BY <1>2, AskedExtends DEF TypeOK
<1>5. Extends(said[r], q \o <<Line(v, FALSE)>>)
  BY <1>3, <1>4, ExtendsConcat
<1> QED
  BY <1>1, <1>2, <1>5, Quiet

(* The chronicler of a run is opened before it prints anything.            *)
LEMMA MainStep ==
  ASSUME IInv, NEW r \in Runs, main(r)
  PROVE Fresh' /\ Printed' /\ TraceFollowsOutput'
<1>1. /\ phase[r] = "starting" /\ UNCHANGED <<said, encErr, spans>>
      /\ phase'[r] \in {"running", "rejected"}
      /\ \A q \in Runs : q # r => phase'[q] = phase[q] /\ tracing'[q] = tracing[q]
  BY DEF IInv, TypeOK, main, NewChronicler
<1>2. said[r] = <<>>
  BY <1>1 DEF IInv, Fresh
<1>3. Fresh' /\ Printed'
  BY <1>1 DEF IInv, Fresh, Printed
<1>4. SpansTrue' /\ SpansOrdered'
  BY <1>1 DEF IInv, TraceFollowsOutput, SpansTrue, SpansOrdered
<1>5. SpansComplete'
  BY <1>1, <1>2 DEF IInv, TraceFollowsOutput, SpansComplete, Recorded, Lost, Pending
<1> QED
  BY <1>3, <1>4, <1>5 DEF TraceFollowsOutput

(* A run is killed: the span it was about to write stays away.             *)
LEMMA KillStep ==
  ASSUME IInv, NEW r \in Runs, Kill(r)
  PROVE Fresh' /\ Printed' /\ TraceFollowsOutput'
<1>1. /\ UNCHANGED <<said, encErr, spans, tracing>> /\ phase'[r] = "killed"
      /\ \A q \in Runs : q # r => phase'[q] = phase[q]
  BY DEF IInv, TypeOK, Kill
<1>2. Fresh' /\ Printed'
  BY <1>1 DEF IInv, Fresh, Printed
<1>3. SpansTrue' /\ SpansOrdered'
  BY <1>1 DEF IInv, TraceFollowsOutput, SpansTrue, SpansOrdered
<1>4. SpansComplete'
  BY <1>1 DEF IInv, TraceFollowsOutput, SpansComplete, Recorded, Lost, Pending
<1> QED
  BY <1>2, <1>3, <1>4 DEF TraceFollowsOutput

(* The inductive invariant is one. *)
LEMMA InvariantStep == IInv /\ [Next]_vars => IInv'
<1> SUFFICES ASSUME IInv, [Next]_vars PROVE Fresh' /\ Printed' /\ TraceFollowsOutput'
  BY TypeStep DEF IInv
<1> DEFINE Goal == Fresh' /\ Printed' /\ TraceFollowsOutput'
<1>1. TypeOK
  BY DEF IInv
<1>2. \A r \in Runs : phase[r] = "running" => phase = [phase EXCEPT ![r] = "running"]
  BY <1>1 DEF TypeOK
<1>3. ASSUME NEW r \in Runs, Skip(r) \/ Contain(r) \/ Loop(r) PROVE Goal
  <2>1. /\ phase[r] = "running" /\ said' = [said EXCEPT ![r] = Asked(r)]
        /\ UNCHANGED <<phase, tracing, encErr, spans>>
    BY <1>3 DEF Skip, Contain, Loop, Passes, Executing
  <2> QED
    BY <1>1, <1>2, <2>1, AskedExtends, Quiet
<1>4. ASSUME NEW r \in Runs, When(r) PROVE Goal
  <2>1. /\ phase[r] = "running"
        /\ said' = [said EXCEPT ![r] = Asked(r) \o Asking(Block(r).expr)]
        /\ UNCHANGED <<phase, tracing, encErr, spans>>
    BY <1>4 DEF When, Passes, Executing
  <2> QED
    BY <1>1, <1>2, <2>1, AskedExtends, Quiet
<1>5. ASSUME NEW r \in Runs, Exit(r) PROVE Goal
  <2>1. /\ phase[r] = "running" /\ said' = [said EXCEPT ![r] = Asked(r)]
        /\ phase' = [phase EXCEPT ![r] = "exited"]
        /\ UNCHANGED <<tracing, encErr, spans>>
    BY <1>5 DEF Exit, Passes, Executing
  <2> QED
    BY <1>1, <2>1, AskedExtends, Quiet
<1>6. ASSUME NEW r \in Runs, NextItem(r) \/ Return(r) PROVE Goal
  <2>1. Extends(said[r], said[r]) /\ said = [said EXCEPT ![r] = said[r]]
    BY <1>1, LenProperties DEF TypeOK, Extends
  <2>2. PICK p \in {"running", "ended", "panicked"} : phase' = [phase EXCEPT ![r] = p]
    BY <1>2, <1>6 DEF NextItem, Return
  <2>3. phase[r] = "running" /\ UNCHANGED <<said, tracing, encErr, spans>>
    BY <1>6 DEF NextItem, Return
  <2> QED
    BY <2>1, <2>2, <2>3, Quiet
<1>7. CASE UNCHANGED vars
  <2>1. UNCHANGED <<phase, tracing, said, encErr, spans>>
    BY <1>7 DEF vars
  <2>2. Fresh' /\ Printed'
    BY <2>1 DEF IInv, Fresh, Printed
  <2>3. SpansTrue' /\ SpansOrdered'
    BY <2>1 DEF IInv, TraceFollowsOutput, SpansTrue, SpansOrdered
  <2>4. SpansComplete'
    BY <2>1 DEF IInv, TraceFollowsOutput, SpansComplete, Recorded, Lost, Pending
  <2> QED
    BY <2>2, <2>3, <2>4 DEF TraceFollowsOutput
<1> QED
  BY <1>3, <1>4, <1>5, <1>6, <1>7, ShowStep, MainStep, KillStep, RenderTextStep, RecordStep
     DEF Next, execute

(* It holds at the start. *)
LEMMA InvariantInit == Init => IInv
<1> SUFFICES ASSUME Init PROVE IInv
  OBVIOUS
<1>1. TypeOK
  BY DEF Init, TypeOK
<1>2. Fresh /\ Printed /\ TraceFollowsOutput
  BY DEF Init, Fresh, Printed, TraceFollowsOutput, SpansTrue, SpansOrdered, SpansComplete
<1> QED
  BY <1>1, <1>2 DEF IInv

(* It always holds. *)
THEOREM Invariance == Spec => []IInv
  BY InvariantInit, InvariantStep, PTL DEF Spec

(* main.go, interpreter.go and chronicler.go keep the types of their state. *)
THEOREM TypeCorrect == Spec => []TypeOK
<1>1. IInv => TypeOK
  BY DEF IInv
<1> QED
  BY <1>1, Invariance, PTL

(* However many runs share spans.jsonl, and wherever they stop, the file   *)
(* says of each what it printed, in order and without gaps: up to the      *)
(* first write of the run that fails, after which it says nothing more of  *)
(* that run, and but for one line that a kill came before.                 *)
THEOREM TraceExact == Spec => []TraceFollowsOutput
<1>1. IInv => TraceFollowsOutput
  BY DEF IInv
<1> QED
  BY <1>1, Invariance, PTL

-----------------------------------------------------------------------------
(* Induction, in the forms that chains of meanings and nested blocks need: *)
(* on the least number, up to a number, and for the values of a loop.      *)
LEMMA LeastNatural ==
  ASSUME NEW T \in SUBSET Nat, T # {}
  PROVE  \E x \in T : \A y \in T : x =< y
<1> DEFINE R == {p \in Nat \X Nat : p[1] < p[2]}
<1>1. OpToRel(<, Nat) = R
  BY DEF OpToRel
<1>2. IsWellFoundedOn(R, Nat)
  BY <1>1, NatLessThanWellFounded
<1>3. \E x \in T : \A y \in T : ~(<<y, x>> \in R)
  <2> HIDE DEF R
  <2> QED  BY <1>2, WFMin
<1>4. PICK x \in T : \A y \in T : ~(<<y, x>> \in R)
  BY <1>3
<1>5. \A y \in T : ~(y < x)
  BY <1>4
<1> QED  BY <1>5

LEMMA UpTo ==
  ASSUME NEW n \in Nat, NEW P, 0 \in P, \A i \in 1..n : i - 1 \in P => i \in P
  PROVE  \A i \in 0..n : i \in P
<1> DEFINE T == {i \in 0..n : i \notin P}
<1>1. SUFFICES ASSUME T # {} PROVE FALSE
  OBVIOUS
<1>2. T \in SUBSET Nat
  OBVIOUS
<1>3. PICK k \in T : \A y \in T : k =< y
  <2> HIDE DEF T
  <2> QED  BY <1>1, <1>2, LeastNatural
<1>4. k \in 1..n
  OBVIOUS
<1>5. k - 1 \in 0..n /\ k - 1 \notin T
  <2>1. k - 1 \in 0..n /\ ~(k =< k - 1)
    BY <1>4
  <2> HIDE DEF T
  <2> QED  BY <1>3, <2>1
<1> QED  BY <1>4, <1>5

Loops(g, n, a, step) == g[0] = a /\ \A i \in 1..n : g[i] = step[<<g[i - 1], i>>]

LEMMA Iterated ==
  ASSUME NEW n \in Nat, NEW S, NEW a \in S, NEW step \in [S \X (1..n) -> S]
  PROVE  \E g \in [0..n -> S] : Loops(g, n, a, step)
<1> DEFINE Walk(g, m) == g[0] = a /\ \A i \in 1..m : g[i] = step[<<g[i - 1], i>>]
           P == {m \in 0..n : \E g \in [0..m -> S] : Walk(g, m)}
<1>1. 0 \in P
  <2>1. PICK g : g = [i \in 0..0 |-> a]
    OBVIOUS
  <2>2. g \in [0..0 -> S] /\ Walk(g, 0)
    BY <2>1
  <2> QED  BY <2>2
<1>2. ASSUME NEW m \in 1..n, m - 1 \in P PROVE m \in P
  <2>1. PICK f \in [0..(m - 1) -> S] : Walk(f, m - 1)
    BY <1>2
  <2>2. PICK b : b = step[<<f[m - 1], m>>]
    OBVIOUS
  <2>3. b \in S
    BY <2>1, <2>2
  <2>4. PICK g : g = [i \in 0..m |-> IF i = m THEN b ELSE f[i]]
    OBVIOUS
  <2>5. \A i \in 0..m : i = m \/ i \in 0..(m - 1)
    OBVIOUS
  <2>6. g \in [0..m -> S] /\ g[m] = b /\ \A i \in 0..(m - 1) : g[i] = f[i]
    BY <2>3, <2>4, <2>5
  <2>7. Walk(g, m)
    <3>1. ASSUME NEW i \in 1..m PROVE g[i] = step[<<g[i - 1], i>>]
      <4>1. i - 1 \in 0..(m - 1) /\ m - 1 \in 0..(m - 1)
        OBVIOUS
      <4>2. CASE i = m
        BY <2>2, <2>6, <4>1, <4>2
      <4>3. CASE i # m
        <5>1. i \in 1..(m - 1) /\ i \in 0..(m - 1)
          BY <4>3
        <5> QED  BY <2>1, <2>6, <4>1, <5>1
      <4> QED  BY <4>2, <4>3
    <3>2. g[0] = a
      BY <2>1, <2>6
    <3> QED  BY <3>1, <3>2
  <2> QED  BY <2>6, <2>7
<1>3. n \in 0..n
  OBVIOUS
<1>4. n \in P
  <2> HIDE DEF P
  <2> QED  BY <1>1, <1>2, <1>3, UpTo
<1> QED  BY <1>4 DEF Loops

-----------------------------------------------------------------------------
(* Meanings one after another.                                             *)
LEMMA AfterParts ==
  ASSUME NEW s \in Seq(Lines), NEW o \in Outcomes
  PROVE  /\ After(s, o) \in Outcomes
         /\ After(s, o).out = s \o o.out /\ After(s, o).item = o.item /\ After(s, o).left = o.left
<1>1. s \o o.out \in Seq(Lines)
  BY ConcatProperties DEF Outcomes
<1> QED  BY <1>1 DEF After, Outcome, Outcomes

LEMMA AfterNothing ==
  ASSUME NEW o \in Outcomes
  PROVE  After(<<>>, o) = o
<1>1. <<>> \o o.out = o.out
  BY DEF Outcomes
<1> QED  BY <1>1 DEF After, Outcome, Outcomes

LEMMA LinesAssociative ==
  ASSUME NEW s \in Seq(Lines), NEW t \in Seq(Lines), NEW u \in Seq(Lines)
  PROVE  (s \o t) \o u = s \o (t \o u) /\ s \o t \in Seq(Lines)
BY SMTT(20), ConcatAssociative, ConcatProperties

Associates(s, t, u) == (s \o t) \o u = s \o (t \o u)

LEMMA LinesAssociate ==
  ASSUME NEW s \in Seq(Lines), NEW t \in Seq(Lines), NEW u \in Seq(Lines)
  PROVE  Associates(s, t, u)
BY LinesAssociative DEF Associates

LeftFirst(w, s, t, u) == ((w \o s) \o t) \o u
RightFirst(w, s, t, u) == w \o (s \o (t \o u))

LEMMA FourInARow ==
  ASSUME NEW w \in Seq(Lines), NEW s \in Seq(Lines), NEW t \in Seq(Lines), NEW u \in Seq(Lines)
  PROVE  LeftFirst(w, s, t, u) = RightFirst(w, s, t, u)
<1>1. (w \o s) \o t = w \o (s \o t) /\ s \o t \in Seq(Lines)
  BY LinesAssociative
<1>2. (s \o t) \o u = s \o (t \o u)
  BY LinesAssociative
<1>3. PICK x \in Seq(Lines) : x = s \o t
  BY <1>1
<1>4. Associates(w, x, u)
  BY LinesAssociate
<1> QED  BY <1>1, <1>2, <1>3, <1>4 DEF LeftFirst, RightFirst, Associates

LEMMA AfterAfter ==
  ASSUME NEW s \in Seq(Lines), NEW t \in Seq(Lines), NEW o \in Outcomes
  PROVE  After(s, After(t, o)) = After(s \o t, o)
<1>1. s \o (t \o o.out) = (s \o t) \o o.out
  BY SMTT(20), ConcatAssociative DEF Outcomes
<1> QED  BY <1>1 DEF After, Outcome

LEMMA StillType == Still \in Meanings
<1>1. \A i \in Items : Outcome(<<>>, i, FALSE) \in Outcomes
  BY DEF Outcome, Outcomes
<1> QED  BY <1>1 DEF Still, Meanings

LEMMA MeaningParts ==
  ASSUME NEW m \in Meanings, NEW i \in Items
  PROVE  /\ m[i] \subseteq Outcomes /\ m[i] # {}
         /\ \A o \in m[i] : o \in Outcomes /\ o.item \in Items /\ o.out \in Seq(Lines)
<1>1. m[i] \in (SUBSET Outcomes) \ {{}}
  BY DEF Meanings
<1>2. \A o \in Outcomes : o.item \in Items /\ o.out \in Seq(Lines)
  BY DEF Outcomes
<1> QED  BY <1>1, <1>2

(* What may come of one meaning after another.                             *)
LEMMA ThenParts ==
  ASSUME NEW m \in Meanings, NEW next \in Meanings, NEW i \in Items
  PROVE  /\ \A o \in Then(m, next)[i] :
              \/ o \in m[i] /\ o.left
              \/ \E q \in m[i] : ~q.left /\ \E p \in next[q.item] : o = After(q.out, p)
         /\ \A o \in m[i] : o.left => o \in Then(m, next)[i]
         /\ \A q \in m[i] : ~q.left => \A p \in next[q.item] : After(q.out, p) \in Then(m, next)[i]
BY DEF Then

LEMMA ThenType ==
  ASSUME NEW m \in Meanings, NEW next \in Meanings
  PROVE  Then(m, next) \in Meanings
<1>1. ASSUME NEW i \in Items
      PROVE  Then(m, next)[i] \in (SUBSET Outcomes) \ {{}}
  <2>1. m[i] \subseteq Outcomes /\ m[i] # {}
    BY MeaningParts
  <2>2. \A q \in m[i] : q.item \in Items /\ q.out \in Seq(Lines)
    BY MeaningParts
  <2>3. \A q \in m[i] : next[q.item] \subseteq Outcomes /\ next[q.item] # {}
    BY <2>2, MeaningParts
  <2>4. ASSUME NEW o \in Then(m, next)[i] PROVE o \in Outcomes
    BY <2>1, <2>2, <2>3, <2>4, ThenParts, AfterParts
  <2>5. Then(m, next)[i] # {}
    <3>1. PICK q \in m[i] : TRUE
      BY <2>1
    <3>2. CASE q.left
      BY <3>2, ThenParts
    <3>3. CASE ~q.left
      BY <2>3, <3>3, ThenParts
    <3> QED  BY <3>2, <3>3
  <2> QED  BY <2>4, <2>5
<1>2. Then(m, next) = [i \in Items |-> Then(m, next)[i]]
  BY DEF Then
<1> QED  BY <1>1, <1>2 DEF Meanings

LEMMA ThenEqual ==
  ASSUME NEW m \in Meanings, NEW n \in Meanings, \A i \in Items : m[i] = n[i]
  PROVE  m = n
BY DEF Meanings

LEMMA ThenStill ==
  ASSUME NEW m \in Meanings
  PROVE  Then(m, Still) = m /\ Then(Still, m) = m
<1>1. ASSUME NEW i \in Items PROVE Then(m, Still)[i] = m[i]
  <2>1. ASSUME NEW q \in m[i], ~q.left
        PROVE  \A p \in Still[q.item] : After(q.out, p) = q
    <3>1. q \in Outcomes
      BY MeaningParts
    <3>2. q.item \in Items /\ q.out \o <<>> = q.out
      BY <3>1 DEF Outcomes
    <3>3. ASSUME NEW p \in Still[q.item] PROVE After(q.out, p) = q
      <4>1. p.out = <<>> /\ p.item = q.item /\ p.left = FALSE
        BY <3>2 DEF Still, Outcome
      <4> QED  BY <2>1, <3>1, <3>2, <4>1 DEF After, Outcome, Outcomes
    <3> QED  BY <3>3
  <2>2. \A q \in m[i] : Still[q.item] # {}
    BY MeaningParts, StillType
  <2>3. ASSUME NEW o \in Then(m, Still)[i] PROVE o \in m[i]
    <3>1. \/ o \in m[i] /\ o.left
          \/ \E q \in m[i] : ~q.left /\ \E p \in Still[q.item] : o = After(q.out, p)
      BY ThenParts, StillType
    <3> QED  BY <2>1, <3>1
  <2>4. ASSUME NEW o \in m[i] PROVE o \in Then(m, Still)[i]
    <3>1. CASE o.left
      BY <3>1, ThenParts, StillType
    <3>2. CASE ~o.left
      <4>1. PICK p \in Still[o.item] : TRUE
        BY <2>2
      <4>2. After(o.out, p) \in Then(m, Still)[i]
        BY <3>2, ThenParts, StillType
      <4> QED  BY <2>1, <3>2, <4>2
    <3> QED  BY <3>1, <3>2
  <2> QED  BY <2>3, <2>4
<1>2. ASSUME NEW i \in Items PROVE Then(Still, m)[i] = m[i]
  <2>1. \A q \in Still[i] : ~q.left /\ q.item = i /\ q.out = <<>>
    BY DEF Still, Outcome
  <2>2. PICK q \in Still[i] : TRUE
    BY MeaningParts, StillType
  <2>3. \A p \in m[i] : After(<<>>, p) = p
    BY AfterNothing, MeaningParts
  <2>4. ASSUME NEW o \in Then(Still, m)[i] PROVE o \in m[i]
    <3>1. \/ o \in Still[i] /\ o.left
          \/ \E x \in Still[i] : ~x.left /\ \E p \in m[x.item] : o = After(x.out, p)
      BY ThenParts, StillType
    <3>2. PICK x \in Still[i] : ~x.left /\ \E p \in m[x.item] : o = After(x.out, p)
      BY <2>1, <3>1
    <3> QED  BY <2>1, <2>3, <3>2
  <2>5. ASSUME NEW o \in m[i] PROVE o \in Then(Still, m)[i]
    <3>1. ~q.left /\ q.item = i /\ q.out = <<>>
      BY <2>1
    <3>2. After(q.out, o) \in Then(Still, m)[i]
      BY <3>1, ThenParts, StillType
    <3> QED  BY <2>3, <3>1, <3>2
  <2> QED  BY <2>4, <2>5
<1> QED  BY <1>1, <1>2, ThenEqual, ThenType, StillType

LEMMA ThenThen ==
  ASSUME NEW a \in Meanings, NEW b \in Meanings, NEW c \in Meanings
  PROVE  Then(Then(a, b), c) = Then(a, Then(b, c))
<1> DEFINE ab == Then(a, b)
           bc == Then(b, c)
<1>1. ab \in Meanings /\ bc \in Meanings
  BY ThenType
<1>2. ASSUME NEW i \in Items PROVE Then(ab, c)[i] = Then(a, bc)[i]
  <2>1. \A q \in a[i] : q.item \in Items /\ q.out \in Seq(Lines)
    BY MeaningParts
  <2>2. \A j \in Items : \A q \in b[j] : q \in Outcomes /\ q.item \in Items /\ q.out \in Seq(Lines)
    BY MeaningParts
  <2>3. \A j \in Items : \A q \in c[j] : q \in Outcomes
    BY MeaningParts
  <2>4. ASSUME NEW o \in Then(ab, c)[i] PROVE o \in Then(a, bc)[i]
    <3>1. CASE o \in ab[i] /\ o.left
      <4>1. CASE o \in a[i]
        BY <1>1, <3>1, <4>1, ThenParts
      <4>2. ASSUME NEW q \in a[i], ~q.left, NEW p \in b[q.item], o = After(q.out, p)
            PROVE  o \in Then(a, bc)[i]
        <5>1. p.left
          BY <2>1, <2>2, <3>1, <4>2, AfterParts
        <5>2. p \in bc[q.item]
          BY <2>1, <5>1, ThenParts
        <5> QED  BY <1>1, <4>2, <5>2, ThenParts
      <4>3. \/ o \in a[i]
            \/ \E q \in a[i] : ~q.left /\ \E p \in b[q.item] : o = After(q.out, p)
        BY <3>1, ThenParts
      <4> QED  BY <4>1, <4>2, <4>3
    <3>2. ASSUME NEW q \in ab[i], ~q.left, NEW p \in c[q.item], o = After(q.out, p)
          PROVE  o \in Then(a, bc)[i]
      <4>0. PICK x \in a[i] : ~x.left /\ \E y \in b[x.item] : q = After(x.out, y)
        BY ZenonT(40), <3>2, ThenParts
      <4>1. PICK y \in b[x.item] : q = After(x.out, y)
        BY <4>0
      <4>2. ~y.left /\ q.item = y.item /\ q.out = x.out \o y.out
        BY <2>1, <2>2, <3>2, <4>0, <4>1, AfterParts
      <4>3. After(y.out, p) \in bc[x.item]
        BY <2>1, <3>2, <4>1, <4>2, ThenParts
      <4>4. o = After(x.out, After(y.out, p))
        BY <2>1, <2>2, <2>3, <3>2, <4>2, AfterAfter
      <4> QED  BY <1>1, <4>0, <4>3, <4>4, ThenParts
    <3>3. \/ o \in ab[i] /\ o.left
          \/ \E q \in ab[i] : ~q.left /\ \E p \in c[q.item] : o = After(q.out, p)
      BY ZenonT(40), <1>1, <2>4, ThenParts
    <3> QED  BY <3>1, <3>2, <3>3
  <2>5. ASSUME NEW o \in Then(a, bc)[i] PROVE o \in Then(ab, c)[i]
    <3>1. CASE o \in a[i] /\ o.left
      BY <1>1, <3>1, ThenParts
    <3>2. ASSUME NEW x \in a[i], ~x.left, NEW w \in bc[x.item], o = After(x.out, w)
          PROVE  o \in Then(ab, c)[i]
      <4>1. CASE w \in b[x.item] /\ w.left
        <5>1. o \in ab[i] /\ o.left
          BY <2>1, <2>2, <3>2, <4>1, ThenParts, AfterParts
        <5> QED  BY <1>1, <5>1, ThenParts
      <4>2. ASSUME NEW y \in b[x.item], ~y.left, NEW p \in c[y.item], w = After(y.out, p)
            PROVE  o \in Then(ab, c)[i]
        <5>1. PICK q : q = After(x.out, y)
          OBVIOUS
        <5>2. q \in ab[i] /\ ~q.left /\ q.item = y.item /\ q.out = x.out \o y.out
          BY ZenonT(40), <2>1, <2>2, <3>2, <4>2, <5>1, ThenParts, AfterParts
        <5>3. o = After(q.out, p)
          BY <2>1, <2>2, <2>3, <3>2, <4>2, <5>2, AfterAfter
        <5> QED  BY <1>1, <4>2, <5>2, <5>3, ThenParts
      <4>3. \/ w \in b[x.item] /\ w.left
            \/ \E y \in b[x.item] : ~y.left /\ \E p \in c[y.item] : w = After(y.out, p)
        BY ZenonT(40), <2>1, <3>2, ThenParts
      <4> QED  BY <4>1, <4>2, <4>3
    <3>3. \/ o \in a[i] /\ o.left
          \/ \E x \in a[i] : ~x.left /\ \E w \in bc[x.item] : o = After(x.out, w)
      BY ZenonT(40), <1>1, <2>5, ThenParts
    <3> QED  BY <3>1, <3>2, <3>3
  <2> QED  BY <2>4, <2>5
<1> HIDE DEF ab, bc
<1>3. Then(ab, c) = Then(a, bc)
  BY <1>1, <1>2, ThenEqual, ThenType
<1> QED  BY <1>3 DEF ab, bc

-----------------------------------------------------------------------------
(* Chain, without the choice that its recursive function hides.            *)
Linked(g, n, ms) == g[0] = Still /\ \A k \in 1..n : g[k] = Then(ms[n + 1 - k], g[k - 1])

LEMMA ChainLinked ==
  ASSUME NEW ms \in Seq(Meanings)
  PROVE  \E g \in [0..Len(ms) -> Meanings] : Linked(g, Len(ms), ms) /\ Chain(ms) = g[Len(ms)]
<1> DEFINE n == Len(ms)
           Unfolding(last) == [k \in 0..n |-> IF k = 0 THEN Still ELSE Then(ms[n + 1 - k], last[k - 1])]
<1>1. n \in Nat
  BY LenProperties
<1>2. \A k \in 1..n : ms[n + 1 - k] \in Meanings
  <2>1. \A k \in 1..n : n + 1 - k \in 1..n
    BY <1>1
  <2> QED  BY <2>1, ElementOfSeq
<1> HIDE DEF n
<1>3. PICK step : step = [p \in Meanings \X (1..n) |-> Then(ms[n + 1 - p[2]], p[1])]
  OBVIOUS
<1>4. step \in [Meanings \X (1..n) -> Meanings]
  BY <1>2, <1>3, ThenType
<1>5. PICK g \in [0..n -> Meanings] : Loops(g, n, Still, step)
  BY <1>1, <1>4, StillType, Iterated
<1>6. g[0] = Still /\ \A k \in 1..n : g[k] = Then(ms[n + 1 - k], g[k - 1])
  <2>1. ASSUME NEW k \in 1..n PROVE g[k] = Then(ms[n + 1 - k], g[k - 1])
    <3>1. g[k] = step[<<g[k - 1], k>>]
      BY <1>5 DEF Loops
    <3>2. k - 1 \in 0..n
      BY <1>1
    <3>3. g[k - 1] \in Meanings
      BY <1>5, <3>2
    <3> QED  BY <1>3, <3>1, <3>3
  <2> QED  BY <1>5, <2>1 DEF Loops
<1>7. \A k \in 0..n : k = 0 \/ k \in 1..n
  BY <1>1
<1>8. g = Unfolding(g)
  BY <1>6, <1>7
<1>9. PICK last : last = (CHOOSE f : f = Unfolding(f))
  OBVIOUS
<1>10. last = Unfolding(last)
  <2> HIDE DEF Unfolding
  <2> QED  BY <1>8, <1>9
<1>11. Chain(ms) = last[n]
  BY <1>9, Zenon DEF Chain, n
<1>12. \A k \in 0..n : last[k] = IF k = 0 THEN Still ELSE Then(ms[n + 1 - k], last[k - 1])
  BY <1>10
<1>13. \A k \in 0..n : last[k] = g[k]
  <2> DEFINE P == {k \in 0..n : last[k] = g[k]}
  <2>1. 0 \in P
    BY <1>1, <1>6, <1>12
  <2>2. ASSUME NEW k \in 1..n, k - 1 \in P PROVE k \in P
    <3>1. k \in 0..n /\ k # 0
      BY <1>1
    <3>2. last[k - 1] = g[k - 1]
      BY <2>2
    <3>3. last[k] = Then(ms[n + 1 - k], last[k - 1])
      BY <1>12, <3>1
    <3> QED  BY <1>6, <3>1, <3>2, <3>3
  <2> HIDE DEF P
  <2>3. \A k \in 0..n : k \in P
    BY <1>1, <2>1, <2>2, UpTo
  <2> QED  BY <2>3 DEF P
<1>14. Chain(ms) = g[n]
  BY <1>1, <1>11, <1>13
<1> QED  BY <1>5, <1>6, <1>14 DEF Linked, n

LEMMA ChainEmpty == Chain(<<>>) = Still
<1>1. PICK ms : ms = <<>>
  OBVIOUS
<1>2. ms \in Seq(Meanings) /\ Len(ms) = 0
  BY <1>1
<1>3. PICK g : Linked(g, Len(ms), ms) /\ Chain(ms) = g[Len(ms)]
  BY <1>2, ChainLinked
<1> QED  BY <1>1, <1>2, <1>3 DEF Linked

LEMMA ChainFirst ==
  ASSUME NEW ms \in Seq(Meanings), ms # <<>>
  PROVE  /\ Head(ms) \in Meanings /\ Tail(ms) \in Seq(Meanings)
         /\ Chain(ms) = Then(Head(ms), Chain(Tail(ms)))
<1>1. PICK n : n = Len(ms)
  OBVIOUS
<1>2. n \in Nat \ {0}
  BY <1>1, EmptySeq, LenProperties
<1>3. PICK rest : rest = Tail(ms)
  OBVIOUS
<1>4. /\ Head(ms) = ms[1] /\ Head(ms) \in Meanings /\ rest \in Seq(Meanings)
      /\ Len(rest) = n - 1 /\ \A k \in 1..(n - 1) : rest[k] = ms[k + 1]
  BY <1>1, <1>3, HeadTailProperties
<1>5. PICK g \in [0..n -> Meanings] : Linked(g, n, ms) /\ Chain(ms) = g[n]
  BY <1>1, ChainLinked
<1>6. PICK h \in [0..(n - 1) -> Meanings] : Linked(h, n - 1, rest) /\ Chain(rest) = h[n - 1]
  BY <1>4, ChainLinked
<1>7. \A k \in 0..(n - 1) : k \in {j \in 0..(n - 1) : g[j] = h[j]}
  <2> DEFINE P == {j \in 0..(n - 1) : g[j] = h[j]}
  <2>1. 0 \in P
    BY <1>2, <1>5, <1>6 DEF Linked
  <2>2. ASSUME NEW k \in 1..(n - 1), k - 1 \in P PROVE k \in P
    <3>1. PICK j \in 1..(n - 1) : j = n - k
      BY <1>2
    <3>2. (n - 1) + 1 - k = j /\ n + 1 - k = j + 1 /\ k \in 1..n /\ k \in 0..(n - 1)
      BY <1>2, <3>1
    <3>3. h[k] = Then(rest[j], h[k - 1])
      BY <1>6, <3>2 DEF Linked
    <3>4. g[k] = Then(ms[j + 1], g[k - 1])
      BY <1>5, <3>2 DEF Linked
    <3>5. g[k - 1] = h[k - 1]
      BY <2>2
    <3> QED  BY <1>4, <3>2, <3>3, <3>4, <3>5
  <2>3. n - 1 \in Nat
    BY <1>2
  <2> HIDE DEF P
  <2>4. \A k \in 0..(n - 1) : k \in P
    BY <2>1, <2>2, <2>3, UpTo
  <2> QED  BY <2>4 DEF P
<1>8. g[n - 1] = h[n - 1]
  BY <1>2, <1>7
<1>9. g[n] = Then(ms[1], g[n - 1])
  <2>1. n \in 1..n /\ n + 1 - n = 1
    BY <1>2
  <2> QED  BY <1>5, <2>1 DEF Linked
<1> QED  BY <1>3, <1>4, <1>5, <1>6, <1>8, <1>9

LEMMA ChainType ==
  ASSUME NEW ms \in Seq(Meanings)
  PROVE  Chain(ms) \in Meanings
<1>1. PICK g \in [0..Len(ms) -> Meanings] : Chain(ms) = g[Len(ms)]
  BY ChainLinked
<1>2. Len(ms) \in 0..Len(ms)
  BY LenProperties
<1> QED  BY <1>1, <1>2

-----------------------------------------------------------------------------
(* Lists of blocks and the passes of a loop.                               *)
Mapped(f, s) == [n \in 1..Len(s) |-> f[s[n]]]

LEMMA ChainOf ==
  ASSUME NEW S, NEW s \in Seq(S), NEW f \in [S -> Meanings]
  PROVE  /\ Chain(Mapped(f, s)) \in Meanings
         /\ s = <<>> => Chain(Mapped(f, s)) = Still
         /\ s # <<>> => /\ f[Head(s)] \in Meanings
                        /\ Chain(Mapped(f, s)) = Then(f[Head(s)], Chain(Mapped(f, Tail(s))))
<1>0. PICK ms : ms = Mapped(f, s)
  OBVIOUS
<1>1. PICK n \in Nat : n = Len(s)
  BY LenProperties
<1>2. \A k \in 1..n : s[k] \in S
  BY <1>1, ElementOfSeq
<1>3. ms \in [1..n -> Meanings] /\ \A k \in 1..n : ms[k] = f[s[k]]
  BY <1>0, <1>1, <1>2 DEF Mapped
<1>4. ms \in Seq(Meanings) /\ Len(ms) = n
  BY <1>3
<1>5. Chain(ms) \in Meanings
  BY <1>4, ChainType
<1>6. s = <<>> => Chain(ms) = Still
  <2> SUFFICES ASSUME s = <<>> PROVE Chain(ms) = Still
    OBVIOUS
  <2>1. n = 0
    BY <1>1
  <2>2. ms = <<>>
    BY <1>4, <2>1, EmptySeq
  <2> QED  BY <2>2, ChainEmpty
<1>7. ASSUME s # <<>>
      PROVE  f[Head(s)] \in Meanings /\ Chain(ms) = Then(f[Head(s)], Chain(Mapped(f, Tail(s))))
  <2>1. n # 0
    BY <1>1, <1>7, EmptySeq
  <2>2. PICK t : t = Tail(s)
    OBVIOUS
  <2>3. /\ Head(s) = s[1] /\ t \in Seq(S) /\ Len(t) = n - 1
        /\ \A k \in 1..(n - 1) : t[k] = s[k + 1]
    BY <1>1, <1>7, <2>2, HeadTailProperties
  <2>4. ms # <<>>
    BY <1>4, <2>1, EmptySeq
  <2>5. PICK u : u = Tail(ms)
    OBVIOUS
  <2>6. /\ Head(ms) = ms[1] /\ u \in Seq(Meanings) /\ Len(u) = n - 1
        /\ \A k \in 1..(n - 1) : u[k] = ms[k + 1]
    BY <1>4, <2>4, <2>5, HeadTailProperties
  <2>7. Mapped(f, t) = [k \in 1..(n - 1) |-> f[t[k]]]
    BY <2>3 DEF Mapped
  <2>8. \A k \in 1..(n - 1) : u[k] = f[t[k]]
    <3>1. \A k \in 1..(n - 1) : k + 1 \in 1..n
      BY <1>1
    <3> QED  BY <1>3, <2>3, <2>6, <3>1
  <2>9. u = [k \in 1..(n - 1) |-> u[k]]
    BY <2>6, LenProperties
  <2>10. u = Mapped(f, Tail(s))
    BY <2>2, <2>7, <2>8, <2>9
  <2>11. 1 \in 1..n
    BY <1>1, <2>1
  <2>12. Head(ms) = f[Head(s)]
    BY <1>3, <2>3, <2>6, <2>11
  <2> QED  BY <1>4, <2>4, <2>5, <2>10, <2>12, ChainFirst
<1> QED  BY <1>0, <1>5, <1>6, <1>7

LEMMA SequenceParts ==
  ASSUME NEW means \in [Blocks -> Meanings], NEW bs \in Seq(Blocks)
  PROVE  /\ Sequence(means, bs) \in Meanings
         /\ bs = <<>> => Sequence(means, bs) = Still
         /\ bs # <<>> => /\ means[Head(bs)] \in Meanings
                         /\ Sequence(means, bs) = Then(means[Head(bs)], Sequence(means, Tail(bs)))
<1>1. \A s : Sequence(means, s) = Chain(Mapped(means, s))
  BY DEF Sequence, Mapped
<1> QED  BY <1>1, ChainOf

(* A list depends on the meanings of its own blocks only.                  *)
LEMMA SequenceSame ==
  ASSUME NEW bs \in Seq(Blocks), NEW m, NEW n, \A k \in 1..Len(bs) : m[bs[k]] = n[bs[k]]
  PROVE  Sequence(m, bs) = Sequence(n, bs)
<1>1. [k \in 1..Len(bs) |-> m[bs[k]]] = [k \in 1..Len(bs) |-> n[bs[k]]]
  OBVIOUS
<1> QED  BY <1>1 DEF Sequence

LEMMA PassParts ==
  ASSUME NEW means \in [Blocks -> Meanings], NEW bs \in Seq(Blocks), NEW v \in Values
  PROVE  /\ Pass(means, bs, v) \in Meanings
         /\ \A i \in Items : Pass(means, bs, v)[i] = Sequence(means, bs)[v]
<1>1. v \in Items
  BY DEF Items
<1>2. Sequence(means, bs)[v] \in (SUBSET Outcomes) \ {{}}
  BY <1>1, SequenceParts DEF Meanings
<1> QED  BY <1>2 DEF Pass, Meanings

LEMMA RepeatedParts ==
  ASSUME NEW means \in [Blocks -> Meanings], NEW bs \in Seq(Blocks), NEW items \in Seq(Values)
  PROVE  /\ Repeated(means, bs, items) \in Meanings
         /\ items = <<>> => Repeated(means, bs, items) = Still
         /\ items # <<>> =>
              /\ Head(items) \in Values /\ Pass(means, bs, Head(items)) \in Meanings
              /\ Repeated(means, bs, items)
                   = Then(Pass(means, bs, Head(items)), Repeated(means, bs, Tail(items)))
<1>1. PICK f : f = [v \in Values |-> Pass(means, bs, v)]
  OBVIOUS
<1>2. f \in [Values -> Meanings]
  BY <1>1, PassParts
<1>3. ASSUME NEW s \in Seq(Values)
      PROVE  Repeated(means, bs, s) = Chain(Mapped(f, s))
  <2>1. \A k \in 1..Len(s) : s[k] \in Values
    BY ElementOfSeq
  <2>2. Mapped(f, s) = [n \in 1..Len(s) |-> Pass(means, bs, s[n])]
    BY <1>1, <2>1 DEF Mapped
  <2> QED  BY <2>2 DEF Repeated
<1>4. CASE items = <<>>
  BY ZenonT(40), <1>2, <1>3, <1>4, ChainOf
<1>5. CASE items # <<>>
  <2>1. Head(items) \in Values /\ Tail(items) \in Seq(Values)
    BY <1>5, HeadTailProperties
  <2>2. /\ Chain(Mapped(f, items)) \in Meanings
        /\ f[Head(items)] \in Meanings
        /\ Chain(Mapped(f, items)) = Then(f[Head(items)], Chain(Mapped(f, Tail(items))))
    BY <1>2, <1>5, ChainOf
  <2>3. f[Head(items)] = Pass(means, bs, Head(items))
    BY <1>1, <2>1
  <2> QED  BY <1>3, <1>5, <2>1, <2>2, <2>3
<1> QED  BY <1>4, <1>5

-----------------------------------------------------------------------------
(* Meanings of blocks.                                                     *)
LEMMA YieldsParts ==
  ASSUME NEW e, NEW i \in Items
  PROVE  /\ Yields(e, i) \subseteq Values /\ Shown(e, i) \subseteq Texts
         /\ e # ExitCall => Yields(e, i) # {} /\ Shown(e, i) # {}
<1>1. Yields(e, i) \subseteq Values /\ (e # ExitCall => Yields(e, i) # {})
  <2>1. CASE e \in Calls
    BY <2>1, InterpreterAssumption, MeaningAssumption DEF Yields
  <2>2. CASE e \notin Calls /\ e = Item /\ i # Unset
    BY <2>2, InterpreterAssumption DEF Yields, Items
  <2>3. CASE e \in Vars
    BY <2>3, InterpreterAssumption DEF Yields
  <2>4. CASE e \notin Calls /\ e \notin Vars /\ ~(e = Item /\ i # Unset)
    BY <2>4, InterpreterAssumption DEF Yields
  <2> QED  BY <2>1, <2>2, <2>3, <2>4
<1>2. CASE e \in Texts
  BY <1>1, <1>2 DEF Shown
<1>3. CASE e \notin Texts
  <2>1. Shown(e, i) = {Sprint[v] : v \in Yields(e, i)}
    BY <1>3 DEF Shown
  <2> QED  BY <1>1, <2>1, Printouts
<1> QED  BY <1>2, <1>3

LEMMA OutcomeType ==
  ASSUME NEW s \in Seq(Lines), NEW i \in Items, NEW l \in BOOLEAN
  PROVE  /\ Outcome(s, i, l) \in Outcomes
         /\ Outcome(s, i, l).out = s /\ Outcome(s, i, l).item = i /\ Outcome(s, i, l).left = l
BY DEF Outcome, Outcomes

LEMMA PrintingParts ==
  ASSUME NEW b \in Blocks, NEW i \in Items
  PROVE  /\ Printing(b, i) \subseteq Outcomes
         /\ Shown(b.expr, i) # {} => Printing(b, i) # {}
<1>1. ASSUME NEW v \in Shown(b.expr, i)
      PROVE  Outcome(Asking(b.expr) \o <<Line(v, b.type = "text")>>, i, FALSE) \in Outcomes
  <2>1. PICK l : l = Line(v, b.type = "text")
    OBVIOUS
  <2>2. v \in Texts
    BY YieldsParts
  <2>3. l \in Lines
    BY <2>1, <2>2 DEF Line, Lines
  <2>4. Asking(b.expr) \o <<l>> \in Seq(Lines)
    BY <2>3, AskingType, OneElement, ConcatProperties
  <2> QED  BY <2>1, <2>4, OutcomeType
<1>2. \A o \in Printing(b, i) : o \in Outcomes
  BY <1>1 DEF Printing
<1>3. Shown(b.expr, i) # {} => Printing(b, i) # {}
  BY DEF Printing
<1> QED  BY <1>2, <1>3

LEMMA ExitsParts ==
  ASSUME NEW e, NEW i \in Items
  PROVE  Exits(e, i) \subseteq Outcomes /\ (e = ExitCall => Exits(e, i) # {})
<1>1. <<>> \in Seq(Lines)
  OBVIOUS
<1> QED  BY <1>1, OutcomeType DEF Exits

LEMMA DoesParts ==
  ASSUME NEW means \in [Blocks -> Meanings], NEW b \in Blocks, NEW i \in Items
  PROVE  Does(means, b, i) \subseteq Outcomes /\ Does(means, b, i) # {}
<1>1. b.body \in Seq(Blocks) /\ (b.type = "widget" => b.expr \in Texts)
  BY InterpreterAssumption
<1>2. Sequence(means, b.body) \in Meanings
  BY <1>1, SequenceParts
<1>3. CASE b.type = "widget"
  <2>1. Does(means, b, i) = Printing(b, i)
    BY <1>3 DEF Does
  <2>2. Shown(b.expr, i) # {}
    BY <1>1, <1>3 DEF Shown
  <2> QED  BY <2>1, <2>2, PrintingParts
<1>4. CASE b.type \in {"text", "image"}
  <2>1. Does(means, b, i) = Exits(b.expr, i) \cup Printing(b, i)
    BY <1>4 DEF Does
  <2> QED  BY <2>1, ExitsParts, PrintingParts, YieldsParts
<1>5. CASE b.type = "container"
  <2>1. Does(means, b, i) = Sequence(means, b.body)[i]
    BY <1>5 DEF Does
  <2> QED  BY <1>2, <2>1, MeaningParts
<1>6. CASE b.type = "when"
  <2>1. Does(means, b, i) = Exits(b.expr, i) \cup Choosing(means, b, i)
    BY <1>6 DEF Does
  <2>2. ASSUME NEW o \in Choosing(means, b, i) PROVE o \in Outcomes
    <3>1. \/ \E p \in Sequence(means, b.body)[i] : o = After(Asking(b.expr), p)
          \/ o = Outcome(Asking(b.expr), i, FALSE)
      BY DEF Choosing
    <3>2. Sequence(means, b.body)[i] \subseteq Outcomes
      BY <1>2, MeaningParts
    <3>3. PICK s \in Seq(Lines) : s = Asking(b.expr)
      BY AskingType
    <3>4. Outcome(s, i, FALSE) \in Outcomes
      BY OutcomeType
    <3>5. \A p \in Sequence(means, b.body)[i] : After(s, p) \in Outcomes
      BY <3>2, AfterParts
    <3> QED  BY <3>1, <3>3, <3>4, <3>5
  <2>3. ASSUME b.expr # ExitCall PROVE Choosing(means, b, i) # {}
    <3>1. PICK v \in Yields(b.expr, i) : TRUE
      BY <2>3, YieldsParts
    <3>2. CASE v = True
      <4>1. PICK p \in Sequence(means, b.body)[i] : TRUE
        BY <1>2, MeaningParts
      <4>2. After(Asking(b.expr), p) \in Choosing(means, b, i)
        BY <3>2, <4>1 DEF Choosing
      <4> QED  BY <4>2
    <3>3. CASE v # True
      <4>1. Outcome(Asking(b.expr), i, FALSE) \in Choosing(means, b, i)
        BY <3>3 DEF Choosing
      <4> QED  BY <4>1
    <3> QED  BY <3>2, <3>3
  <2> QED  BY <2>1, <2>2, <2>3, ExitsParts
<1>7. CASE b.type = "loop"
  <2>1. CASE b.expr \in Lists
    <3>1. Elements[b.expr] \in Seq(Values)
      BY <2>1, InterpreterAssumption
    <3>2. Repeated(means, b.body, Elements[b.expr]) \in Meanings
      BY <1>1, <3>1, RepeatedParts
    <3>3. Does(means, b, i) = Repeated(means, b.body, Elements[b.expr])[i]
      BY <1>7, <2>1 DEF Does
    <3> QED  BY <3>2, <3>3, MeaningParts
  <2>2. CASE b.expr \notin Lists
    <3>1. Does(means, b, i) = {Outcome(<<>>, i, FALSE)}
      BY <1>7, <2>2 DEF Does
    <3>2. <<>> \in Seq(Lines)
      OBVIOUS
    <3> QED  BY <3>1, <3>2, OutcomeType
  <2> QED  BY <2>1, <2>2
<1> QED  BY <1>3, <1>4, <1>5, <1>6, <1>7, MeaningAssumption

(* What a condition may be.                                                *)
Guards(b, i) == IF b.when = Always THEN {True} ELSE Yields(b.when, i)

LEMMA MeaningFrom ==
  ASSUME NEW means \in [Blocks -> Meanings], NEW b \in Blocks, NEW i \in Items, NEW o \in MeaningOf(means, b)[i]
  PROVE  \/ o = Outcome(Asking(b.when), i, FALSE)
         \/ \E p \in Exits(b.when, i) \cup Does(means, b, i) : o = After(Asking(b.when), p)
<1>1. MeaningOf(means, b)[i] =
        {Outcome(Asking(b.when), i, FALSE) : v \in Guards(b, i) \cap {Error, False}}
        \cup {After(Asking(b.when), p) : p \in Exits(b.when, i)}
        \cup {After(Asking(b.when), p) :
                p \in IF Guards(b, i) \subseteq {Error, False} THEN {} ELSE Does(means, b, i)}
  BY DEF MeaningOf, Guards
<1>2. CASE Guards(b, i) \subseteq {Error, False}
  BY <1>1, <1>2
<1>3. CASE ~(Guards(b, i) \subseteq {Error, False})
  BY <1>1, <1>3
<1> QED  BY <1>2, <1>3

LEMMA MeaningIs ==
  ASSUME NEW means \in [Blocks -> Meanings], NEW b \in Blocks, NEW i \in Items
  PROVE  /\ Guards(b, i) \cap {Error, False} # {}
              => Outcome(Asking(b.when), i, FALSE) \in MeaningOf(means, b)[i]
         /\ \A p \in Exits(b.when, i) : After(Asking(b.when), p) \in MeaningOf(means, b)[i]
         /\ Guards(b, i) \ {Error, False} # {} =>
              \A p \in Does(means, b, i) : After(Asking(b.when), p) \in MeaningOf(means, b)[i]
<1>1. MeaningOf(means, b)[i] =
        {Outcome(Asking(b.when), i, FALSE) : v \in Guards(b, i) \cap {Error, False}}
        \cup {After(Asking(b.when), o) : o \in Exits(b.when, i)}
        \cup {After(Asking(b.when), o) :
                o \in IF Guards(b, i) \subseteq {Error, False} THEN {} ELSE Does(means, b, i)}
  BY DEF MeaningOf, Guards
<1>2. Guards(b, i) \ {Error, False} # {} <=> ~(Guards(b, i) \subseteq {Error, False})
  OBVIOUS
<1> QED  BY <1>1, <1>2

LEMMA MeaningType ==
  ASSUME NEW means \in [Blocks -> Meanings], NEW b \in Blocks
  PROVE  MeaningOf(means, b) \in Meanings
<1>1. ASSUME NEW i \in Items
      PROVE  MeaningOf(means, b)[i] \in (SUBSET Outcomes) \ {{}}
  <2>1. Exits(b.when, i) \subseteq Outcomes /\ Does(means, b, i) \subseteq Outcomes
    BY ExitsParts, DoesParts
  <2>2. ASSUME NEW o \in MeaningOf(means, b)[i] PROVE o \in Outcomes
    <3>1. PICK s \in Seq(Lines) : s = Asking(b.when)
      BY AskingType
    <3>2. Outcome(s, i, FALSE) \in Outcomes
      BY OutcomeType
    <3>3. \A p \in Exits(b.when, i) \cup Does(means, b, i) : After(s, p) \in Outcomes
      BY <2>1, AfterParts
    <3>4. \/ o = Outcome(Asking(b.when), i, FALSE)
          \/ \E p \in Exits(b.when, i) \cup Does(means, b, i) : o = After(Asking(b.when), p)
      BY <2>2, MeaningFrom
    <3> QED  BY <3>1, <3>2, <3>3, <3>4
  <2>3. MeaningOf(means, b)[i] # {}
    <3>1. CASE b.when = ExitCall
      <4>1. PICK p \in Exits(b.when, i) : TRUE
        BY <3>1, ExitsParts
      <4> QED  BY MeaningIs
    <3>2. CASE b.when # ExitCall
      <4>1. Guards(b, i) # {}
        BY <3>2, YieldsParts DEF Guards
      <4>2. CASE Guards(b, i) \cap {Error, False} # {}
        BY <4>2, MeaningIs
      <4>3. CASE Guards(b, i) \ {Error, False} # {}
        <5>1. PICK p \in Does(means, b, i) : TRUE
          BY DoesParts
        <5> QED  BY <4>3, MeaningIs
      <4> QED  BY <4>1, <4>2, <4>3
    <3> QED  BY <3>1, <3>2
  <2> QED  BY <2>2, <2>3
<1>2. MeaningOf(means, b) = [i \in Items |-> MeaningOf(means, b)[i]]
  BY DEF MeaningOf
<1> QED  BY <1>1, <1>2 DEF Meanings

(* A block depends on the meanings of its children only.                   *)
LEMMA MeaningSame ==
  ASSUME NEW m \in [Blocks -> Meanings], NEW n \in [Blocks -> Meanings], NEW b \in Blocks,
         \A k \in 1..Len(b.body) : m[b.body[k]] = n[b.body[k]]
  PROVE  MeaningOf(m, b) = MeaningOf(n, b)
<1>1. b.body \in Seq(Blocks)
  BY InterpreterAssumption
<1>2. Sequence(m, b.body) = Sequence(n, b.body)
  BY <1>1, SequenceSame
<1>3. \A v : Pass(m, b.body, v) = Pass(n, b.body, v)
  BY <1>2 DEF Pass
<1>4. \A items : Repeated(m, b.body, items) = Repeated(n, b.body, items)
  BY <1>3 DEF Repeated
<1>5. \A i : Choosing(m, b, i) = Choosing(n, b, i)
  BY <1>2 DEF Choosing
<1>6. \A i : Does(m, b, i) = Does(n, b, i)
  BY <1>2, <1>4, <1>5 DEF Does
<1> QED  BY <1>6 DEF MeaningOf

(* Upto, without the choice that its recursive function hides.             *)
Layered(g, n) ==
  g[0] = [b \in Blocks |-> Still] /\ \A d \in 1..n : g[d] = [b \in Blocks |-> MeaningOf(g[d - 1], b)]

LEMMA UptoLayered ==
  ASSUME NEW n \in Nat
  PROVE  \E g \in [0..n -> [Blocks -> Meanings]] : Layered(g, n) /\ Upto(n) = g[n]
<1> DEFINE Unfolding(means) == [d \in 0..n |->
             IF d = 0 THEN [b \in Blocks |-> Still] ELSE [b \in Blocks |-> MeaningOf(means[d - 1], b)]]
<1>1. PICK S : S = [Blocks -> Meanings]
  OBVIOUS
<1>2. PICK a \in S : a = [b \in Blocks |-> Still]
  BY <1>1, StillType
<1>3. PICK step : step = [p \in S \X (1..n) |-> [b \in Blocks |-> MeaningOf(p[1], b)]]
  OBVIOUS
<1>4. step \in [S \X (1..n) -> S]
  <2>1. ASSUME NEW m \in S PROVE [b \in Blocks |-> MeaningOf(m, b)] \in S
    <3>1. m \in [Blocks -> Meanings]
      BY <1>1
    <3>2. \A b \in Blocks : MeaningOf(m, b) \in Meanings
      BY <3>1, MeaningType
    <3> QED  BY <1>1, <3>2
  <2> QED  BY <1>3, <2>1
<1>5. PICK g \in [0..n -> S] : Loops(g, n, a, step)
  BY <1>4, Iterated
<1>6. g[0] = a /\ \A d \in 1..n : g[d] = [b \in Blocks |-> MeaningOf(g[d - 1], b)]
  <2>1. ASSUME NEW d \in 1..n PROVE g[d] = [b \in Blocks |-> MeaningOf(g[d - 1], b)]
    <3>1. g[d] = step[<<g[d - 1], d>>]
      BY <1>5 DEF Loops
    <3>2. d - 1 \in 0..n
      OBVIOUS
    <3>3. g[d - 1] \in S
      BY <1>5, <3>2
    <3> QED  BY <1>3, <3>1, <3>3
  <2> QED  BY <1>5, <2>1 DEF Loops
<1>7. \A d \in 0..n : d = 0 \/ d \in 1..n
  OBVIOUS
<1>8. g = Unfolding(g)
  BY <1>2, <1>6, <1>7
<1>9. PICK means : means = (CHOOSE f : f = Unfolding(f))
  OBVIOUS
<1>10. means = Unfolding(means)
  <2> HIDE DEF Unfolding
  <2> QED  BY <1>8, <1>9
<1>11. Upto(n) = means[n]
  BY <1>9, Zenon DEF Upto
<1>12. \A d \in 0..n : means[d] =
         IF d = 0 THEN [b \in Blocks |-> Still] ELSE [b \in Blocks |-> MeaningOf(means[d - 1], b)]
  BY <1>10
<1>13. \A d \in 0..n : means[d] = g[d]
  <2> DEFINE P == {d \in 0..n : means[d] = g[d]}
  <2>1. 0 \in P
    <3>1. 0 \in 0..n
      OBVIOUS
    <3>2. means[0] = a
      BY <1>2, <1>12, <3>1
    <3> QED  BY <1>6, <3>1, <3>2
  <2>2. ASSUME NEW d \in 1..n, d - 1 \in P PROVE d \in P
    <3>1. d \in 0..n /\ d # 0
      OBVIOUS
    <3>2. means[d - 1] = g[d - 1]
      BY <2>2
    <3>3. means[d] = [b \in Blocks |-> MeaningOf(means[d - 1], b)]
      BY <1>12, <3>1
    <3> QED  BY <1>6, <3>1, <3>2, <3>3
  <2> HIDE DEF P
  <2>3. \A d \in 0..n : d \in P
    BY <2>1, <2>2, UpTo
  <2> QED  BY <2>3 DEF P
<1>14. Upto(n) = g[n]
  BY <1>11, <1>13
<1> QED  BY <1>1, <1>2, <1>5, <1>6, <1>14 DEF Layered

LEMMA UptoParts ==
  ASSUME NEW n \in Nat
  PROVE  /\ Upto(n) \in [Blocks -> Meanings]
         /\ Upto(n + 1) = [b \in Blocks |-> MeaningOf(Upto(n), b)]
<1>1. PICK g \in [0..n -> [Blocks -> Meanings]] : Layered(g, n) /\ Upto(n) = g[n]
  BY UptoLayered
<1>2. PICK m \in Nat : m = n + 1
  OBVIOUS
<1>3. PICK h \in [0..m -> [Blocks -> Meanings]] : Layered(h, m) /\ Upto(m) = h[m]
  BY UptoLayered
<1>4. \A d \in 0..n : g[d] = h[d]
  <2> DEFINE P == {d \in 0..n : g[d] = h[d]}
  <2>1. 0 \in P
    BY <1>1, <1>3 DEF Layered
  <2>2. ASSUME NEW d \in 1..n, d - 1 \in P PROVE d \in P
    <3>1. d \in 0..n /\ d \in 1..m
      BY <1>2
    <3>2. g[d - 1] = h[d - 1]
      BY <2>2
    <3>3. g[d] = [b \in Blocks |-> MeaningOf(g[d - 1], b)]
      BY <1>1 DEF Layered
    <3>4. h[d] = [b \in Blocks |-> MeaningOf(h[d - 1], b)]
      BY <1>3, <3>1 DEF Layered
    <3> QED  BY <3>1, <3>2, <3>3, <3>4
  <2> HIDE DEF P
  <2>3. \A d \in 0..n : d \in P
    BY <2>1, <2>2, UpTo
  <2> QED  BY <2>3 DEF P
<1>5. h[m] = [b \in Blocks |-> MeaningOf(h[n], b)]
  <2>1. m \in 1..m /\ m - 1 = n
    BY <1>2
  <2> QED  BY <1>3, <2>1 DEF Layered
<1>6. n \in 0..n
  OBVIOUS
<1> QED  BY <1>1, <1>2, <1>3, <1>4, <1>5, <1>6

(* What is nested less than n deep has its meaning after n rounds, and the *)
(* meanings of all blocks are made of one another.                         *)
LEMMA MeansParts ==
  /\ Means \in [Blocks -> Meanings]
  /\ \A b \in Blocks : Means[b] = MeaningOf(Means, b)
<1>1. ASSUME NEW b \in Blocks
      PROVE  Depth[b] \in Nat /\ Means[b] = MeaningOf(Upto(Depth[b]), b)
  BY UptoParts, MeaningAssumption DEF Means
<1>2. Means \in [Blocks -> Meanings]
  <2>1. ASSUME NEW b \in Blocks PROVE Means[b] \in Meanings
    BY <1>1, UptoParts, MeaningType
  <2>2. Means = [b \in Blocks |-> Means[b]]
    BY DEF Means
  <2> QED  BY <2>1, <2>2
<1>3. \A b \in Blocks : b.body \in Seq(Blocks) /\ \A k \in 1..Len(b.body) :
        b.body[k] \in Blocks /\ Depth[b.body[k]] \in Nat /\ Depth[b.body[k]] < Depth[b]
  <2> SUFFICES ASSUME NEW b \in Blocks
               PROVE  b.body \in Seq(Blocks) /\ \A k \in 1..Len(b.body) :
                        b.body[k] \in Blocks /\ Depth[b.body[k]] \in Nat /\ Depth[b.body[k]] < Depth[b]
    OBVIOUS
  <2>1. b.body \in Seq(Blocks)
    BY InterpreterAssumption
  <2>2. \A k \in 1..Len(b.body) : b.body[k] \in Blocks
    BY <2>1, ElementOfSeq
  <2> QED  BY <2>1, <2>2, MeaningAssumption
<1> DEFINE Settled(n) == \A b \in Blocks : Depth[b] < n => Upto(n)[b] = Means[b]
           T == {n \in Nat : ~Settled(n)}
<1>4. \A n \in Nat : Settled(n)
  <2>1. SUFFICES ASSUME T # {} PROVE FALSE
    OBVIOUS
  <2>2. PICK n \in T : \A m \in T : n =< m
    <3>1. T \in SUBSET Nat
      OBVIOUS
    <3> HIDE DEF T
    <3> QED  BY <2>1, <3>1, LeastNatural
  <2>3. PICK b \in Blocks : Depth[b] < n /\ Upto(n)[b] # Means[b]
    OBVIOUS
  <2>4. PICK d \in Nat : d = Depth[b]
    BY <1>1
  <2>5. PICK p \in Nat : n = p + 1
    <3>1. n \in Nat /\ n # 0
      BY <2>3, <2>4
    <3>2. n - 1 \in Nat /\ n = (n - 1) + 1
      BY <3>1
    <3> QED  BY <3>2
  <2>6. d =< p /\ p < n /\ d < n
    BY <2>3, <2>4, <2>5
  <2>7. Settled(p) /\ Settled(d)
    <3>1. p \notin T /\ d \notin T
      <4> HIDE DEF T
      <4>1. \A m \in T : ~(m < n)
        <5>1. T \subseteq Nat
          BY DEF T
        <5> HIDE DEF T
        <5> QED  BY <2>2, <5>1
      <4> QED  BY <2>6, <4>1
    <3> QED  BY <3>1
  <2>8. ASSUME NEW k \in 1..Len(b.body)
        PROVE  Upto(p)[b.body[k]] = Upto(d)[b.body[k]]
    <3>1. PICK c \in Blocks : c = b.body[k] /\ Depth[c] \in Nat /\ Depth[c] < d
      BY <1>3, <2>4
    <3>2. Depth[c] < p
      BY <2>6, <3>1
    <3>3. Upto(p)[c] = Means[c] /\ Upto(d)[c] = Means[c]
      BY <2>7, <3>1, <3>2
    <3> QED  BY <3>1, <3>3
  <2>9. MeaningOf(Upto(p), b) = MeaningOf(Upto(d), b)
    BY ZenonT(40), <2>8, UptoParts, MeaningSame
  <2>10. Upto(n)[b] = MeaningOf(Upto(p), b)
    BY <2>5, UptoParts
  <2> QED  BY <1>1, <2>3, <2>4, <2>9, <2>10
<1>5. ASSUME NEW b \in Blocks PROVE Means[b] = MeaningOf(Means, b)
  <2>1. PICK d \in Nat : d = Depth[b]
    BY <1>1
  <2>2. \A k \in 1..Len(b.body) : Upto(d)[b.body[k]] = Means[b.body[k]]
    BY <1>3, <1>4, <2>1
  <2>3. MeaningOf(Upto(d), b) = MeaningOf(Means, b)
    BY <1>2, <2>2, UptoParts, MeaningSame
  <2> QED  BY <1>1, <2>1, <2>3
<1> QED  BY <1>2, <1>5

-----------------------------------------------------------------------------
(* What the stack of a run has yet to do, from its top down.               *)
FrameMeaning(f) == Then(Sequence(Means, f.todo), Repeated(Means, f.body, f.items))

FrameMeanings == [f \in Frames |-> FrameMeaning(f)]
TopDown(stk) == [n \in 1..Len(stk) |-> stk[Len(stk) + 1 - n]]
Remaining(stk) == Chain(Mapped(FrameMeanings, TopDown(stk)))

LEMMA FrameParts ==
  ASSUME NEW f \in Frames
  PROVE  /\ FrameMeaning(f) \in Meanings
         /\ f.todo = <<>> => FrameMeaning(f) = Repeated(Means, f.body, f.items)
         /\ f.items = <<>> => FrameMeaning(f) = Sequence(Means, f.todo)
         /\ f.todo = <<>> /\ f.items = <<>> => FrameMeaning(f) = Still
<1>1. f.todo \in Seq(Blocks) /\ f.body \in Seq(Blocks) /\ f.items \in Seq(Values)
  BY DEF Frames
<1>2. Sequence(Means, f.todo) \in Meanings /\ Repeated(Means, f.body, f.items) \in Meanings
  BY <1>1, MeansParts, SequenceParts, RepeatedParts
<1>3. f.todo = <<>> => Sequence(Means, f.todo) = Still
  BY <1>1, MeansParts, SequenceParts
<1>4. f.items = <<>> => Repeated(Means, f.body, f.items) = Still
  BY <1>1, MeansParts, RepeatedParts
<1> QED  BY <1>2, <1>3, <1>4, ThenType, ThenStill, StillType DEF FrameMeaning

LEMMA FrameStep ==
  ASSUME NEW f \in Frames, f.todo # <<>>
  PROVE  LET g == [f EXCEPT !.todo = Tail(@)] IN
         /\ g \in Frames /\ Head(f.todo) \in Blocks
         /\ FrameMeaning(f) = Then(Means[Head(f.todo)], FrameMeaning(g))
<1>1. f.todo \in Seq(Blocks) /\ f.body \in Seq(Blocks) /\ f.items \in Seq(Values)
  BY DEF Frames
<1>2. Head(f.todo) \in Blocks /\ Tail(f.todo) \in Seq(Blocks)
  BY <1>1, HeadTailProperties
<1>3. PICK g : g = [f EXCEPT !.todo = Tail(@)]
  OBVIOUS
<1>4. g \in Frames /\ g.todo = Tail(f.todo) /\ g.body = f.body /\ g.items = f.items
  BY <1>2, <1>3 DEF Frames
<1>5. PICK m \in Meanings : m = Means[Head(f.todo)]
  BY <1>2, MeansParts
<1>6. PICK t \in Meanings : t = Sequence(Means, Tail(f.todo))
  BY <1>2, MeansParts, SequenceParts
<1>7. PICK w \in Meanings : w = Repeated(Means, f.body, f.items)
  BY <1>1, MeansParts, RepeatedParts
<1>8. Sequence(Means, f.todo) = Then(m, t)
  BY <1>1, <1>5, <1>6, MeansParts, SequenceParts
<1>9. FrameMeaning(f) = Then(Then(m, t), w) /\ FrameMeaning(g) = Then(t, w)
  BY <1>4, <1>6, <1>7, <1>8 DEF FrameMeaning
<1>10. FrameMeaning(f) = Then(m, FrameMeaning(g))
  BY <1>9, ThenThen
<1> QED  BY <1>2, <1>3, <1>4, <1>5, <1>10

LEMMA RemainingParts ==
  ASSUME NEW stk \in Seq(Frames)
  PROVE  /\ Remaining(stk) \in Meanings
         /\ stk = <<>> => Remaining(stk) = Still
<1>1. PICK n \in Nat : n = Len(stk)
  BY LenProperties
<1>2. \A k \in 1..n : n + 1 - k \in 1..n
  OBVIOUS
<1>3. \A k \in 1..n : stk[n + 1 - k] \in Frames
  BY <1>1, <1>2, ElementOfSeq
<1>4. PICK s : s = TopDown(stk)
  OBVIOUS
<1>5. s \in [1..n -> Frames]
  BY <1>1, <1>3, <1>4 DEF TopDown
<1>6. s \in Seq(Frames) /\ Len(s) = n
  BY <1>5
<1>7. FrameMeanings \in [Frames -> Meanings]
  BY FrameParts DEF FrameMeanings
<1>8. stk = <<>> => s = <<>>
  BY <1>1, <1>6, EmptySeq
<1> QED  BY <1>4, <1>6, <1>7, <1>8, ChainOf DEF Remaining

LEMMA RemainingPushed ==
  ASSUME NEW stk \in Seq(Frames), NEW f \in Frames
  PROVE  Remaining(stk \o <<f>>) = Then(FrameMeaning(f), Remaining(stk))
<1>1. PICK n \in Nat : n = Len(stk)
  BY LenProperties
<1>2. PICK t \in Seq(Frames) : t = stk \o <<f>>
  BY Pushed
<1>3. Len(t) = n + 1 /\ t[n + 1] = f /\ \A k \in 1..n : t[k] = stk[k]
  BY <1>1, <1>2
<1>4. PICK s : s = TopDown(t)
  OBVIOUS
<1>5. s = [k \in 1..(n + 1) |-> t[n + 2 - k]]
  <2>1. \A k \in 1..(n + 1) : (n + 1) + 1 - k = n + 2 - k
    OBVIOUS
  <2> QED  BY <1>3, <1>4, <2>1 DEF TopDown
<1>6. \A k \in 1..(n + 1) : n + 2 - k \in 1..(n + 1)
  OBVIOUS
<1>7. \A k \in 1..(n + 1) : t[k] \in Frames
  BY <1>3, ElementOfSeq
<1>8. s \in [1..(n + 1) -> Frames]
  BY <1>5, <1>6, <1>7
<1>9. s \in Seq(Frames) /\ Len(s) = n + 1
  BY <1>8
<1>10. s # <<>>
  BY <1>9, EmptySeq
<1>11. Head(s) = f
  <2>1. 1 \in 1..(n + 1) /\ n + 2 - 1 = n + 1
    OBVIOUS
  <2>2. s[1] = f
    BY <1>3, <1>5, <2>1
  <2> QED  BY <1>9, <1>10, <2>2, HeadTailProperties
<1>12. Tail(s) = TopDown(stk)
  <2>1. PICK u : u = Tail(s)
    OBVIOUS
  <2>2. u \in Seq(Frames) /\ Len(u) = n /\ \A k \in 1..n : u[k] = s[k + 1]
    BY <1>9, <1>10, <2>1, HeadTailProperties
  <2>3. ASSUME NEW k \in 1..n PROVE u[k] = stk[n + 1 - k]
    <3>1. PICK j \in 1..n : j = n + 1 - k
      OBVIOUS
    <3>2. k + 1 \in 1..(n + 1) /\ n + 2 - (k + 1) = j
      BY <3>1
    <3>3. s[k + 1] = t[j]
      BY <1>5, <3>2
    <3> QED  BY <1>3, <2>2, <3>1, <3>3
  <2>4. u = [k \in 1..n |-> u[k]]
    BY <2>2, LenProperties
  <2>5. TopDown(stk) = [k \in 1..n |-> stk[n + 1 - k]]
    BY <1>1 DEF TopDown
  <2> QED  BY <2>1, <2>3, <2>4, <2>5
<1>13. FrameMeanings \in [Frames -> Meanings] /\ FrameMeanings[f] = FrameMeaning(f)
  BY FrameParts DEF FrameMeanings
<1>14. Chain(Mapped(FrameMeanings, s))
         = Then(FrameMeanings[Head(s)], Chain(Mapped(FrameMeanings, Tail(s))))
  BY <1>9, <1>10, <1>13, ChainOf
<1> QED  BY <1>2, <1>4, <1>11, <1>12, <1>13, <1>14 DEF Remaining

LEMMA LastPushed ==
  ASSUME NEW S, NEW s \in Seq(S), s # <<>>
  PROVE  s = SubSeq(s, 1, Len(s) - 1) \o <<s[Len(s)]>>
<1>1. PICK n \in Nat \ {0} : n = Len(s)
  BY EmptySeq, LenProperties
<1>2. PICK x \in S, b \in Seq(S) : x = s[n] /\ b = SubSeq(s, 1, n - 1)
  BY <1>1, LastAndFront
<1>3. Len(b) = n - 1 /\ \A k \in 1..(n - 1) : b[k] = s[k]
  <2>1. \A i \in 1..(n - 1) : s[i] \in S
    BY <1>1, ElementOfSeq
  <2> QED  BY <1>1, <1>2, <2>1, SubSeqProperties
<1>4. PICK t : t = b \o <<x>>
  OBVIOUS
<1>5. /\ t \in Seq(S) /\ Len(t) = n /\ t[n] = x /\ \A k \in 1..(n - 1) : t[k] = b[k]
  BY <1>1, <1>2, <1>3, <1>4
<1>6. \A k \in 1..n : k = n \/ k \in 1..(n - 1)
  OBVIOUS
<1>7. \A k \in 1..n : t[k] = s[k]
  BY <1>2, <1>3, <1>5, <1>6
<1>8. t = s
  BY <1>1, <1>5, <1>7, SeqEqual
<1> QED  BY <1>1, <1>2, <1>4, <1>8

-----------------------------------------------------------------------------
(* The walk keeps to what the file means: whatever may come of the stack,  *)
(* after the lines printed so far, may come of the file.                   *)
Agrees(lines, stk, i, p) == \A o \in Remaining(stk)[i] : After(lines, o) \in Meant[p]

Following(ph, lines, stk, i, p) ==
  /\ ph \in {"starting", "rejected"} => lines = <<>> /\ i = Unset
  /\ ph \in {"ended", "panicked"} => stk = <<>>
  /\ ph \in {"running", "recording", "killed", "ended", "panicked"} => Agrees(lines, stk, i, p)
  /\ ph = "exited" => \E o \in Meant[p] : o.left /\ o.out = lines

Follows == \A r \in Runs : Following(phase[r], said[r], stack[r], item[r], program[r])

LEMMA Consume ==
  ASSUME NEW m \in Meanings, NEW u \in Meanings, NEW w \in Meanings, NEW s \in Seq(Lines),
         NEW i \in Items, NEW j \in Items, \A p \in u[j] : After(s, p) \in m[i],
         NEW o \in Then(u, w)[j]
  PROVE  After(s, o) \in Then(m, w)[i]
<1>1. \/ o \in u[j] /\ o.left
      \/ \E q \in u[j] : ~q.left /\ \E p \in w[q.item] : o = After(q.out, p)
  BY ZenonT(40), ThenParts
<1>2. CASE o \in u[j] /\ o.left
  <2>1. o \in Outcomes
    BY <1>2, MeaningParts
  <2>2. After(s, o) \in m[i] /\ After(s, o).left
    BY <1>2, <2>1, AfterParts
  <2> QED  BY <2>2, ThenParts
<1>3. ASSUME NEW q \in u[j], ~q.left, NEW p \in w[q.item], o = After(q.out, p)
      PROVE  After(s, o) \in Then(m, w)[i]
  <2>1. q \in Outcomes /\ q.item \in Items /\ q.out \in Seq(Lines)
    BY MeaningParts
  <2>2. p \in Outcomes
    BY <2>1, MeaningParts
  <2>3. PICK x : x = After(s, q)
    OBVIOUS
  <2>4. x \in m[i] /\ ~x.left /\ x.item = q.item /\ x.out = s \o q.out
    BY <1>3, <2>1, <2>3, AfterParts
  <2>5. After(x.out, p) \in Then(m, w)[i]
    BY <2>4, ThenParts
  <2>6. After(s, o) = After(x.out, p)
    BY <1>3, <2>1, <2>2, <2>4, AfterAfter
  <2> QED  BY <2>5, <2>6
<1> QED  BY <1>1, <1>2, <1>3

(* The stack of a run that stands at a block, and at the end of a list.    *)
LEMMA StackNow ==
  ASSUME TypeOK, NEW r \in Runs, phase[r] = "running"
  PROVE  /\ Top(r) \in Frames /\ Below(r) \in Seq(Frames) /\ item[r] \in Items
         /\ said[r] \in Seq(Lines) /\ program[r] \in Programs
         /\ Remaining(Below(r)) \in Meanings /\ FrameMeaning(Top(r)) \in Meanings
         /\ Remaining(stack[r]) = Then(FrameMeaning(Top(r)), Remaining(Below(r)))
<1>1. stack[r] \in Seq(Frames) /\ stack[r] # <<>>
  BY DEF TypeOK
<1>2. Top(r) \in Frames /\ Below(r) \in Seq(Frames)
  BY StackParts
<1>3. stack[r] = Below(r) \o <<Top(r)>>
  BY <1>1, LastPushed DEF Top, Below
<1>4. Remaining(stack[r]) = Then(FrameMeaning(Top(r)), Remaining(Below(r)))
  BY <1>2, <1>3, RemainingPushed
<1>5. item[r] \in Items /\ said[r] \in Seq(Lines) /\ program[r] \in Programs
  BY DEF TypeOK, Items
<1> QED  BY <1>2, <1>4, <1>5, RemainingParts, FrameParts

LEMMA BlockNow ==
  ASSUME TypeOK, NEW r \in Runs, Executing(r)
  PROVE  /\ Block(r) \in Blocks /\ Rest(r) \in Seq(Frames)
         /\ Means[Block(r)] \in Meanings /\ Remaining(Rest(r)) \in Meanings
         /\ Remaining(stack[r]) = Then(Means[Block(r)], Remaining(Rest(r)))
<1>1. phase[r] = "running" /\ Top(r).todo # <<>>
  BY DEF Executing
<1>2. /\ Top(r) \in Frames /\ Below(r) \in Seq(Frames) /\ Remaining(Below(r)) \in Meanings
      /\ Remaining(stack[r]) = Then(FrameMeaning(Top(r)), Remaining(Below(r)))
  BY <1>1, StackNow
<1>3. PICK g : g = [Top(r) EXCEPT !.todo = Tail(@)]
  OBVIOUS
<1>4. /\ g \in Frames /\ Block(r) \in Blocks
      /\ FrameMeaning(Top(r)) = Then(Means[Block(r)], FrameMeaning(g))
  BY <1>1, <1>2, <1>3, FrameStep DEF Block
<1>5. Rest(r) = Below(r) \o <<g>>
  BY <1>3 DEF Rest
<1>6. Remaining(Rest(r)) = Then(FrameMeaning(g), Remaining(Below(r)))
  BY <1>2, <1>4, <1>5, RemainingPushed
<1>7. Means[Block(r)] \in Meanings /\ FrameMeaning(g) \in Meanings
  BY <1>4, MeansParts, FrameParts
<1>8. Rest(r) \in Seq(Frames)
  BY BlockParts
<1> QED  BY <1>2, <1>4, <1>6, <1>7, <1>8, ThenThen, RemainingParts

LEMMA AgreesAfter ==
  ASSUME NEW lines \in Seq(Lines), NEW s \in Seq(Lines), NEW stk \in Seq(Frames), NEW i \in Items,
         NEW next \in Seq(Frames), NEW j \in Items, NEW p,
         Agrees(lines, stk, i, p),
         \A o \in Remaining(next)[j] : After(s, o) \in Remaining(stk)[i]
  PROVE  Agrees(lines \o s, next, j, p)
<1>1. ASSUME NEW o \in Remaining(next)[j] PROVE After(lines \o s, o) \in Meant[p]
  <2>1. o \in Outcomes
    BY RemainingParts, MeaningParts
  <2>2. After(lines, After(s, o)) \in Meant[p]
    BY DEF Agrees
  <2> QED  BY <2>1, <2>2, AfterAfter
<1> QED  BY <1>1 DEF Agrees

(* A block is done with, or its children are taken up.                     *)
LEMMA BlockOpened ==
  ASSUME TypeOK, NEW r \in Runs, Executing(r), Agrees(said[r], stack[r], item[r], program[r]),
         NEW s \in Seq(Lines), NEW f \in Frames,
         \A p \in FrameMeaning(f)[item[r]] : After(s, p) \in Means[Block(r)][item[r]]
  PROVE  Agrees(said[r] \o s, Rest(r) \o <<f>>, item[r], program[r])
<1>1. phase[r] = "running" /\ stack[r] \in Seq(Frames)
  BY DEF Executing, TypeOK
<1>2. PICK i \in Items : i = item[r]
  BY <1>1, StackNow
<1>3. PICK m \in Meanings : m = Means[Block(r)]
  BY BlockNow
<1>4. PICK w \in Meanings : w = Remaining(Rest(r))
  BY BlockNow
<1>5. PICK u \in Meanings : u = FrameMeaning(f)
  BY FrameParts
<1>6. Rest(r) \in Seq(Frames) /\ Rest(r) \o <<f>> \in Seq(Frames)
  BY BlockNow, Pushed
<1>7. Remaining(Rest(r) \o <<f>>) = Then(u, w) /\ Remaining(stack[r]) = Then(m, w)
  BY <1>3, <1>4, <1>5, <1>6, BlockNow, RemainingPushed
<1>8. \A p \in u[i] : After(s, p) \in m[i]
  BY <1>2, <1>3, <1>5
<1>9. \A o \in Then(u, w)[i] : After(s, o) \in Then(m, w)[i]
  BY <1>8, Consume
<1>10. said[r] \in Seq(Lines)
  BY DEF TypeOK
<1> QED  BY <1>1, <1>2, <1>6, <1>7, <1>9, <1>10, AgreesAfter

LEMMA BlockGone ==
  ASSUME TypeOK, NEW r \in Runs, Executing(r), Agrees(said[r], stack[r], item[r], program[r]),
         NEW s \in Seq(Lines), Outcome(s, item[r], FALSE) \in Means[Block(r)][item[r]]
  PROVE  Agrees(said[r] \o s, Rest(r), item[r], program[r])
<1>1. phase[r] = "running" /\ stack[r] \in Seq(Frames) /\ said[r] \in Seq(Lines)
  BY DEF Executing, TypeOK
<1>2. PICK i \in Items : i = item[r]
  BY <1>1, StackNow
<1>3. PICK m \in Meanings : m = Means[Block(r)]
  BY BlockNow
<1>4. PICK w \in Meanings : w = Remaining(Rest(r))
  BY BlockNow
<1>5. ASSUME NEW p \in Still[i] PROVE After(s, p) \in m[i]
  <2>1. p = Outcome(<<>>, i, FALSE) /\ s \o <<>> = s
    BY <1>5 DEF Still
  <2>2. After(s, p) = Outcome(s, i, FALSE)
    BY <2>1 DEF After, Outcome
  <2> QED  BY <1>2, <1>3, <2>2
<1>6. Then(Still, w) = w /\ Remaining(stack[r]) = Then(m, w)
  BY <1>3, <1>4, BlockNow, ThenStill
<1>7. \A o \in w[i] : After(s, o) \in Then(m, w)[i]
  BY <1>5, <1>6, StillType, Consume
<1> QED  BY <1>1, <1>2, <1>4, <1>6, <1>7, BlockNow, AgreesAfter

-----------------------------------------------------------------------------
(* Step by step.                                                           *)
Others(r) ==
  \A q \in Runs \ {r} : /\ phase'[q] = phase[q] /\ said'[q] = said[q]
                        /\ stack'[q] = stack[q] /\ item'[q] = item[q]

LEMMA FollowsIf ==
  ASSUME Follows, NEW r \in Runs, program' = program, Others(r),
         Following(phase'[r], said'[r], stack'[r], item'[r], program[r])
  PROVE  Follows'
<1>1. ASSUME NEW q \in Runs
      PROVE  Following(phase'[q], said'[q], stack'[q], item'[q], program'[q])
  <2>1. CASE q = r
    BY <2>1
  <2>2. CASE q # r
    BY <2>2 DEF Others, Follows
  <2> QED  BY <2>1, <2>2
<1> QED  BY <1>1 DEF Follows

LEMMA Walking ==
  ASSUME Follows, NEW r \in Runs, phase[r] \in {"running", "recording"}
  PROVE  Agrees(said[r], stack[r], item[r], program[r])
BY DEF Follows, Following

LEMMA WalksOn ==
  ASSUME NEW ph \in {"running", "recording"}, NEW lines, NEW stk, NEW i, NEW p, Agrees(lines, stk, i, p)
  PROVE  Following(ph, lines, stk, i, p)
BY DEF Following

(* What the model evaluates is what the semantics says.                    *)
LEMMA Evaluated ==
  ASSUME NEW r \in Runs
  PROVE  /\ \A e : evalExpr(r, e) = Yields(e, item[r]) /\ eval(r, e) = Shown(e, item[r])
         /\ Conditions(r) = Guards(Block(r), item[r])
<1>1. \A e : evalExpr(r, e) = Yields(e, item[r])
  BY DEF evalExpr, Yields
<1> QED  BY <1>1 DEF eval, Shown, Conditions, Guards

LEMMA SkipFollows ==
  ASSUME TypeOK, Follows, NEW r \in Runs, Skip(r)
  PROVE  Follows'
<1>1. Executing(r) /\ Conditions(r) \cap {Error, False} # {}
  BY DEF Skip
<1>2. /\ program' = program /\ Others(r) /\ phase'[r] = "running" /\ item'[r] = item[r]
      /\ said'[r] = said[r] \o Asking(Block(r).when) /\ stack'[r] = Rest(r)
  BY DEF Skip, Advance, Asked, TypeOK, Others, Executing
<1>3. phase[r] = "running" /\ Block(r) \in Blocks /\ item[r] \in Items
  BY <1>1, BlockNow, StackNow DEF Executing
<1>4. Outcome(Asking(Block(r).when), item[r], FALSE) \in Means[Block(r)][item[r]]
  <2>1. PICK b \in Blocks : b = Block(r)
    BY <1>3
  <2>2. PICK i \in Items : i = item[r]
    BY <1>3
  <2>3. Guards(b, i) \cap {Error, False} # {}
    BY <1>1, <2>1, <2>2, Evaluated
  <2>4. Outcome(Asking(b.when), i, FALSE) \in MeaningOf(Means, b)[i]
    BY <2>3, MeaningIs, MeansParts
  <2> QED  BY <2>1, <2>2, <2>4, MeansParts
<1>5. Agrees(said[r] \o Asking(Block(r).when), Rest(r), item[r], program[r])
  BY <1>1, <1>3, <1>4, Walking, AskingType, BlockGone
<1> QED  BY <1>2, <1>5, WalksOn, FollowsIf

(* A block whose condition lets it pass does what it does.                 *)
LEMMA PassesDoes ==
  ASSUME TypeOK, NEW r \in Runs, NEW types, Passes(r, types)
  PROVE  /\ Executing(r) /\ phase[r] = "running" /\ Block(r) \in Blocks /\ Block(r).type \in types
         /\ item[r] \in Items /\ said[r] \in Seq(Lines) /\ program[r] \in Programs
         /\ \A p \in Does(Means, Block(r), item[r]) :
              After(Asking(Block(r).when), p) \in Means[Block(r)][item[r]]
<1>1. Executing(r) /\ Block(r).type \in types /\ Conditions(r) \ {Error, False} # {}
  BY DEF Passes
<1>2. phase[r] = "running"
  BY <1>1 DEF Executing
<1>3. Block(r) \in Blocks /\ item[r] \in Items /\ said[r] \in Seq(Lines) /\ program[r] \in Programs
  BY <1>1, <1>2, BlockNow, StackNow
<1>4. PICK b \in Blocks : b = Block(r)
  BY <1>3
<1>5. PICK i \in Items : i = item[r]
  BY <1>3
<1>6. Guards(b, i) \ {Error, False} # {}
  BY <1>1, <1>4, <1>5, Evaluated
<1>7. \A p \in Does(Means, b, i) : After(Asking(b.when), p) \in MeaningOf(Means, b)[i]
  BY <1>6, MeaningIs, MeansParts
<1> QED  BY <1>1, <1>2, <1>3, <1>4, <1>5, <1>7, MeansParts

(* text, widget and image.                                                 *)
Prints(r, l) ==
  /\ program' = program /\ Others(r) /\ phase'[r] \in {"running", "recording"}
  /\ said'[r] = Asked(r) \o Asking(Block(r).expr) \o <<l>>
  /\ stack'[r] = Rest(r) /\ item'[r] = item[r]

LEMMA PrintFollows ==
  ASSUME TypeOK, Follows, NEW r \in Runs, NEW types \in SUBSET {"text", "widget", "image"},
         Passes(r, types), NEW v \in eval(r, Block(r).expr),
         NEW l, l = Line(v, Block(r).type = "text"),
         Prints(r, l)
  PROVE  Follows'
<1>1. PICK b \in Blocks, i \in Items : b = Block(r) /\ i = item[r]
  BY PassesDoes
<1>2. PICK s \in Seq(Lines) : s = Asking(b.when)
  BY AskingType
<1>3. PICK t \in Seq(Lines) : t = Asking(b.expr)
  BY AskingType
<1>4. PICK w \in Seq(Lines) : w = said[r]
  BY PassesDoes
<1>5. v \in Shown(b.expr, i)
  BY <1>1, Evaluated
<1>6. l \in Lines
  <2>1. v \in Texts
    BY <1>5, YieldsParts
  <2> QED  BY <2>1 DEF Line, Lines
<1>7. <<l>> \in Seq(Lines)
  BY <1>6
<1>8. PICK u \in Seq(Lines) : u = t \o <<l>>
  <2>1. t \o <<l>> \in Seq(Lines)
    BY <1>7, ConcatProperties
  <2> QED  BY <2>1
<1>9. PICK p : p = Outcome(u, i, FALSE)
  OBVIOUS
<1>10. p \in Printing(b, i)
  BY <1>1, <1>3, <1>5, <1>8, <1>9 DEF Printing
<1>11. p \in Does(Means, b, i)
  <2>1. b.type \in {"text", "widget", "image"}
    BY <1>1, PassesDoes
  <2> QED  BY <1>10, <2>1 DEF Does
<1>12. After(s, p) \in Means[b][i]
  BY <1>1, <1>2, <1>11, PassesDoes
<1>13. After(s, p) = Outcome(s \o u, i, FALSE)
  BY <1>9 DEF After, Outcome
<1>14. Agrees(w \o (s \o u), Rest(r), i, program[r])
  <2>1. s \o u \in Seq(Lines)
    OBVIOUS
  <2>2. Executing(r) /\ Agrees(said[r], stack[r], item[r], program[r])
    BY PassesDoes, Walking
  <2> QED  BY <1>1, <1>4, <1>12, <1>13, <2>1, <2>2, BlockGone
<1>15. said'[r] = w \o (s \o u)
  <2>1. said'[r] = LeftFirst(w, s, t, <<l>>)
    BY <1>1, <1>2, <1>3, <1>4 DEF Asked, Prints, LeftFirst
  <2>2. \A y \in Seq(Lines) : LeftFirst(w, s, t, y) = RightFirst(w, s, t, y)
    BY FourInARow
  <2> QED  BY <1>7, <1>8, <2>1, <2>2 DEF RightFirst
<1> QED  BY <1>1, <1>14, <1>15, WalksOn, FollowsIf DEF Prints

LEMMA RenderTextFollows ==
  ASSUME TypeOK, Follows, NEW r \in Runs, RenderText(r)
  PROVE  Follows'
<1>1. Passes(r, {"text"})
  BY DEF RenderText
<1>2. PICK v \in eval(r, Block(r).expr) :
        said' = [said EXCEPT ![r] = Asked(r) \o Asking(Block(r).expr) \o <<Line(v, TRUE)>>]
  BY DEF RenderText
<1>3. PICK l : l = Line(v, TRUE)
  OBVIOUS
<1>4. l = Line(v, Block(r).type = "text")
  BY <1>1, <1>3 DEF Passes
<1>5. Prints(r, l)
  BY <1>2, <1>3 DEF RenderText, Advance, TypeOK, Others, Prints
<1> QED  BY <1>1, <1>4, <1>5, PrintFollows

LEMMA ShowFollows ==
  ASSUME TypeOK, Follows, NEW r \in Runs, Show(r)
  PROVE  Follows'
<1>1. Passes(r, {"widget", "image"}) /\ phase[r] = "running"
  BY DEF Show, Passes, Executing
<1>2. PICK v \in eval(r, Block(r).expr) :
        said' = [said EXCEPT ![r] = Asked(r) \o Asking(Block(r).expr) \o <<Line(v, FALSE)>>]
  BY DEF Show
<1>3. PICK l : l = Line(v, FALSE)
  OBVIOUS
<1>4. l = Line(v, Block(r).type = "text")
  BY <1>1, <1>3 DEF Passes
<1>5. Prints(r, l)
  BY <1>1, <1>2, <1>3 DEF Show, Advance, TypeOK, Others, Prints
<1> QED  BY <1>1, <1>4, <1>5, PrintFollows

(* The frame of the children of a block.                                   *)
LEMMA ChildrenFrame ==
  ASSUME NEW body \in Seq(Blocks), NEW f, f = Frame(body, <<>>, <<>>)
  PROVE  f \in Frames /\ FrameMeaning(f) = Sequence(Means, body)
<1>1. f.todo = body /\ f.body = <<>> /\ f.items = <<>>
  BY DEF Frame
<1>2. f \in Frames
  BY DEF Frame, Frames
<1> QED  BY <1>1, <1>2, FrameParts

LEMMA ContainFollows ==
  ASSUME TypeOK, Follows, NEW r \in Runs, Contain(r)
  PROVE  Follows'
<1>1. Passes(r, {"container"})
  BY DEF Contain
<1>2. PICK b \in Blocks, i \in Items : b = Block(r) /\ i = item[r]
  BY <1>1, PassesDoes
<1>3. PICK s \in Seq(Lines) : s = Asking(b.when)
  BY AskingType
<1>4. PICK f : f = Frame(b.body, <<>>, <<>>)
  OBVIOUS
<1>5. f \in Frames /\ FrameMeaning(f) = Sequence(Means, b.body)
  BY <1>4, InterpreterAssumption, ChildrenFrame
<1>6. /\ program' = program /\ Others(r) /\ phase'[r] = "running" /\ item'[r] = item[r]
      /\ said'[r] = said[r] \o s /\ stack'[r] = Rest(r) \o <<f>>
  BY <1>1, <1>2, <1>3, <1>4 DEF Contain, Push, Asked, TypeOK, Others, Passes, Executing
<1>7. Does(Means, b, i) = Sequence(Means, b.body)[i]
  <2>1. b.type = "container"
    BY <1>1, <1>2, PassesDoes
  <2> QED  BY <2>1 DEF Does
<1>8. \A p \in FrameMeaning(f)[i] : After(s, p) \in Means[b][i]
  BY <1>1, <1>2, <1>3, <1>5, <1>7, PassesDoes
<1>9. Agrees(said[r] \o s, Rest(r) \o <<f>>, item[r], program[r])
  <2>1. Executing(r) /\ Agrees(said[r], stack[r], item[r], program[r])
    BY <1>1, PassesDoes, Walking
  <2> QED  BY <1>2, <1>5, <1>8, <2>1, BlockOpened
<1> QED  BY <1>6, <1>9, WalksOn, FollowsIf

LEMMA WhenFollows ==
  ASSUME TypeOK, Follows, NEW r \in Runs, When(r)
  PROVE  Follows'
<1>1. Passes(r, {"when"})
  BY DEF When
<1>2. PICK b \in Blocks, i \in Items : b = Block(r) /\ i = item[r]
  BY <1>1, PassesDoes
<1>3. PICK s \in Seq(Lines) : s = Asking(b.when)
  BY AskingType
<1>4. PICK t \in Seq(Lines) : t = Asking(b.expr)
  BY AskingType
<1>5. PICK f : f = Frame(b.body, <<>>, <<>>)
  OBVIOUS
<1>6. f \in Frames /\ FrameMeaning(f) = Sequence(Means, b.body)
  BY <1>5, InterpreterAssumption, ChildrenFrame
<1>7. PICK v \in evalExpr(r, b.expr) : IF v = True THEN Push(r, f) ELSE Advance(r)
  BY <1>2, <1>5 DEF When
<1>8. v \in Yields(b.expr, i)
  BY <1>2, <1>7, Evaluated
<1>9. /\ program' = program /\ Others(r) /\ phase'[r] = "running" /\ item'[r] = item[r]
      /\ said'[r] = (said[r] \o s) \o t
      /\ stack'[r] = IF v = True THEN Rest(r) \o <<f>> ELSE Rest(r)
  BY <1>1, <1>2, <1>3, <1>4, <1>7 DEF When, Push, Advance, Asked, TypeOK, Others, Passes, Executing
<1>10. PICK w \in Seq(Lines) : w = said[r]
  BY <1>1, PassesDoes
<1>11. PICK u \in Seq(Lines) : u = s \o t
  <2>1. s \o t \in Seq(Lines)
    BY ConcatProperties
  <2> QED  BY <2>1
<1>12. said'[r] = said[r] \o u
  <2>1. (w \o s) \o t = w \o (s \o t)
    BY SMTT(20), LinesAssociative
  <2>2. said'[r] = (w \o s) \o t
    BY <1>9, <1>10
  <2> QED  BY <1>10, <1>11, <2>1, <2>2
<1>13. Does(Means, b, i) = Exits(b.expr, i) \cup Choosing(Means, b, i)
  <2>1. b.type = "when"
    BY <1>1, <1>2, PassesDoes
  <2> QED  BY <2>1 DEF Does
<1>14. \A p \in Choosing(Means, b, i) : After(s, p) \in Means[b][i]
  BY <1>1, <1>2, <1>3, <1>13, PassesDoes
<1>15. Executing(r) /\ Agrees(said[r], stack[r], item[r], program[r])
  BY <1>1, PassesDoes, Walking
<1>16. CASE v = True
  <2>1. ASSUME NEW p \in FrameMeaning(f)[i] PROVE After(u, p) \in Means[b][i]
    <3>1. p \in Outcomes
      BY <1>6, FrameParts, MeaningParts
    <3>2. After(t, p) \in Choosing(Means, b, i)
      BY ZenonT(40), <1>4, <1>6, <1>8, <1>16 DEF Choosing
    <3>3. After(s, After(t, p)) = After(u, p)
      BY <1>11, <3>1, AfterAfter
    <3> QED  BY <1>14, <3>2, <3>3
  <2>2. Agrees(said[r] \o u, Rest(r) \o <<f>>, item[r], program[r])
    BY <1>2, <1>6, <1>15, <2>1, BlockOpened
  <2> QED  BY <1>9, <1>12, <1>16, <2>2, WalksOn, FollowsIf
<1>17. CASE v # True
  <2>1. Outcome(t, i, FALSE) \in Choosing(Means, b, i)
    BY <1>4, <1>8, <1>17 DEF Choosing
  <2>2. After(s, Outcome(t, i, FALSE)) = Outcome(u, i, FALSE)
    BY <1>11 DEF After, Outcome
  <2>3. Outcome(u, i, FALSE) \in Means[b][i]
    BY <1>14, <2>1, <2>2
  <2>4. Agrees(said[r] \o u, Rest(r), item[r], program[r])
    BY <1>2, <1>15, <2>3, BlockGone
  <2> QED  BY <1>9, <1>12, <1>17, <2>4, WalksOn, FollowsIf
<1> QED  BY <1>16, <1>17

LEMMA LoopFollows ==
  ASSUME TypeOK, Follows, NEW r \in Runs, Loop(r)
  PROVE  Follows'
<1>1. Passes(r, {"loop"})
  BY DEF Loop
<1>2. PICK b \in Blocks, i \in Items : b = Block(r) /\ i = item[r]
  BY <1>1, PassesDoes
<1>3. PICK s \in Seq(Lines) : s = Asking(b.when)
  BY AskingType
<1>4. /\ program' = program /\ Others(r) /\ phase'[r] = "running" /\ item'[r] = item[r]
      /\ said'[r] = said[r] \o s
      /\ stack'[r] = IF b.expr \in Lists THEN Rest(r) \o <<Frame(<<>>, b.body, Elements[b.expr])>>
                                         ELSE Rest(r)
  BY <1>1, <1>2, <1>3 DEF Loop, Push, Advance, Asked, TypeOK, Others, Passes, Executing
<1>5. b.type = "loop"
  BY <1>1, <1>2, PassesDoes
<1>6. \A p \in Does(Means, b, i) : After(s, p) \in Means[b][i]
  BY <1>1, <1>2, <1>3, PassesDoes
<1>7. Executing(r) /\ Agrees(said[r], stack[r], item[r], program[r])
  BY <1>1, PassesDoes, Walking
<1>8. CASE b.expr \in Lists
  <2>1. PICK e \in Seq(Values) : e = Elements[b.expr]
    BY <1>8, InterpreterAssumption
  <2>2. PICK f : f = Frame(<<>>, b.body, e)
    OBVIOUS
  <2>3. b.body \in Seq(Blocks)
    BY InterpreterAssumption
  <2>4. f \in Frames /\ f.todo = <<>> /\ f.body = b.body /\ f.items = e
    BY <2>2, <2>3 DEF Frame, Frames
  <2>5. FrameMeaning(f) = Repeated(Means, b.body, e)
    BY <2>4, FrameParts
  <2>6. Does(Means, b, i) = Repeated(Means, b.body, e)[i]
    BY <1>5, <1>8, <2>1 DEF Does
  <2>7. Agrees(said[r] \o s, Rest(r) \o <<f>>, item[r], program[r])
    BY <1>2, <1>6, <1>7, <2>4, <2>5, <2>6, BlockOpened
  <2>8. stack'[r] = Rest(r) \o <<f>>
    BY <1>4, <1>8, <2>1, <2>2
  <2> QED  BY <1>4, <2>7, <2>8, WalksOn, FollowsIf
<1>9. CASE b.expr \notin Lists
  <2>1. PICK p : p = Outcome(<<>>, i, FALSE)
    OBVIOUS
  <2>2. p \in Does(Means, b, i)
    BY <1>5, <1>9, <2>1 DEF Does
  <2>3. s \o <<>> = s
    OBVIOUS
  <2>4. After(s, p) = Outcome(s, i, FALSE)
    BY <2>1, <2>3 DEF After, Outcome
  <2>5. Outcome(s, i, FALSE) \in Means[b][i]
    BY <1>6, <2>2, <2>4
  <2>6. Agrees(said[r] \o s, Rest(r), item[r], program[r])
    BY <1>2, <1>7, <2>5, BlockGone
  <2> QED  BY <1>4, <1>9, <2>6, WalksOn, FollowsIf
<1> QED  BY <1>8, <1>9

(* The next pass of a loop.                                                *)
LEMMA NextItemFollows ==
  ASSUME TypeOK, Follows, NEW r \in Runs, NextItem(r)
  PROVE  Follows'
<1>1. phase[r] = "running" /\ Top(r).todo = <<>> /\ Top(r).items # <<>>
  BY DEF NextItem
<1>2. PICK f \in Frames : f = Top(r)
  BY <1>1, StackNow
<1>3. PICK k \in Seq(Frames) : k = Below(r)
  BY <1>1, StackNow
<1>4. PICK i \in Items : i = item[r]
  BY <1>1, StackNow
<1>5. f.body \in Seq(Blocks) /\ f.items \in Seq(Values)
  BY DEF Frames
<1>6. PICK v \in Values : v = Head(f.items)
  BY <1>1, <1>2, <1>5, HeadTailProperties
<1>7. PICK e \in Seq(Values) : e = Tail(f.items)
  BY <1>1, <1>2, <1>5, HeadTailProperties
<1>8. PICK g : g = Frame(f.body, f.body, e)
  OBVIOUS
<1>9. g \in Frames /\ g.todo = f.body /\ g.body = f.body /\ g.items = e
  BY <1>5, <1>8 DEF Frame, Frames
<1>10. /\ program' = program /\ Others(r) /\ phase'[r] = "running" /\ item'[r] = v
       /\ said'[r] = said[r] /\ stack'[r] = k \o <<g>>
  BY <1>1, <1>2, <1>3, <1>6, <1>7, <1>8 DEF NextItem, TypeOK, Others
<1>11. PICK m \in Meanings : m = Pass(Means, f.body, v)
  BY <1>5, MeansParts, PassParts
<1>12. PICK u \in Meanings : u = Sequence(Means, f.body)
  BY <1>5, MeansParts, SequenceParts
<1>13. PICK w \in Meanings : w = Repeated(Means, f.body, e)
  BY <1>5, MeansParts, RepeatedParts
<1>14. PICK x \in Meanings : x = Remaining(k)
  BY RemainingParts
<1>15. FrameMeaning(f) = Then(m, w)
  <2>1. Repeated(Means, f.body, f.items) = Then(m, w)
    BY <1>1, <1>2, <1>5, <1>6, <1>7, <1>11, <1>13, MeansParts, RepeatedParts
  <2> QED  BY <1>1, <1>2, <2>1, FrameParts
<1>16. FrameMeaning(g) = Then(u, w)
  BY <1>9, <1>12, <1>13 DEF FrameMeaning
<1>17. PICK wx \in Meanings : wx = Then(w, x)
  BY ThenType
<1>18. Remaining(stack[r]) = Then(m, wx) /\ Remaining(k \o <<g>>) = Then(u, wx)
  <2>1. Remaining(stack[r]) = Then(Then(m, w), x)
    BY <1>1, <1>2, <1>3, <1>14, <1>15, StackNow
  <2>2. Remaining(k \o <<g>>) = Then(Then(u, w), x)
    BY <1>9, <1>14, <1>16, RemainingPushed
  <2> QED  BY <1>17, <2>1, <2>2, ThenThen
<1>19. v \in Items /\ \A p \in u[v] : After(<<>>, p) \in m[i]
  <2>1. v \in Items
    BY DEF Items
  <2>2. m[i] = u[v]
    BY <1>5, <1>11, <1>12, MeansParts, PassParts
  <2>3. \A p \in u[v] : After(<<>>, p) = p
    BY <2>1, AfterNothing, MeaningParts
  <2> QED  BY <2>1, <2>2, <2>3
<1>20. \A o \in Remaining(k \o <<g>>)[v] : After(<<>>, o) \in Remaining(stack[r])[i]
  <2>1. <<>> \in Seq(Lines)
    OBVIOUS
  <2> QED  BY <1>18, <1>19, <2>1, Consume
<1>21. Agrees(said[r], k \o <<g>>, v, program[r])
  <2>1. \A o \in Remaining(k \o <<g>>)[v] : After(<<>>, o) = o
    BY <1>9, <1>19, RemainingParts, Pushed, MeaningParts, AfterNothing
  <2>2. Agrees(said[r], stack[r], i, program[r])
    BY <1>1, <1>4, Walking
  <2> QED  BY <1>20, <2>1, <2>2 DEF Agrees
<1> QED  BY <1>10, <1>21, WalksOn, FollowsIf

(* The end of a list, and of the file.                                     *)
LEMMA ReturnFollows ==
  ASSUME TypeOK, Follows, NEW r \in Runs, Return(r)
  PROVE  Follows'
<1>1. phase[r] = "running" /\ Top(r).todo = <<>> /\ Top(r).items = <<>>
  BY DEF Return
<1>2. /\ program' = program /\ Others(r) /\ item'[r] = item[r] /\ said'[r] = said[r]
      /\ stack'[r] = Below(r)
      /\ \/ phase'[r] = "running"
         \/ phase'[r] \in {"ended", "panicked"} /\ Below(r) = <<>>
  BY DEF Return, TypeOK, Others
<1>3. Remaining(stack[r]) = Remaining(Below(r))
  <2>1. FrameMeaning(Top(r)) = Still
    BY <1>1, StackNow, FrameParts
  <2> QED  BY <1>1, <2>1, StackNow, ThenStill
<1>4. Agrees(said[r], Below(r), item[r], program[r])
  BY <1>1, <1>3, Walking DEF Agrees
<1>5. Following(phase'[r], said'[r], stack'[r], item'[r], program[r])
  BY <1>2, <1>4 DEF Following
<1> QED  BY <1>2, <1>5, FollowsIf

(* A run that leaves has printed what it may print before it leaves.       *)
LEMMA ExitFollows ==
  ASSUME TypeOK, Follows, NEW r \in Runs, Exit(r)
  PROVE  Follows'
<1>1. Executing(r)
  BY DEF Exit, Passes
<1>2. PICK b \in Blocks : b = Block(r)
  BY <1>1, BlockNow
<1>3. phase[r] = "running"
  BY <1>1 DEF Executing
<1>4. PICK i \in Items : i = item[r]
  BY <1>3, StackNow
<1>5. PICK s \in Seq(Lines) : s = Asking(b.when)
  BY AskingType
<1>6. PICK p : p = Outcome(<<>>, i, TRUE)
  OBVIOUS
<1>7. p \in Outcomes /\ p.out = <<>> /\ p.left
  <2>1. <<>> \in Seq(Lines)
    OBVIOUS
  <2> QED  BY <1>6, <2>1, OutcomeType
<1>8. After(s, p) \in Means[b][i]
  <2>1. CASE b.when = ExitCall
    <3>1. p \in Exits(b.when, i)
      BY <1>6, <2>1 DEF Exits
    <3>2. After(s, p) \in MeaningOf(Means, b)[i]
      BY <1>5, <3>1, MeaningIs, MeansParts
    <3> QED  BY <3>2, MeansParts
  <2>2. CASE Passes(r, {"text", "image", "when"}) /\ b.expr = ExitCall
    <3>1. p \in Exits(b.expr, i)
      BY <1>6, <2>2 DEF Exits
    <3>2. b.type \in {"text", "image", "when"}
      BY <1>2, <2>2, PassesDoes
    <3>3. p \in Does(Means, b, i)
      BY <3>1, <3>2 DEF Does
    <3> QED  BY <1>2, <1>4, <1>5, <2>2, <3>3, PassesDoes
  <2> QED  BY <1>2, <2>1, <2>2 DEF Exit
<1>9. PICK x : x = After(s, p)
  OBVIOUS
<1>10. x \in Outcomes /\ x.out = s /\ x.left
  <2>1. s \o <<>> = s
    OBVIOUS
  <2> QED  BY <1>7, <1>9, <2>1, AfterParts
<1>11. x \in Remaining(stack[r])[i]
  <2>1. PICK m \in Meanings : m = Means[b]
    BY MeansParts
  <2>2. PICK w \in Meanings : w = Remaining(Rest(r))
    BY <1>1, BlockNow
  <2>3. x \in Then(m, w)[i]
    BY <1>8, <1>9, <1>10, <2>1, ThenParts
  <2> QED  BY <1>1, <1>2, <2>1, <2>2, <2>3, BlockNow
<1>12. After(said[r], x) \in Meant[program[r]]
  BY <1>3, <1>4, <1>11, Walking DEF Agrees
<1>13. After(said[r], x).left /\ After(said[r], x).out = said[r] \o s
  BY ZenonT(40), <1>3, <1>10, StackNow, AfterParts
<1>14. /\ program' = program /\ Others(r) /\ phase'[r] = "exited"
       /\ said'[r] = said[r] \o s /\ stack'[r] = stack[r] /\ item'[r] = item[r]
  BY <1>2, <1>5 DEF Exit, Asked, TypeOK, Others, walkVars
<1>15. Following(phase'[r], said'[r], stack'[r], item'[r], program[r])
  BY <1>12, <1>13, <1>14 DEF Following
<1> QED  BY <1>14, <1>15, FollowsIf

LEMMA MainFollows ==
  ASSUME TypeOK, Follows, NEW r \in Runs, main(r)
  PROVE  Follows'
<1>1. phase[r] = "starting" /\ said[r] = <<>> /\ item[r] = Unset
  BY DEF main, Follows, Following
<1>2. PICK f : f = Frame(program[r], <<>>, <<>>)
  OBVIOUS
<1>3. /\ program' = program /\ Others(r) /\ said'[r] = said[r] /\ item'[r] = item[r]
      /\ \/ phase'[r] = "running" /\ stack'[r] = <<f>>
         \/ phase'[r] = "rejected"
  BY <1>2 DEF main, TypeOK, Others
<1>4. PICK p \in Programs : p = program[r]
  BY DEF TypeOK
<1>5. p \in Seq(Blocks)
  BY InterpreterAssumption
<1>6. PICK m \in Meanings : m = Sequence(Means, p)
  BY <1>5, MeansParts, SequenceParts
<1>7. f \in Frames /\ FrameMeaning(f) = m
  BY <1>2, <1>4, <1>5, <1>6, ChildrenFrame
<1>8. Remaining(<<f>>) = m
  <2>0. <<>> \in Seq(Frames)
    BY EmptySeq
  <2>1. PICK k \in Seq(Frames) : k = <<>>
    BY ONLY <2>0
  <2>2. k \o <<f>> = <<f>>
    BY <1>7, <2>1
  <2>3. Remaining(k \o <<f>>) = Then(m, Still)
    BY <1>7, <2>1, RemainingPushed, RemainingParts
  <2> QED  BY <2>2, <2>3, ThenStill
<1>9. Agrees(<<>>, <<f>>, Unset, p)
  <2>1. Unset \in Items /\ Meant[p] = m[Unset]
    BY <1>6 DEF Items, Meant
  <2>2. \A o \in m[Unset] : After(<<>>, o) = o
    BY <2>1, AfterNothing, MeaningParts
  <2> QED  BY <1>8, <2>1, <2>2 DEF Agrees
<1>10. Following(phase'[r], said'[r], stack'[r], item'[r], program[r])
  BY <1>1, <1>3, <1>4, <1>9 DEF Following
<1> QED  BY <1>3, <1>10, FollowsIf

(* Recording and being killed neither print nor walk.                      *)
LEMMA RecordKillFollows ==
  ASSUME TypeOK, Follows, NEW r \in Runs, Record(r) \/ Kill(r)
  PROVE  Follows'
<1>1. /\ program' = program /\ Others(r) /\ phase[r] \in {"running", "recording"}
      /\ phase'[r] \in {"running", "killed"}
      /\ said'[r] = said[r] /\ stack'[r] = stack[r] /\ item'[r] = item[r]
  BY DEF Record, Kill, TypeOK, Others, walkVars
<1>2. Following(phase'[r], said'[r], stack'[r], item'[r], program[r])
  BY <1>1, Walking DEF Following
<1> QED  BY <1>1, <1>2, FollowsIf

LEMMA FollowsStep == TypeOK /\ Follows /\ [Next]_vars => Follows'
<1> SUFFICES ASSUME TypeOK, Follows, [Next]_vars PROVE Follows'
  OBVIOUS
<1>1. CASE UNCHANGED vars
  BY <1>1 DEF vars, walkVars, Follows
<1>2. ASSUME NEW r \in Runs, main(r) \/ execute(r) \/ Return(r) \/ Exit(r) \/ Kill(r)
      PROVE  Follows'
  BY <1>2, MainFollows, ReturnFollows, ExitFollows, RecordKillFollows, SkipFollows,
     RenderTextFollows, ShowFollows, ContainFollows, WhenFollows, LoopFollows, NextItemFollows
     DEF execute
<1> QED  BY <1>1, <1>2 DEF Next

LEMMA FollowsCorrect == Spec => [](TypeOK /\ Follows)
<1>1. Init => Follows
  BY DEF Init, Follows, Following
<1> QED  BY <1>1, FollowsStep, TypeCorrect, PTL DEF Spec

(***************************************************************************)
(* execute and Run of interpreter.go print what the file means, whatever   *)
(* its blocks, their nesting, the lists and the answers of plugins.        *)
(***************************************************************************)
THEOREM PrintsWhatIsMeant == Spec => []OutputAsWritten
<1>1. TypeOK /\ Follows => OutputAsWritten
  <2> SUFFICES ASSUME TypeOK, Follows, NEW r \in Runs
               PROVE  /\ \E o \in Meant[program[r]] : Begins(said[r], o)
                      /\ phase[r] \in {"ended", "panicked"} =>
                           \E o \in Meant[program[r]] : ~o.left /\ o.out = said[r]
                      /\ phase[r] = "exited" =>
                           \E o \in Meant[program[r]] : o.left /\ o.out = said[r]
    BY DEF OutputAsWritten
  <2>1. PICK s \in Seq(Lines) : s = said[r]
    BY DEF TypeOK
  <2>2. PICK i \in Items : i = item[r]
    BY DEF TypeOK, Items
  <2>3. PICK k \in Seq(Frames) : k = stack[r]
    BY DEF TypeOK
  <2>4. PICK p \in Programs : p = program[r]
    BY DEF TypeOK
  <2>5. Following(phase[r], s, k, i, p)
    BY <2>1, <2>2, <2>3, <2>4 DEF Follows
  <2>6. Meant[p] \subseteq Outcomes /\ Meant[p] # {}
    <3>1. p \in Seq(Blocks) /\ Unset \in Items
      BY InterpreterAssumption DEF Items
    <3>2. Meant[p] = Sequence(Means, p)[Unset]
      BY DEF Meant
    <3> QED  BY <3>1, <3>2, MeansParts, SequenceParts, MeaningParts
  <2>7. Len(s) \in Nat /\ SubSeq(s, 1, Len(s)) = s
    BY LenProperties, SubSeqProperties
  <2>8. CASE phase[r] \in {"starting", "rejected"}
    <3>1. s = <<>>
      BY <2>5, <2>8 DEF Following
    <3>2. PICK o \in Meant[p] : o \in Outcomes
      BY <2>6
    <3>3. o.out \in Seq(Lines)
      BY <3>2 DEF Outcomes
    <3>4. Begins(s, o)
      BY <3>1, <3>3, LenProperties DEF Begins
    <3> QED  BY <2>1, <2>4, <2>8, <3>4
  <2>9. CASE phase[r] \in {"running", "recording", "killed", "ended", "panicked"}
    <3>1. Agrees(s, k, i, p)
      BY <2>5, <2>9 DEF Following
    <3>2. PICK o \in Remaining(k)[i] : o \in Outcomes
      BY RemainingParts, MeaningParts
    <3>3. PICK x \in Meant[p] : x = After(s, o)
      BY <3>1 DEF Agrees
    <3>4. o.out \in Seq(Lines) /\ x.out = s \o o.out /\ x.left = o.left
      BY <3>2, <3>3, AfterParts DEF Outcomes
    <3>5. Begins(s, x)
      <4>1. PICK t \in Seq(Lines) : t = o.out
        BY <3>4
      <4>2. Len(s \o t) = Len(s) + Len(t) /\ Len(t) \in Nat
        BY LenProperties, ConcatProperties
      <4>3. SubSeq(s \o t, 1, Len(s)) = s
        BY <2>7
      <4>4. x.out = s \o t
        BY <3>4, <4>1
      <4> QED  BY <2>7, <4>2, <4>3, <4>4 DEF Begins
    <3>6. CASE phase[r] \in {"ended", "panicked"}
      <4>1. Remaining(k) = Still
        BY <2>5, <3>6, RemainingParts DEF Following
      <4>2. o = Outcome(<<>>, i, FALSE)
        BY <3>2, <4>1 DEF Still
      <4>3. o.out = <<>> /\ ~o.left
        BY <4>2 DEF Outcome
      <4>4. ~x.left /\ x.out = s
        BY <3>4, <4>3
      <4> QED  BY <2>1, <2>4, <2>9, <3>5, <3>6, <4>4
    <3>7. CASE phase[r] \notin {"ended", "panicked"}
      BY <2>1, <2>4, <2>9, <3>5, <3>7
    <3> QED  BY <3>6, <3>7
  <2>10. CASE phase[r] = "exited"
    <3>1. PICK o \in Meant[p] : o.left /\ o.out = s
      BY <2>5, <2>10 DEF Following
    <3>2. Begins(s, o)
      BY <2>7, <3>1 DEF Begins
    <3> QED  BY <2>1, <2>4, <2>10, <3>1, <3>2
  <2> QED  BY <2>8, <2>9, <2>10 DEF TypeOK
<1> QED  BY <1>1, FollowsCorrect, PTL
=============================================================================
