---------------------------- MODULE Interpreter ----------------------------
(***************************************************************************)
(* motorcodex, the Go interpreter: main.go, parser, runtime, plugin and    *)
(* tracer.  A run parses one file into a tree of blocks, walks it, prints, *)
(* and appends a span to spans.jsonl for each text it has printed.  Runs   *)
(* that are started in one directory share that file.                      *)
(*                                                                         *)
(* The recursion of execute is a stack of frames, one for each list of     *)
(* children that is being walked.  A block has a type, `when' (Always if   *)
(* it has none), expr, which is its content, condition, list, label or     *)
(* source, and body, its children.  An expr is a plain text or what stands *)
(* between {{ and }}: a variable, a call of a plugin, or something that    *)
(* nobody knows.  What it yields is a value of Go: a text, a Boolean, a    *)
(* list, a number, nil or an error.                                        *)
(***************************************************************************)
EXTENDS Integers, Sequences, FiniteSets

CONSTANTS
  Runs,                 \* the processes
  Blocks, Programs,     \* blocks, and the lists of blocks that files hold
  Values, True, False,  \* what expressions yield, and the Booleans among it
  Texts, Sprint,        \* the texts among it, and how each value is printed
  Vars, ValueOf,        \* the environment main prepares
  Lists, Elements,      \* its variables that hold lists, and what is in them
  Calls, Replies,       \* calls of plugins, and what each may return
  InputCall, ExitCall,  \* syscall.input(), syscall.exit()
  Item,                 \* the variable of loops
  Always, Unset,        \* no condition; no loop yet
  Error, Prompt         \* an error of evalExpr; the "? " of syscall.input()

ASSUME InterpreterAssumption ==
  /\ {True, False, Error} \cup Texts \subseteq Values /\ Prompt \in Texts
  /\ True # False /\ Error \notin {True, False} /\ Unset \notin Values
  /\ {True, False, Error} \cap Texts = {}
  /\ Sprint \in [Values -> Texts] /\ \A t \in Texts : Sprint[t] = t
  /\ Lists \subseteq Vars /\ Calls \cap Vars = {} /\ Item \notin Calls \cup Vars
  /\ ValueOf \in [Vars -> Values]
  /\ DOMAIN Elements = Lists /\ \A l \in Lists : Elements[l] \in Seq(Values)
  /\ \A l, k \in Lists : \A n \in 1..Len(Elements[l]) : Elements[l][n] # ValueOf[k]
  /\ DOMAIN Replies = Calls
  /\ \A c \in Calls : Replies[c] \subseteq Values \ {True, False}
  /\ {InputCall, ExitCall} \subseteq Calls /\ Replies[ExitCall] = {}
  /\ \A b \in Blocks :
       /\ DOMAIN b = {"type", "when", "expr", "body"}
       /\ b.body \in Seq(Blocks)
       /\ b.type = "widget" => b.expr \in Texts
  /\ \A p \in Programs : p \in Seq(Blocks)

VARIABLES
  program,    \* the file each run was given
  phase,      \* how far main is
  tracing,    \* whether spans.jsonl could be opened
  stack,      \* the lists of blocks being walked
  item,       \* env["item"]
  said,       \* the lines printed; those of texts are to be recorded
  encErr,     \* whether a write of its encoder has failed
  spans       \* spans.jsonl

walkVars == <<stack, item>>
vars == <<program, phase, tracing, walkVars, said, encErr, spans>>

(* Blocks left in the current pass; the pass that is repeated for each of  *)
(* the items that are left.                                                *)
Frame(blocks, body, items) == [todo |-> blocks, body |-> body, items |-> items]

Top(r) == stack[r][Len(stack[r])]
Below(r) == SubSeq(stack[r], 1, Len(stack[r]) - 1)
Rest(r) == Below(r) \o <<[Top(r) EXCEPT !.todo = Tail(@)]>>

Init ==
  /\ program \in [Runs -> Programs]
  /\ phase = [r \in Runs |-> "starting"]
  /\ tracing = [r \in Runs |-> FALSE]
  /\ stack = [r \in Runs |-> <<>>]
  /\ item = [r \in Runs |-> Unset]
  /\ said = [r \in Runs |-> <<>>]
  /\ encErr = [r \in Runs |-> FALSE]
  /\ spans = <<>>

-----------------------------------------------------------------------------
(* Expressions.                                                            *)

(* A call returns what its plugin answers: a text, a number, nothing or an *)
(* error, and never a Boolean.                                             *)
evalExpr(r, e) ==
  CASE e \in Calls -> Replies[e]
    [] e = Item /\ item[r] # Unset -> {item[r]}
    [] e \in Vars -> {ValueOf[e]}
    [] OTHER -> {Error}

(* A text shows values and errors as they are printed, and what is no      *)
(* expression as it is.                                                    *)
eval(r, e) == IF e \in Texts THEN {e} ELSE {Sprint[v] : v \in evalExpr(r, e)}

Line(v, recorded) == [text |-> v, recorded |-> recorded]

(* syscall.input() prints a prompt before it reads.                        *)
Asking(e) == IF e = InputCall THEN <<Line(Prompt, FALSE)>> ELSE <<>>

-----------------------------------------------------------------------------
(* execute, one block at a time.                                           *)

Executing(r) == phase[r] = "running" /\ Top(r).todo # <<>>
Block(r) == Head(Top(r).todo)

(* The values of `when'.                                                   *)
Conditions(r) == IF Block(r).when = Always THEN {True} ELSE evalExpr(r, Block(r).when)

(* Only an error and false stop a block: any other value lets it pass.     *)
Passes(r, types) ==
  /\ Executing(r) /\ Block(r).type \in types
  /\ Conditions(r) \ {Error, False} # {}

(* What has been printed when the condition has been evaluated.            *)
Asked(r) == said[r] \o Asking(Block(r).when)

Advance(r) == stack' = [stack EXCEPT ![r] = Rest(r)]
Push(r, f) == stack' = [stack EXCEPT ![r] = Rest(r) \o <<f>>]

(* An error or false: the block is passed over, with all that is in it.    *)
Skip(r) ==
  /\ Executing(r) /\ Conditions(r) \cap {Error, False} # {}
  /\ said' = [said EXCEPT ![r] = Asked(r)]
  /\ Advance(r)
  /\ UNCHANGED <<program, phase, tracing, item, encErr, spans>>

(* text and markdown: print, then record if there is a chronicler.         *)
RenderText(r) ==
  /\ Passes(r, {"text"})
  /\ \E v \in eval(r, Block(r).expr) :
       said' = [said EXCEPT ![r] = Asked(r) \o Asking(Block(r).expr) \o <<Line(v, TRUE)>>]
  /\ phase' = [phase EXCEPT ![r] = IF tracing[r] THEN "recording" ELSE "running"]
  /\ Advance(r)
  /\ UNCHANGED <<program, tracing, item, encErr, spans>>

(* One write to a file that is open for appending.  If it fails the error  *)
(* is logged, and kept by the encoder, which writes nothing any more.      *)
Record(r) ==
  /\ phase[r] = "recording"
  /\ phase' = [phase EXCEPT ![r] = "running"]
  /\ \/ /\ ~encErr[r]
        /\ spans' = Append(spans, [run |-> r, n |-> Len(said[r]),
                                   text |-> said[r][Len(said[r])].text])
        /\ UNCHANGED encErr
     \/ /\ encErr' = [encErr EXCEPT ![r] = TRUE]
        /\ UNCHANGED spans
  /\ UNCHANGED <<program, tracing, walkVars, said>>

(* input, button and image print a line that is not recorded; only the     *)
(* source of an image is evaluated.                                        *)
Show(r) ==
  /\ Passes(r, {"widget", "image"})
  /\ \E v \in eval(r, Block(r).expr) :
       said' = [said EXCEPT ![r] = Asked(r) \o Asking(Block(r).expr) \o <<Line(v, FALSE)>>]
  /\ Advance(r)
  /\ UNCHANGED <<program, phase, tracing, item, encErr, spans>>

(* container, and every type that is not known.                            *)
Contain(r) ==
  /\ Passes(r, {"container"})
  /\ said' = [said EXCEPT ![r] = Asked(r)]
  /\ Push(r, Frame(Block(r).body, <<>>, <<>>))
  /\ UNCHANGED <<program, phase, tracing, item, encErr, spans>>

(* Whatever would let a block pass opens this one too. *)
WhenLenient(r) ==
  /\ Passes(r, {"when"})
  /\ \E v \in evalExpr(r, Block(r).expr) :
       IF v \notin {Error, False} THEN Push(r, Frame(Block(r).body, <<>>, <<>>)) ELSE Advance(r)
  /\ said' = [said EXCEPT ![r] = Asked(r) \o Asking(Block(r).expr)]
  /\ UNCHANGED <<program, phase, tracing, item, encErr, spans>>

(* Here only the Boolean true will do: not the text, nor a value that      *)
(* would let a block pass.                                                 *)
When(r) ==
  /\ Passes(r, {"when"})
  /\ \E v \in evalExpr(r, Block(r).expr) :
       IF v = True THEN Push(r, Frame(Block(r).body, <<>>, <<>>)) ELSE Advance(r)
  /\ said' = [said EXCEPT ![r] = Asked(r) \o Asking(Block(r).expr)]
  /\ UNCHANGED <<program, phase, tracing, item, encErr, spans>>

(* What is no list is passed over.                                         *)
Loop(r) ==
  /\ Passes(r, {"loop"})
  /\ said' = [said EXCEPT ![r] = Asked(r)]
  /\ IF Block(r).expr \in Lists
     THEN Push(r, Frame(<<>>, Block(r).body, Elements[Block(r).expr]))
     ELSE Advance(r)
  /\ UNCHANGED <<program, phase, tracing, item, encErr, spans>>

(* The next pass of a loop.  env["item"] keeps its value after the last.   *)
NextItem(r) ==
  /\ phase[r] = "running" /\ Top(r).todo = <<>> /\ Top(r).items # <<>>
  /\ item' = [item EXCEPT ![r] = Head(Top(r).items)]
  /\ stack' = [stack EXCEPT ![r] =
       Below(r) \o <<Frame(Top(r).body, Top(r).body, Tail(Top(r).items))>>]
  /\ UNCHANGED <<program, phase, tracing, said, encErr, spans>>

-----------------------------------------------------------------------------
(* main.                                                                   *)

(* spans.jsonl is opened as an empty file. *)
NewChroniclerTruncating(r) ==
  \E opened \in BOOLEAN :
    /\ tracing' = [tracing EXCEPT ![r] = opened]
    /\ spans' = IF opened THEN <<>> ELSE spans

(* spans.jsonl is opened for appending, which may fail.                    *)
NewChronicler(r) ==
  /\ \E opened \in BOOLEAN : tracing' = [tracing EXCEPT ![r] = opened]
  /\ UNCHANGED spans

(* A file that cannot be opened or parsed: panic.  Without a chronicler    *)
(* the run goes on.                                                        *)
main(r) ==
  /\ phase[r] = "starting"
  /\ \/ /\ phase' = [phase EXCEPT ![r] = "running"]
        /\ stack' = [stack EXCEPT ![r] = <<Frame(program[r], <<>>, <<>>)>>]
        /\ NewChronicler(r)
     \/ phase' = [phase EXCEPT ![r] = "rejected"] /\ UNCHANGED <<stack, tracing, spans>>
  /\ UNCHANGED <<program, item, said, encErr>>

(* A list of blocks is done and main goes on past its end. *)
ReturnAlways(r) ==
  /\ phase[r] = "running" /\ Top(r).todo = <<>> /\ Top(r).items = <<>>
  /\ stack' = [stack EXCEPT ![r] = Below(r)]
  /\ UNCHANGED <<program, phase, tracing, item, said, encErr, spans>>

(* A list of blocks is done.  After the last, main closes the chronicler,  *)
(* which panics when there is none.                                        *)
Return(r) ==
  /\ phase[r] = "running" /\ Top(r).todo = <<>> /\ Top(r).items = <<>>
  /\ stack' = [stack EXCEPT ![r] = Below(r)]
  /\ phase' = [phase EXCEPT ![r] =
       IF Below(r) # <<>> THEN "running" ELSE IF tracing[r] THEN "ended" ELSE "panicked"]
  /\ UNCHANGED <<program, tracing, item, said, encErr, spans>>

(* syscall.exit() leaves at once, in the middle of a condition or a text.  *)
Exit(r) ==
  /\ \/ Executing(r) /\ Block(r).when = ExitCall
     \/ Passes(r, {"text", "image", "when"}) /\ Block(r).expr = ExitCall
  /\ phase' = [phase EXCEPT ![r] = "exited"]
  /\ said' = [said EXCEPT ![r] = Asked(r)]
  /\ UNCHANGED <<program, tracing, walkVars, encErr, spans>>

Kill(r) ==
  /\ phase[r] \in {"running", "recording"}
  /\ phase' = [phase EXCEPT ![r] = "killed"]
  /\ UNCHANGED <<program, tracing, walkVars, said, encErr, spans>>

execute(r) ==
  \/ Skip(r) \/ RenderText(r) \/ Record(r) \/ Show(r) \/ Contain(r) \/ When(r)
  \/ Loop(r) \/ NextItem(r)

Next == \E r \in Runs : main(r) \/ execute(r) \/ Return(r) \/ Exit(r) \/ Kill(r)

Spec == Init /\ [][Next]_vars

-----------------------------------------------------------------------------
Lines == [text : Texts, recorded : BOOLEAN]
Frames == [todo : Seq(Blocks), body : Seq(Blocks), items : Seq(Values)]
Spans == [run : Runs, n : Nat, text : Texts]

(* Types; a run that is walking stands in some list of blocks.             *)
TypeOK ==
  /\ program \in [Runs -> Programs]
  /\ phase \in [Runs -> {"starting", "rejected", "running", "recording", "ended",
                         "panicked", "exited", "killed"}]
  /\ tracing \in [Runs -> BOOLEAN]
  /\ stack \in [Runs -> Seq(Frames)]
  /\ \A r \in Runs : phase[r] \in {"running", "recording"} => stack[r] # <<>>
  /\ item \in [Runs -> Values \cup {Unset}]
  /\ said \in [Runs -> Seq(Lines)]
  /\ encErr \in [Runs -> BOOLEAN]
  /\ spans \in Seq(Spans)

(* Every span says what its run has printed in that line.                  *)
SpansTrue ==
  \A i \in DOMAIN spans :
    /\ spans[i].n \in DOMAIN said[spans[i].run]
    /\ said[spans[i].run][spans[i].n] = Line(spans[i].text, TRUE)

(* The spans of a run are in the order of its lines, each line once.       *)
SpansOrdered ==
  \A i, j \in DOMAIN spans :
    i < j /\ spans[i].run = spans[j].run => spans[i].n < spans[j].n

(* The line that is being recorded, and the one a kill came in between.    *)
Pending(r, n) == n = Len(said[r]) /\ phase[r] \in {"recording", "killed"}

Recorded(r, n) == \E i \in DOMAIN spans : spans[i].run = r /\ spans[i].n = n

(* Its encoder has failed before that line, or at it: neither that line    *)
(* nor any later one of the run has a span.                                *)
Lost(r, n) == encErr[r] /\ \A i \in DOMAIN spans : spans[i].run = r => spans[i].n < n

(* A run that could open spans.jsonl has a span there for every text it    *)
(* has printed up to its first failed write, and for none after it.        *)
SpansComplete ==
  \A r \in Runs : tracing[r] =>
    \A n \in DOMAIN said[r] :
      said[r][n].recorded => Recorded(r, n) \/ Lost(r, n) \/ Pending(r, n)

(* spans.jsonl tells what was printed, however many runs share the file,   *)
(* wherever they are killed or exit.                                       *)
TraceFollowsOutput == SpansTrue /\ SpansOrdered /\ SpansComplete
=============================================================================
