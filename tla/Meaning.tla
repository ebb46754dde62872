------------------------------ MODULE Meaning ------------------------------
(***************************************************************************)
(* What the files of motorcodex mean, told by the structure of the tree:   *)
(* the meaning of a block is made of the meanings of its children, without *)
(* any stack.  Interpreter's walk is compared with it.                     *)
(*                                                                         *)
(* A meaning says, for the item it starts with, what may come of it: the   *)
(* lines printed, the item it leaves, and whether the run left for good,   *)
(* with syscall.exit().                                                    *)
(***************************************************************************)
EXTENDS Interpreter

CONSTANT Depth   \* how deep each block is nested

ASSUME MeaningAssumption ==
  /\ Depth \in [Blocks -> Nat]
  /\ \A b \in Blocks : \A n \in 1..Len(b.body) : Depth[b.body[n]] < Depth[b]
  /\ \A b \in Blocks : b.type \in {"text", "widget", "image", "container", "when", "loop"}
  /\ \A c \in Calls \ {ExitCall} : Replies[c] # {}

Items == Values \cup {Unset}
Outcomes == [out : Seq(Lines), item : Items, left : BOOLEAN]
Meanings == [Items -> (SUBSET Outcomes) \ {{}}]

Outcome(lines, i, left) == [out |-> lines, item |-> i, left |-> left]
After(lines, o) == Outcome(lines \o o.out, o.item, o.left)

(* Nothing at all; one meaning after another; many in a row.               *)
Still == [i \in Items |-> {Outcome(<<>>, i, FALSE)}]

Then(m, next) ==
  [i \in Items |-> {o \in m[i] : o.left}
                   \cup UNION {{After(o.out, p) : p \in next[o.item]} : o \in {q \in m[i] : ~q.left}}]

Chain(ms) ==
  LET n == Len(ms)
      last[k \in 0..n] == IF k = 0 THEN Still ELSE Then(ms[n + 1 - k], last[k - 1])
  IN last[n]

-----------------------------------------------------------------------------
(* means gives the meanings of blocks.                                     *)
Sequence(means, blocks) == Chain([n \in 1..Len(blocks) |-> means[blocks[n]]])

(* Each pass of a loop starts with an item of its own.                     *)
Pass(means, blocks, v) == [i \in Items |-> Sequence(means, blocks)[v]]
Repeated(means, blocks, items) == Chain([n \in 1..Len(items) |-> Pass(means, blocks, items[n])])

(* What an expression may yield, and what a text may show of it.           *)
Yields(e, i) ==
  CASE e \in Calls -> Replies[e]
    [] e = Item /\ i # Unset -> {i}
    [] e \in Vars -> {ValueOf[e]}
    [] OTHER -> {Error}
Shown(e, i) == IF e \in Texts THEN {e} ELSE {Sprint[v] : v \in Yields(e, i)}

Exits(e, i) == IF e = ExitCall THEN {Outcome(<<>>, i, TRUE)} ELSE {}

Printing(b, i) ==
  {Outcome(Asking(b.expr) \o <<Line(v, b.type = "text")>>, i, FALSE) : v \in Shown(b.expr, i)}

Choosing(means, b, i) ==
  UNION {IF v = True THEN {After(Asking(b.expr), o) : o \in Sequence(means, b.body)[i]}
                     ELSE {Outcome(Asking(b.expr), i, FALSE)} : v \in Yields(b.expr, i)}

Does(means, b, i) ==
  CASE b.type = "widget" -> Printing(b, i)
    [] b.type \in {"text", "image"} -> Exits(b.expr, i) \cup Printing(b, i)
    [] b.type = "container" -> Sequence(means, b.body)[i]
    [] b.type = "when" -> Exits(b.expr, i) \cup Choosing(means, b, i)
    [] b.type = "loop" -> IF b.expr \in Lists THEN Repeated(means, b.body, Elements[b.expr])[i]
                                              ELSE {Outcome(<<>>, i, FALSE)}

(* Only an error and false stop a block: any other value lets it pass.     *)
MeaningOf(means, b) ==
  [i \in Items |->
     LET guard == IF b.when = Always THEN {True} ELSE Yields(b.when, i)
     IN {Outcome(Asking(b.when), i, FALSE) : v \in guard \cap {Error, False}}
        \cup {After(Asking(b.when), o) : o \in Exits(b.when, i)}
        \cup {After(Asking(b.when), o) :
                o \in IF guard \subseteq {Error, False} THEN {} ELSE Does(means, b, i)}]

(* Correct for blocks nested less than depth deep.                         *)
Upto(depth) ==
  LET means[d \in 0..depth] ==
        IF d = 0 THEN [b \in Blocks |-> Still] ELSE [b \in Blocks |-> MeaningOf(means[d - 1], b)]
  IN means[depth]

Means == [b \in Blocks |-> Upto(Depth[b] + 1)[b]]

(* A file is walked before any loop has set the item.                      *)
Meant == [p \in Programs |-> Sequence(Means, p)[Unset]]

-----------------------------------------------------------------------------
Begins(lines, o) == Len(lines) =< Len(o.out) /\ SubSeq(o.out, 1, Len(lines)) = lines

(* A run prints what its file means, with what its plugins have answered,  *)
(* whatever other runs do and whether or not it is recorded: all of it if  *)
(* it comes to its end, all up to a syscall.exit() if it leaves there, and *)
(* a part of it wherever it is now or was killed.  (A loop within a loop   *)
(* leaves its last item to the outer.)                                     *)
OutputAsWritten ==
  \A r \in Runs :
    /\ \E o \in Meant[program[r]] : Begins(said[r], o)
    /\ phase[r] \in {"ended", "panicked"} =>
         \E o \in Meant[program[r]] : ~o.left /\ o.out = said[r]
    /\ phase[r] = "exited" => \E o \in Meant[program[r]] : o.left /\ o.out = said[r]
=============================================================================
