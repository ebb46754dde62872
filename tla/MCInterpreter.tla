--------------------------- MODULE MCInterpreter ---------------------------
(* Small files for Interpreter.                                            *)
EXTENDS Meaning, TLC, SequencesExt

CONSTANTS p1, p2, ab, justC, empty, nil

A(type, expr, body) == [type |-> type, when |-> Always, expr |-> expr, body |-> body]
If(c, b) == [b EXCEPT !.when = c]
Text(e) == A("text", e, <<>>)
Button == A("widget", "send", <<>>)
Image(e) == A("image", e, <<>>)
Box(bs) == A("container", "none", bs)
OnlyIf(e, bs) == A("when", e, bs)
For(l, bs) == A("loop", l, bs)

(* examples/example.logline, with two of its three items.                  *)
Example == <<Box(<<Text("user.name"), For("list", <<Text(Item)>>),
                   OnlyIf("show_button", <<Button>>), Text("http.get")>>)>>

(* The outer loop shows its item after the inner one has run.              *)
Nested == <<For("list", <<For("one", <<Image(Item)>>), Text(Item)>>)>>

(* Conditions: true, false, unknown, neither; before and within a loop.    *)
Conditional == <<If("show_button", Text("hi")), If("flag", Text("no")),
                 If("nobody", Box(<<Text("no")>>)), If("user.name", Text("yes")),
                 OnlyIf("user.name", <<Text("no")>>), OnlyIf("nobody", <<Text("no")>>),
                 If(Item, Text("no")), For("user.name", <<Text("no")>>),
                 For("one", <<If(Item, Button)>>), For("none", <<Text("no")>>)>>

(* The user may type true; the module returns nothing.                     *)
Interactive == <<If("syscall.input", Text("syscall.input")), OnlyIf("syscall.input", <<Text("hi")>>),
                 If("syscall.execute_wasm", Text("syscall.execute_wasm"))>>
Exiting == <<Box(<<If("flag", Text("syscall.exit")), Text("syscall.exit")>>), Text("no")>>
Guarded == <<For("list", <<Text(Item), If("syscall.exit", Button)>>)>>

SmallPrograms == {Example, Nested, Conditional, Interactive, Exiting, Guarded, <<>>}

Within(bs) == UNION {Range(b.body) : b \in bs}
Outermost == UNION {Range(p) : p \in SmallPrograms}
Second == Within(Outermost)
Third == Within(Second)
SmallBlocks == Outermost \cup Second \cup Third
SmallDepth == [b \in SmallBlocks |-> IF b \in Third THEN 0 ELSE IF b \in Second THEN 1 ELSE 2]

(* What the Booleans, the lists, nil and an error look like in a text; the *)
(* user may type the text that true is printed as.                         *)
Printouts == True :> "true" @@ False :> "false" @@ ab :> "[a b]" @@ justC :> "[c]"
               @@ empty :> "[]" @@ nil :> "<nil>" @@ Error :> "<err>"
SmallTexts == {"alice", "a", "b", "c", "ip", "hi", "no", "yes", "send", "? "} \cup Range(Printouts)
SmallValues == SmallTexts \cup DOMAIN Printouts
SmallSprint == Printouts @@ [t \in SmallTexts |-> t]

SmallValueOf == "user.name" :> "alice" @@ "show_button" :> True @@ "flag" :> False
                  @@ "list" :> ab @@ "one" :> justC @@ "none" :> empty
SmallElements == "list" :> <<"a", "b">> @@ "one" :> <<"c">> @@ "none" :> <<>>
SmallReplies == "syscall.input" :> {"true", Error} @@ "syscall.exit" :> {}
                  @@ "http.get" :> {"ip", Error} @@ "syscall.execute_wasm" :> {nil}

Symmetry == Permutations(Runs)
=============================================================================
