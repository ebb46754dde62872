----------------------------- MODULE MCConsole -----------------------------
(* A small guardian and REPL for TLC: two clauses, of which one span       *)
(* violates the first and one both.                                        *)
EXTENDS Console, TLC

SmallKnown == "lock" :> <<"fine">>
SmallResponses == {<<"first", "fine">>, <<"both">>}
SmallClauses == <<"trace", "signature">>
SmallViolates == {<<"first", "trace">>, <<"both", "trace">>, <<"both", "signature">>}
=============================================================================
