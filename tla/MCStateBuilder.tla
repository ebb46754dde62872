--------------------------- MODULE MCStateBuilder ---------------------------
(* A small instance of StateBuilder for TLC.  Calls fail beside one        *)
(* rebuild, three times; two rebuilds overlap without failures.            *)
EXTENDS StateBuilder

CONSTANTS u1, b1, b2

MCNext == Next /\ (faults' = 0 \/ rebuild'[b2].at = "idle")
MCSpec == Init /\ [][MCNext]_vars
=============================================================================
