----------------------------- MODULE MCGateway -----------------------------
(* Small instances of Gateway for TLC. *)
EXTENDS Gateway, TLC

CONSTANTS r1, r2, t1, a1, k1

TwoConfigs == {{}, {<<t1, a1, k1>>}}

Symmetry == Permutations(Requests)
=============================================================================
