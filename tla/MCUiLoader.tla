----------------------------- MODULE MCUiLoader -----------------------------
(* Small instances of UiLoader for TLC. *)
EXTENDS UiLoader, TLC
CONSTANTS c1, c2, c3, f1
Symmetry == Permutations(Calls)
=============================================================================
