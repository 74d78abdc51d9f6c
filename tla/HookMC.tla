------------------------------- MODULE HookMC -------------------------------
(* Instances of Hook for TLC. *)
EXTENDS Hook, TLC

CONSTANTS g1, g2

Symmetry == Permutations(Groups)
=============================================================================
