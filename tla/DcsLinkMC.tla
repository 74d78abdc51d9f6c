----------------------------- MODULE DcsLinkMC -----------------------------
(* Instances of DcsLink for TLC. *)
EXTENDS DcsLink

CONSTANTS w1, w2, c1, c2, c3
=============================================================================
