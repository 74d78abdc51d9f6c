------------------------------ MODULE InstallMC ------------------------------
(* Instances of Install for TLC. *)
EXTENDS Install

CONSTANTS s1, s2, p1, nopath, q1, a1, a2, none

\* A bound: updates that cross are followed only while no server is configured,
\* since no property is asked of them.
CrossedAlone == crossed => configured = {}

\* The two updates differ in name only: the one asked for first is called a1.
InTurn == apply[a2] # "none" => apply[a1] # "none"
=============================================================================
