-------------------------------- MODULE Fleet --------------------------------
(***************************************************************************)
(* What a coordinator promises about the vessels it tracks, without locks, *)
(* ticks, batches or connections (src/internal/coordinator/coordinator.go, *)
(* ShipState and the package's contract): a vessel is admitted to DCS only *)
(* after it was seen and kept as pending, all admissions keep the fleet    *)
(* within the limit in force, and ships leave DCS all together (a recall)  *)
(* or by being dropped from the table.                                     *)
(***************************************************************************)
EXTENDS Integers, FiniteSets

CONSTANTS Vessels, Limits

VARIABLES phase, limit

fleet == <<phase, limit>>

InPhase(p) == {v \in Vessels : phase[v] = p}

Move(S, p) == phase' = [v \in Vessels |-> IF v \in S THEN p ELSE phase[v]]

FleetInit ==
    /\ phase = [v \in Vessels |-> "Untracked"]
    /\ limit = 0

\* A vessel is heard for the first time.
Sight(v) == v \in InPhase("Untracked") /\ Move({v}, "Pending") /\ UNCHANGED limit

\* Pending ships are put into DCS, within the limit.
Admit(S) ==
    /\ S \subseteq InPhase("Pending")
    /\ Cardinality(InPhase("Spawned") \cup S) <= limit
    /\ Move(S, "Spawned")
    /\ UNCHANGED limit

\* All ships leave DCS and wait again.
Recall == Move(InPhase("Spawned"), "Pending") /\ UNCHANGED limit

\* Vessels are forgotten, in whatever phase.
Drop(S) == Move(S, "Untracked") /\ UNCHANGED limit

SetLimit(n) == limit' = n /\ UNCHANGED phase

FleetNext ==
    \/ \E v \in Vessels : Sight(v)
    \/ \E S \in SUBSET Vessels : Admit(S) \/ Drop(S)
    \/ Recall
    \/ \E n \in Limits : SetLimit(n)

FleetSpec == FleetInit /\ [][FleetNext]_fleet
=============================================================================
