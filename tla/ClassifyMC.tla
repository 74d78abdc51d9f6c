------------------------------ MODULE ClassifyMC ------------------------------
(* Instances of Classify for TLC, and the assumptions of ShipMatch. *)
EXTENDS Classify, ShipMatch, TLC

CONSTANTS s1, s2

\* A tug, or a vessel of no known type.
MCTypes == {0, 52}

\* Two brackets of each category, and the one of no known length.
MCLengths == {0, 90, 160}

MCInstalls == {BaseGame}
MCFilterSets == {Categories, Categories \ {"other"}}
=============================================================================
