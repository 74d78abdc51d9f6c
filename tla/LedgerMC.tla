------------------------------- MODULE LedgerMC -------------------------------
(* Instances of Ledger for TLC. *)
EXTENDS Ledger, TLC

CONSTANTS m1, m2, n1, n2, p1, p2, tA, none, r1

MCBox == [t \in Theatres |-> IF t = tA THEN Fix ELSE {}]

Symmetry == Permutations(MMSI) \cup Permutations(Names)

\* As in CoordinatorMC: where a pending ship was last put is never read again.
LiveShip(s) == IF s.state = "Spawned" THEN s
               ELSE [s EXCEPT !.static = FALSE, !.at = NoFix]

LiveView ==
    <<[m \in MMSI |-> LiveShip(ships[m])], theatre, settings, stopped, pc,
      IF pc \in {"idle", "exited"} THEN 0 ELSE snap.cap,
      pc = "read" /\ snap.spawn, removes,
      [m \in DOMAIN spawns |-> <<spawns[m].group, spawns[m].static>>],
      updates, held, req, ais, up, standing>>
=============================================================================
