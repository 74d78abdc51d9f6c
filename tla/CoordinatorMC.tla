---------------------------- MODULE CoordinatorMC ----------------------------
(***************************************************************************)
(* Instances of Coordinator for TLC.                                       *)
(***************************************************************************)
EXTENDS Coordinator, TLC

CONSTANTS m1, m2, n1, n2, p1, p2, tA, tB, none, r1, r2

\* Theatre tA holds every fix and tB one of them; no other name has a box.
MCBox == [t \in Theatres |-> CASE t = tA -> Fix
                                [] t = tB -> {p2}
                                [] OTHER  -> {}]

Symmetry == Permutations(MMSI) \cup Permutations(Names) \cup Permutations(Requests)

\* States that differ only in what nothing reads again are one: where a pending
\* ship was last put, a setting the tick has done with, the place in a spawn
\* order that is already written out.
LiveShip(s) == IF s.state = "Spawned" THEN s
               ELSE [s EXCEPT !.static = FALSE, !.at = NoFix]

LiveView ==
    <<[m \in MMSI |-> LiveShip(ships[m])], theatre, settings, stopped, pc,
      IF pc \in {"idle", "exited"} THEN 0 ELSE snap.cap,
      pc = "read" /\ snap.spawn, removes,
      [m \in DOMAIN spawns |-> <<spawns[m].group, spawns[m].static>>],
      updates, held, req, ais, up>>
=============================================================================
