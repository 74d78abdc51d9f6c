-------------------------- MODULE CoordinatorProofs --------------------------
(***************************************************************************)
(* Theorems about Coordinator, and about Ledger, which extends it, for any *)
(* finite set of vessels and any names, fixes, theatres, speeds, caps and  *)
(* handlers.                                                               *)
(*                                                                         *)
(* The inductive invariant joins the type invariant with the three         *)
(* invariants of the runs: each needs the others.  A batch stays within    *)
(* the cap because nothing but a commit adds a spawned ship (BatchFitsTable)*)
(* and because no spawned ship lacks a group name, so that the stale ones  *)
(* the plan discounts are all that leave (SpawnedIffGrouped).              *)
(*                                                                         *)
(* The parts: Coordinator, its refinement of Fleet, Ledger in calm runs,   *)
(* Ledger where connections are lost.                                      *)
(***************************************************************************)
EXTENDS Ledger, FiniteSetTheorems, TLAPS

IInv == TypeOK /\ SpawnedIffGrouped /\ BatchFitsTable /\ UpdatesNameTheirShip

------------------------------------------------------------------------------
(* What the operators on ships return.                                     *)

\* The record made by an update, a commit or a reset is a ship again.
LEMMA ShipUpdated ==
    ASSUME NEW s \in Ship, NEW n \in Names, NEW v \in Speeds, ais.fix \in Fix
    PROVE  Updated(s, n, v) \in Ship
BY DEF Updated, Ship

\* Committing a spawn order makes a ship.
LEMMA ShipCommitted ==
    ASSUME NEW s \in Ship, NEW o \in SpawnOrder
    PROVE  CommitSpawn(s, o) \in Ship
BY DEF CommitSpawn, Ship, SpawnOrder, States

\* Committing an update order makes a ship, and leaves its state, group, name
\* and fix alone: the frozen group name of a spawned ship survives every update.
LEMMA ShipMoved ==
    ASSUME NEW s \in Ship, NEW o \in UpdateOrder
    PROVE  /\ CommitUpdate(s, o) \in Ship
           /\ CommitUpdate(s, o).state = s.state /\ CommitUpdate(s, o).group = s.group
           /\ CommitUpdate(s, o).name = s.name /\ CommitUpdate(s, o).fix = s.fix
BY DEF CommitUpdate, Ship, UpdateOrder, States

\* An absent vessel and one heard for the first time are ships.
LEMMA ShipAbsent == NoShip \in Ship /\ NewShip \in Ship
BY DEF NoShip, NewShip, Ship, States

\* A recalled ship is a pending ship without a group name, where it was.
LEMMA ShipRecalled ==
    ASSUME NEW s \in Ship
    PROVE  /\ Recalled(s) \in Ship
           /\ Recalled(s).state = "Pending" /\ Recalled(s).group = NoName
           /\ Recalled(s).name = s.name /\ Recalled(s).fix = s.fix
BY DEF Recalled, Ship, States

\* After a reset every ship that was spawned is pending without a group name,
\* and every other ship is as it was.
LEMMA ResetShips ==
    ASSUME ships \in [MMSI -> Ship]
    PROVE  /\ BackToPending \in [MMSI -> Ship]
           /\ \A m \in MMSI :
                 /\ ships[m].state = "Spawned" =>
                       BackToPending[m].state = "Pending" /\ BackToPending[m].group = NoName
                 /\ ships[m].state # "Spawned" => BackToPending[m] = ships[m]
                 /\ BackToPending[m].name = ships[m].name
                 /\ BackToPending[m].fix = ships[m].fix
BY ShipRecalled DEF BackToPending, Spawned

\* The committed table: entries the batch does not point at are untouched.
LEMMA CommittedShips ==
    ASSUME TypeOK
    PROVE  /\ Committed \in [MMSI -> Ship]
           /\ \A m \in held \cap DOMAIN spawns :
                 Committed[m] = CommitSpawn(ships[m], spawns[m])
           /\ \A m \in held \ DOMAIN spawns :
                 Committed[m] = CommitUpdate(ships[m], updates[m])
           /\ \A m \in MMSI \ held : Committed[m] = ships[m]
<1>1. \A m \in MMSI : ships[m] \in Ship
  BY DEF TypeOK, TableTyped
<1>2. \A m \in held \cap DOMAIN spawns : CommitSpawn(ships[m], spawns[m]) \in Ship
  BY <1>1, ShipCommitted DEF TypeOK, BatchTyped
<1>3. \A m \in held \ DOMAIN spawns : CommitUpdate(ships[m], updates[m]) \in Ship
  BY <1>1, ShipMoved DEF TypeOK, BatchTyped
<1>4. held \subseteq MMSI
  BY DEF TypeOK, BatchTyped
<1>. QED
  BY <1>1, <1>2, <1>3, <1>4 DEF Committed

------------------------------------------------------------------------------
(* The inductive invariant.                                                *)

\* The coordinator starts with an empty table, no tick under way and no orders.
LEMMA Initially == Init => IInv
<1>. SUFFICES ASSUME Init PROVE IInv
  OBVIOUS
<1>1. ships \in [MMSI -> Ship] /\ Tracked = {} /\ Spawned = {}
  BY ShipAbsent DEF Init, Tracked, Spawned, NoShip
<1>2. \A m \in MMSI : ships[m].group = NoName
  BY DEF Init, NoShip
<1>3. DOMAIN spawns = {} /\ DOMAIN updates = {} /\ removes = {} /\ held = {}
  BY DEF Init, NoOrders
<1>4. spawns \in [DOMAIN spawns -> SpawnOrder] /\ updates \in [DOMAIN updates -> UpdateOrder]
  BY DEF Init, NoOrders
<1>5. TypeOK
  <2>1. TableTyped
    BY <1>1 DEF TableTyped
  <2>2. BatchTyped
    BY <1>3, <1>4 DEF BatchTyped, BatchEmpty
  <2>3. StepsTyped
    BY TheatreAssumption DEF Init, StepsTyped
  <2>. QED
    BY <2>1, <2>2, <2>3 DEF TypeOK
<1>6. SpawnedIffGrouped
  BY <1>1, <1>2 DEF SpawnedIffGrouped
<1>. QED
  BY <1>3, <1>5, <1>6 DEF IInv, BatchFitsTable, UpdatesNameTheirShip

\* Sets of vessels are finite, so that fewer vessels are not more.
LEMMA FewerVessels ==
    ASSUME NEW S \in SUBSET MMSI, NEW T \in SUBSET S
    PROVE  /\ IsFiniteSet(S)
           /\ Cardinality(S) \in Nat /\ Cardinality(T) \in Nat
           /\ Cardinality(T) <= Cardinality(S)
<1>1. IsFiniteSet(S)
  BY MMSIAssumption, FS_Subset
<1>. QED
  BY <1>1, FS_Subset, FS_CardinalityType

\* The cap a tick read is a number, so that spawned ships can be counted to it.
LEMMA CapTyped == ASSUME StepsTyped PROVE snap.cap \in Nat
<1>1. snap \in [cap : Caps \cup {0}, spawn : BOOLEAN]
  BY DEF StepsTyped
<1>2. snap.cap \in Caps \cup {0}
  BY <1>1
<1>3. \A n \in Caps : n \in Nat
  BY NumberAssumption
<1>. QED
  BY <1>2, <1>3

\* A step outside the tick leaves the orders as they are.
LEMMA BatchKept ==
    ASSUME BatchTyped, UNCHANGED tick, held' \subseteq held
    PROVE  BatchTyped'
BY DEF BatchTyped, BatchEmpty, tick

\* A step outside the tick that lets go of ships, and puts none into DCS, leaves
\* the batch fit for the table.
LEMMA BatchStaysFit ==
    ASSUME TypeOK, TypeOK', BatchFitsTable, UpdatesNameTheirShip,
           UNCHANGED <<spawns, updates, snap>>,
           held' \subseteq held,
           \A m \in Spawned' : m \in Spawned /\ ships'[m].group = ships[m].group,
           held' \cap DOMAIN spawns \subseteq Pending',
           held' \subseteq Tracked'
    PROVE  BatchFitsTable' /\ UpdatesNameTheirShip'
<1>. DEFINE S == Spawned \cup (held \cap DOMAIN spawns)
<1>1. S \subseteq MMSI /\ S' \subseteq S
  BY DEF TypeOK, BatchTyped, Spawned
<1>2. Cardinality(S') <= Cardinality(S) /\ Cardinality(S) \in Nat /\ Cardinality(S') \in Nat
  BY <1>1, FewerVessels
<1>3. snap.cap \in Nat
  BY CapTyped DEF TypeOK
<1>4. BatchFitsTable'
  BY <1>2, <1>3 DEF BatchFitsTable
<1>5. UpdatesNameTheirShip'
  BY DEF UpdatesNameTheirShip
<1>. QED
  BY <1>4, <1>5

\* The AIS reader keeps the invariant.
LEMMA AisStep == ASSUME IInv, AisNext PROVE IInv'
<1>. USE DEF IInv
<1>1. CASE AisGate \/ \E f \in Fix : AisPlace(f)
  <2>1. TypeOK'
    BY <1>1, BatchKept DEF AisGate, AisPlace, TypeOK, TableTyped, StepsTyped, settings, tick, Tracked
  <2>2. UNCHANGED <<ships, spawns, updates, snap, held>>
    BY <1>1 DEF AisGate, AisPlace, tick
  <2>3. Spawned' = Spawned /\ Pending' = Pending /\ Tracked' = Tracked
    BY <2>2 DEF Spawned, Pending, Tracked
  <2>. QED
    BY <2>1, <2>2, <2>3 DEF SpawnedIffGrouped, BatchFitsTable, UpdatesNameTheirShip
<1>2. ASSUME NEW m \in MMSI, NEW n \in Names, NEW v \in Speeds, AisApply(m, n, v)
      PROVE  IInv'
  <2>. DEFINE old == IF m \in Tracked THEN ships[m] ELSE NewShip
  <2>1. old \in Ship /\ ais.fix \in Fix
    BY <1>2, ShipAbsent DEF AisApply, TypeOK, TableTyped, StepsTyped
  <2>2. ships' = [ships EXCEPT ![m] = Updated(old, n, v)]
    BY <1>2 DEF AisApply
  <2>3. /\ ships' \in [MMSI -> Ship]
        /\ ships'[m] = Updated(old, n, v)
        /\ \A k \in MMSI \ {m} : ships'[k] = ships[k]
    BY <2>1, <2>2, ShipUpdated DEF TypeOK, TableTyped
  <2>4. /\ ships'[m].state = old.state /\ ships'[m].group = old.group
        /\ ships'[m].name \in Names /\ ships'[m].fix \in Fix
    BY <2>1, <2>3 DEF Updated, Ship
  <2>5. m \notin Tracked => old.state = "Pending" /\ old.group = NoName
    BY DEF NewShip, NoShip
  <2>6. /\ Spawned' = Spawned /\ Pending \subseteq Pending' /\ Tracked \subseteq Tracked'
        /\ \A k \in Tracked' : k = m \/ k \in Tracked
    BY <2>3, <2>4, <2>5 DEF Spawned, Pending, Tracked
  <2>7. \A k \in Spawned : ships'[k].group = ships[k].group
    BY <2>3, <2>4 DEF Spawned, Tracked
  <2>8. TypeOK'
    <3>1. TableTyped'
      BY <2>3, <2>4, <2>6 DEF TypeOK, TableTyped, Tracked
    <3>2. BatchTyped'
      BY <1>2, BatchKept DEF AisApply, TypeOK
    <3>3. StepsTyped'
      BY <1>2 DEF AisApply, TypeOK, StepsTyped, settings, tick
    <3>. QED
      BY <3>1, <3>2, <3>3 DEF TypeOK
  <2>9. SpawnedIffGrouped'
    BY <2>3, <2>4, <2>5, <2>6 DEF SpawnedIffGrouped, Spawned, Tracked
  <2>10. UNCHANGED <<spawns, updates, snap, held>>
    BY <1>2 DEF AisApply, tick
  <2>. QED
    BY <2>6, <2>7, <2>8, <2>9, <2>10, BatchStaysFit DEF BatchFitsTable
<1>. QED
  BY <1>1, <1>2 DEF AisNext

\* A step that leaves the table and the tick alone keeps the invariant.
LEMMA ElsewhereStep ==
    ASSUME IInv, UNCHANGED <<ships, theatre, tick, held, ais>>,
           tracking' \in BOOLEAN, spawning' \in BOOLEAN, maxShips' \in Caps,
           stopped' \in BOOLEAN, up' \in BOOLEAN,
           req' \in [Requests -> {"none", "clearAll", "wipe", "clearSpawned", "reset"}]
    PROVE  IInv'
<1>. USE DEF IInv
<1>1. TypeOK'
  <2>1. TableTyped'
    BY DEF TypeOK, TableTyped, Tracked
  <2>2. StepsTyped'
    BY DEF TypeOK, StepsTyped, tick
  <2>. QED
    BY <2>1, <2>2, BatchKept DEF TypeOK
<1>2. Spawned' = Spawned /\ Pending' = Pending /\ Tracked' = Tracked
  BY DEF Spawned, Pending, Tracked
<1>. QED
  BY <1>1, <1>2 DEF SpawnedIffGrouped, BatchFitsTable, UpdatesNameTheirShip, tick

\* A step that resets every spawned ship keeps the invariant.
LEMMA ResetStep ==
    ASSUME IInv, ships' = BackToPending, UNCHANGED <<settings, stopped, tick, held, ais>>,
           theatre' \in Theatres, up' \in BOOLEAN,
           req' \in [Requests -> {"none", "clearAll", "wipe", "clearSpawned", "reset"}]
    PROVE  IInv'
<1>. USE DEF IInv
<1>1. ships \in [MMSI -> Ship]
  BY DEF TypeOK, TableTyped
<1>2. \A m \in MMSI : ships[m].state \in States
  BY <1>1 DEF Ship
<1>3. Spawned' = {} /\ Pending' = Tracked /\ Tracked' = Tracked
  BY <1>1, <1>2, ResetShips DEF Spawned, Pending, Tracked, States
<1>4. TypeOK'
  <2>1. \A m \in MMSI : ships'[m].name = ships[m].name /\ ships'[m].fix = ships[m].fix
    BY <1>1, ResetShips
  <2>3. TableTyped'
    BY <1>1, <1>3, <2>1, ResetShips DEF TypeOK, TableTyped, Tracked
  <2>2. StepsTyped'
    BY DEF TypeOK, StepsTyped, settings, tick
  <2>. QED
    BY <2>2, <2>3, BatchKept DEF TypeOK
<1>5. SpawnedIffGrouped'
  BY <1>1, <1>3, ResetShips DEF SpawnedIffGrouped, Spawned
<1>6. held' \cap DOMAIN spawns \subseteq Pending' /\ held' \subseteq Tracked'
  BY <1>3 DEF BatchFitsTable, tick
<1>. QED
  BY <1>3, <1>4, <1>5, <1>6, BatchStaysFit DEF tick

\* A step that forgets vessels, and the tick's pointers to them, keeps it.
LEMMA ForgetStep ==
    ASSUME IInv, NEW D \in SUBSET MMSI,
           ships' = [m \in MMSI |-> IF m \in D THEN NoShip ELSE ships[m]],
           held' = held \ D,
           UNCHANGED <<theatre, settings, stopped, tick, ais, up>>,
           req' \in [Requests -> {"none", "clearAll", "wipe", "clearSpawned", "reset"}]
    PROVE  IInv'
<1>. USE DEF IInv
<1>1. ships \in [MMSI -> Ship] /\ ships' \in [MMSI -> Ship]
  BY ShipAbsent DEF TypeOK, TableTyped
<1>2. Spawned' = Spawned \ D /\ Pending' = Pending \ D /\ Tracked' = Tracked \ D
  BY <1>1 DEF Spawned, Pending, Tracked, NoShip
<1>3. TypeOK'
  <2>1. TableTyped'
    BY <1>1, <1>2 DEF TypeOK, TableTyped, Tracked
  <2>2. StepsTyped'
    BY DEF TypeOK, StepsTyped, settings, tick
  <2>. QED
    BY <2>1, <2>2, BatchKept DEF TypeOK
<1>4. SpawnedIffGrouped'
  BY <1>1, <1>2 DEF SpawnedIffGrouped, NoShip
<1>5. \A m \in Spawned' : m \in Spawned /\ ships'[m].group = ships[m].group
  BY <1>2 DEF Spawned
<1>6. held' \cap DOMAIN spawns \subseteq Pending' /\ held' \subseteq Tracked'
  BY <1>2 DEF BatchFitsTable
<1>. QED
  BY <1>3, <1>4, <1>5, <1>6, BatchStaysFit DEF tick

\* The clock: a ship grows old or cools off.
LEMMA ClockStep == ASSUME IInv, NEW m \in MMSI, Age(m) \/ CoolOff(m) PROVE IInv'
<1>. USE DEF IInv
<1>. DEFINE Same(s, t) == /\ t.state = s.state /\ t.group = s.group
                          /\ t.name = s.name /\ t.fix = s.fix
<1>1. ships' \in [MMSI -> Ship] /\ \A k \in MMSI : Same(ships[k], ships'[k])
  <2>1. PICK s \in {[ships[m] EXCEPT !.fresh = FALSE], [ships[m] EXCEPT !.cooling = FALSE]} :
            ships' = [ships EXCEPT ![m] = s]
    BY DEF Age, CoolOff
  <2>2. ships[m] \in Ship
    BY DEF TypeOK, TableTyped
  <2>3. s \in Ship /\ Same(ships[m], s)
    BY <2>2 DEF Ship
  <2>. QED
    BY <2>1, <2>3 DEF TypeOK, TableTyped
<1>2. Spawned' = Spawned /\ Pending' = Pending /\ Tracked' = Tracked
  BY <1>1 DEF Spawned, Pending, Tracked
<1>3. UNCHANGED <<theatre, settings, stopped, tick, held, req, ais, up>>
  BY DEF Age, CoolOff
<1>4. TypeOK'
  <2>1. TableTyped'
    BY <1>1, <1>2 DEF TypeOK, TableTyped, Tracked
  <2>2. StepsTyped'
    BY <1>3 DEF TypeOK, StepsTyped, settings, tick
  <2>. QED
    BY <1>3, <2>1, <2>2, BatchKept DEF TypeOK
<1>5. SpawnedIffGrouped'
  BY <1>1, <1>2 DEF SpawnedIffGrouped
<1>6. UpdatesNameTheirShip'
  BY <1>1, <1>2, <1>3 DEF UpdatesNameTheirShip, BatchFitsTable, Spawned, Tracked, TypeOK, BatchTyped, tick
<1>. QED
  BY <1>2, <1>3, <1>4, <1>5, <1>6 DEF BatchFitsTable, tick
------------------------------------------------------------------------------
(* The tick.                                                               *)

\* Outside a tick there are no orders and no pointers.
LEMMA NothingHeld ==
    ASSUME BatchTyped, pc \in {"idle", "read", "exited"}
    PROVE  held = {} /\ removes = {} /\ DOMAIN spawns = {} /\ DOMAIN updates = {}
BY DEF BatchTyped, BatchEmpty

\* Reading the settings, writing the batch and leaving the loop keep it.
LEMMA TurnStep ==
    ASSUME IInv, TickRead \/ TickSend \/ TickExit
    PROVE  IInv'
<1>. USE DEF IInv
<1>1. UNCHANGED <<ships, theatre, settings, stopped, removes, spawns, updates,
                  held, req, ais, up>>
  BY DEF TickRead, TickSend, TickExit
<1>2. Spawned' = Spawned /\ Pending' = Pending /\ Tracked' = Tracked
  BY <1>1 DEF Spawned, Pending, Tracked
<1>3. /\ pc' \in {"read", "sent", "exited"}
      /\ snap' \in [cap : Caps \cup {0}, spawn : BOOLEAN]
      /\ held = {} \/ snap' = snap
      /\ pc' \in {"read", "exited"} => BatchEmpty'
  BY <1>1, NothingHeld
     DEF TickRead, TickSend, TickExit, TypeOK, StepsTyped, BatchTyped, BatchEmpty
<1>4. TypeOK'
  <2>1. TableTyped'
    BY <1>1, <1>2 DEF TypeOK, TableTyped
  <2>2. BatchTyped'
    BY <1>1, <1>3 DEF TypeOK, BatchTyped
  <2>3. StepsTyped'
    BY <1>1, <1>3 DEF TypeOK, StepsTyped, settings
  <2>. QED
    BY <2>1, <2>2, <2>3 DEF TypeOK
<1>5. SpawnedIffGrouped' /\ UpdatesNameTheirShip'
  BY <1>1, <1>2 DEF SpawnedIffGrouped, UpdatesNameTheirShip
<1>6. BatchFitsTable'
  BY <1>1, <1>2, <1>3 DEF BatchFitsTable
<1>. QED
  BY <1>4, <1>5, <1>6

\* What the plan leaves in the table.
LEMMA PlannedShips ==
    ASSUME IInv, TickPlan
    PROVE  /\ ships' \in [MMSI -> Ship]
           /\ \A m \in MMSI \ Stale : ships'[m] = ships[m]
           /\ \A m \in Stale : ships'[m] = NoShip
           /\ Spawned' = Spawned \ StaleSpawned
           /\ Spawned' = Spawned \ Stale
           /\ Pending' = Pending \ Stale
           /\ Tracked' = Tracked \ Stale
<1>. USE DEF IInv
<1>1. \A m \in MMSI : ships[m] \in Ship
  BY DEF TypeOK, TableTyped
<1>2. /\ ships' \in [MMSI -> Ship]
      /\ \A m \in MMSI \ Stale : ships'[m] = ships[m]
      /\ \A m \in Stale : ships'[m] = NoShip
  BY <1>1, ShipAbsent DEF TickPlan, Stale, Tracked
<1>3. Spawned' = Spawned \ Stale /\ Pending' = Pending \ Stale /\ Tracked' = Tracked \ Stale
  BY <1>2 DEF Spawned, Pending, Tracked, NoShip
<1>4. StaleSpawned = Stale \cap Spawned
  BY DEF StaleSpawned, SpawnedIffGrouped, Spawned
<1>. QED
  BY <1>2, <1>3, <1>4

\* The chosen ships find room: with the ships that stay they are within the cap.
LEMMA ChosenFit ==
    ASSUME IInv, NEW C \in SUBSET MMSI, C # {}, Chosen(C)
    PROVE  Cardinality((Spawned \ StaleSpawned) \cup C) <= snap.cap
<1>. DEFINE S == Spawned \ StaleSpawned
<1>1. S \in SUBSET MMSI
  BY DEF Spawned
<1>2. /\ IsFiniteSet(S) /\ IsFiniteSet(C)
      /\ Cardinality(S) \in Nat /\ Cardinality(C) \in Nat
      /\ Cardinality(S \cap C) \in Nat
  BY <1>1, FewerVessels
<1>3. Cardinality(S \cup C) = Cardinality(S) + Cardinality(C) - Cardinality(S \cap C)
  BY <1>2, FS_Union
<1>4. Cardinality(C) <= snap.cap - Cardinality(S)
  BY DEF Chosen, Room
<1>5. snap.cap \in Nat
  BY CapTyped DEF IInv, TypeOK
<1>. HIDE DEF S
<1>6. Cardinality(S \cup C) <= snap.cap
  BY <1>2, <1>3, <1>4, <1>5
<1>. QED
  BY <1>6 DEF S

\* Drawing up the batch keeps the invariant.
LEMMA PlanStep == ASSUME IInv, TickPlan PROVE IInv'
<1>. USE DEF IInv
<1>. DEFINE Moved == Converting \cup Drifted
<1>1. PICK C \in SUBSET Candidates :
          Chosen(C) /\ spawns' = SpawnOrders(C) /\ held' = C \cup Moved
  BY DEF TickPlan
<1>2. C \subseteq Pending \ Stale
  BY <1>1 DEF Candidates
<1>3. Moved \subseteq Spawned \ Stale /\ \A m \in Moved : ships[m].group # NoName
  BY DEF Converting, Drifted, Live
<1>4. /\ C \subseteq MMSI /\ Moved \subseteq MMSI
      /\ Moved \subseteq Tracked /\ C \subseteq Tracked
  BY <1>2, <1>3 DEF Pending, Spawned, Tracked
<1>5. \A m \in MMSI : ships[m] \in Ship
  BY DEF TypeOK, TableTyped
<1>6. /\ DOMAIN spawns' = C /\ spawns' \in [C -> SpawnOrder]
  <2>1. \A m \in C : ships[m].name \in Names /\ ships[m].fix \in Fix
    BY <1>4 DEF TypeOK, TableTyped
  <2>. QED
    BY <1>1, <2>1 DEF SpawnOrders, SpawnOrder
<1>7. /\ DOMAIN updates' = Moved /\ updates' \in [Moved -> UpdateOrder]
      /\ \A m \in Moved : updates'[m].group = ships[m].group
  <2>1. \A m \in Moved : ships[m].group \in Names
    BY <1>3, <1>4, <1>5 DEF Ship
  <2>2. \A m \in Moved : ships[m].fix \in Fix
    BY <1>4 DEF TypeOK, TableTyped
  <2>3. updates' = UpdateOrders
    BY DEF TickPlan
  <2>. QED
    BY <2>1, <2>2, <2>3 DEF UpdateOrders, UpdateOrder
<1>8. removes' \subseteq [mmsi : MMSI, group : Names]
  <2>1. \A m \in StaleSpawned : m \in MMSI /\ ships[m].group \in Names
    BY <1>5 DEF StaleSpawned, Spawned, Ship
  <2>. QED
    BY <2>1 DEF TickPlan, RemoveOrders
<1>9. UNCHANGED <<theatre, settings, stopped, snap, req, ais, up>> /\ pc' = "planned"
  BY DEF TickPlan
<1>10. TypeOK'
  <2>1. TableTyped'
    BY PlannedShips DEF TypeOK, TableTyped, Tracked
  <2>2. BatchTyped'
    BY <1>1, <1>4, <1>6, <1>7, <1>8, <1>9 DEF BatchTyped
  <2>3. StepsTyped'
    BY <1>9 DEF TypeOK, StepsTyped, settings
  <2>. QED
    BY <2>1, <2>2, <2>3 DEF TypeOK
<1>11. SpawnedIffGrouped'
  BY PlannedShips DEF SpawnedIffGrouped, NoShip, Stale, Spawned
<1>12. BatchFitsTable'
  <2>1. held' \cap DOMAIN spawns' = C
    BY <1>1, <1>6
  <2>2. C \subseteq Pending' /\ held' \subseteq Tracked'
    BY <1>1, <1>2, <1>3, <1>4, PlannedShips
  <2>3. C # {} => Cardinality(Spawned' \cup C) <= snap'.cap
    BY <1>1, <1>4, <1>9, ChosenFit, PlannedShips
  <2>. QED
    BY <2>1, <2>2, <2>3 DEF BatchFitsTable
<1>13. UpdatesNameTheirShip'
  <2>. SUFFICES ASSUME NEW m \in held' \cap DOMAIN updates'
                PROVE  ships'[m].group = updates'[m].group
    BY DEF UpdatesNameTheirShip
  <2>1. m \in MMSI \ Stale
    BY <1>3, <1>4, <1>7
  <2>. QED
    BY <1>7, <2>1, PlannedShips
<1>. QED
  BY <1>10, <1>11, <1>12, <1>13

\* The end of a tick leaves no orders and no pointers.
LEMMA EndedTick ==
    ASSUME EndTick
    PROVE  /\ BatchTyped' /\ held' = {} /\ pc' = "idle" /\ snap' = snap
           /\ DOMAIN spawns' = {} /\ DOMAIN updates' = {}
<1>1. /\ spawns' \in [DOMAIN spawns' -> SpawnOrder] /\ DOMAIN spawns' = {}
      /\ updates' \in [DOMAIN updates' -> UpdateOrder] /\ DOMAIN updates' = {}
  BY DEF EndTick, NoOrders
<1>. QED
  BY <1>1 DEF EndTick, BatchTyped, BatchEmpty

\* What the commit makes of the table: the ships that were held for spawning
\* have joined the spawned ones, and nothing else has changed state or group.
LEMMA CommittedStates ==
    ASSUME IInv, TickCommit
    PROVE  /\ ships' = Committed /\ ships' \in [MMSI -> Ship]
           /\ Spawned' = Spawned \cup (held \cap DOMAIN spawns)
           /\ Tracked' = Tracked
           /\ \A m \in MMSI : ships'[m].name = ships[m].name /\ ships'[m].fix = ships[m].fix
           /\ \A m \in held \cap DOMAIN spawns :
                 ships'[m].state = "Spawned" /\ ships'[m].group = spawns[m].group
           /\ \A m \in MMSI \ (held \cap DOMAIN spawns) :
                 ships'[m].state = ships[m].state /\ ships'[m].group = ships[m].group
<1>. USE DEF IInv
<1>1. ships' = Committed /\ ships' \in [MMSI -> Ship]
  BY CommittedShips DEF TickCommit
<1>2. held \subseteq MMSI /\ \A m \in MMSI : ships[m] \in Ship
  BY DEF TypeOK, TableTyped, BatchTyped
<1>3. \A m \in held \cap DOMAIN spawns :
          /\ ships'[m].state = "Spawned" /\ ships'[m].group = spawns[m].group
          /\ ships'[m].name = ships[m].name /\ ships'[m].fix = ships[m].fix
  BY <1>1, <1>2, CommittedShips DEF CommitSpawn, Ship
<1>4. \A m \in held \ DOMAIN spawns :
          /\ ships'[m].state = ships[m].state /\ ships'[m].group = ships[m].group
          /\ ships'[m].name = ships[m].name /\ ships'[m].fix = ships[m].fix
  <2>1. \A m \in held \ DOMAIN spawns : updates[m] \in UpdateOrder
    BY DEF TypeOK, BatchTyped
  <2>. QED
    BY <1>1, <1>2, <2>1, CommittedShips, ShipMoved
<1>5. \A m \in MMSI \ held : ships'[m] = ships[m]
  BY <1>1, CommittedShips
<1>6. held \subseteq Tracked
  BY DEF BatchFitsTable
<1>. QED
  BY <1>1, <1>2, <1>3, <1>4, <1>5, <1>6 DEF Spawned, Tracked

\* Writing in vain and committing keep the invariant.
LEMMA EndStep == ASSUME IInv, TickSendFails \/ TickCommit PROVE IInv'
<1>. USE DEF IInv
<1>1. /\ BatchTyped' /\ held' = {} /\ pc' = "idle" /\ snap' = snap
      /\ UNCHANGED <<theatre, settings, stopped, req, ais>> /\ up' \in {up, FALSE}
  BY EndedTick DEF TickSendFails, TickCommit
<1>2. StepsTyped'
  BY <1>1 DEF TypeOK, StepsTyped, settings
<1>3. BatchFitsTable' /\ UpdatesNameTheirShip'
  BY <1>1 DEF BatchFitsTable, UpdatesNameTheirShip
<1>4. CASE TickSendFails
  <2>1. TableTyped' /\ SpawnedIffGrouped'
    BY <1>4 DEF TickSendFails, TypeOK, TableTyped, SpawnedIffGrouped, Tracked, Spawned
  <2>. QED
    BY <1>1, <1>2, <1>3, <2>1 DEF TypeOK
<1>5. CASE TickCommit
  <2>1. TableTyped'
    BY <1>5, CommittedStates DEF TypeOK, TableTyped, Tracked
  <2>2. \A m \in held \cap DOMAIN spawns : spawns[m].group # NoName
    BY NameAssumption DEF TypeOK, BatchTyped, SpawnOrder
  <2>3. SpawnedIffGrouped'
    BY <1>5, <2>2, CommittedStates DEF SpawnedIffGrouped
  <2>. QED
    BY <1>1, <1>2, <1>3, <2>1, <2>3 DEF TypeOK
<1>. QED
  BY <1>4, <1>5

\* Every step of tick() preserves the inductive invariant.
LEMMA TickStep == ASSUME IInv, TickNext PROVE IInv'
BY TurnStep, PlanStep, EndStep DEF TickNext

------------------------------------------------------------------------------
(* The handlers and the environment.                                       *)

\* Every step of the dashboard's requests preserves the inductive invariant.
LEMMA RequestStep == ASSUME IInv, RequestNext PROVE IInv'
<1>1. TypeOK
  BY DEF IInv
<1>2. ASSUME ToggleTrackingOn \/ ToggleSpawningOn
      PROVE  IInv'
  BY <1>1, <1>2, ElsewhereStep
     DEF ToggleTrackingOn, ToggleSpawningOn, TypeOK, StepsTyped, settings
<1>3. ASSUME NEW r \in Requests,
             ToggleTrackingOff(r) \/ ToggleSpawningOff(r) \/ Stop(r)
             \/ SendClear(r) \/ SendClearFails(r)
      PROVE  IInv'
  BY <1>1, <1>3, ElsewhereStep
     DEF ToggleTrackingOff, ToggleSpawningOff, Stop, SendClear, SendClearFails,
         AfterClear, TypeOK, StepsTyped, settings
<1>4. ASSUME NEW r \in Requests, Wipe(r)
      PROVE  IInv'
  <2>1. /\ ships' = [m \in MMSI |-> IF m \in MMSI THEN NoShip ELSE ships[m]]
        /\ held' = held \ MMSI
    BY <1>1, <1>4 DEF Wipe, TypeOK, BatchTyped
  <2>2. req' \in [Requests -> {"none", "clearAll", "wipe", "clearSpawned", "reset"}]
    BY <1>1, <1>4 DEF Wipe, TypeOK, StepsTyped
  <2>3. UNCHANGED <<theatre, settings, stopped, tick, ais, up>>
    BY <1>4 DEF Wipe
  <2>. QED
    BY <2>1, <2>2, <2>3, ForgetStep
<1>5. ASSUME NEW r \in Requests, Reset(r)
      PROVE  IInv'
  BY <1>1, <1>5, ResetStep DEF Reset, TypeOK, StepsTyped
<1>. QED
  BY <1>2, <1>3, <1>4, <1>5 DEF RequestNext, FinishRequest

\* So does everything that happens to a coordinator from outside: a theatre, a
\* reject, a cap, the passing of time and the link.
LEMMA EnvStep == ASSUME IInv, EnvNext PROVE IInv'
<1>1. TypeOK
  BY DEF IInv
<1>2. ASSUME NEW t \in Theatres, SetTheatre(t)
      PROVE  IInv'
  BY <1>1, <1>2, ResetStep DEF SetTheatre, TypeOK, StepsTyped
<1>3. ASSUME NEW m \in MMSI, Reject(m)
      PROVE  IInv'
  <2>1. ships' = [k \in MMSI |-> IF k \in {m} THEN NoShip ELSE ships[k]]
    BY <1>1, <1>3 DEF Reject, TypeOK, TableTyped
  <2>2. UNCHANGED <<theatre, settings, stopped, tick, ais, up>> /\ held' = held \ {m}
        /\ req' \in [Requests -> {"none", "clearAll", "wipe", "clearSpawned", "reset"}]
    BY <1>1, <1>3 DEF Reject, TypeOK, StepsTyped
  <2>. QED
    BY <2>1, <2>2, ForgetStep
<1>4. ASSUME \/ \E n \in Caps : SetMaxShips(n)
             \/ LinkUp \/ LinkDown
      PROVE  IInv'
  BY <1>1, <1>4, ElsewhereStep
     DEF SetMaxShips, LinkUp, LinkDown, TypeOK, StepsTyped, settings
<1>. QED
  BY <1>2, <1>3, <1>4, ClockStep DEF EnvNext

\* Every step of the coordinator keeps the invariant.
LEMMA Inductive == IInv /\ [Next]_vars => IInv'
<1>1. ASSUME IInv, UNCHANGED vars
      PROVE  IInv'
  BY <1>1, ElsewhereStep DEF IInv, TypeOK, StepsTyped, vars, settings
<1>. QED
  BY <1>1, AisStep, TickStep, RequestStep, EnvStep DEF Next

\* In every behaviour the table is well formed and the batch under way fits it.
THEOREM Invariance == Spec => []IInv
BY Initially, Inductive, PTL DEF Spec

\* The type invariant.
THEOREM TypeCorrect == Spec => []TypeOK
BY Invariance, PTL DEF IInv

\* A ship has a group name exactly while it is spawned.
THEOREM SpawnedAreGrouped == Spec => []SpawnedIffGrouped
BY Invariance, PTL DEF IInv

\* What a tick carries from plan to commit fits the table it finds there.
THEOREM BatchesFit == Spec => []BatchFitsTable
BY Invariance, PTL DEF IInv

\* The reroutes of a tick name the group their ship has in DCS.
THEOREM UpdatesFindTheirShip == Spec => []UpdatesNameTheirShip
BY Invariance, PTL DEF IInv

\* The table, and the orders under way, know the group of every ship in DCS.
THEOREM GroupsKnown == Spec => []GroupsAreKnown
BY SpawnedAreGrouped, UpdatesFindTheirShip, PTL DEF GroupsAreKnown

------------------------------------------------------------------------------
(* What a step may not do.                                                 *)

\* Ships in DCS stay there, ships elsewhere do not get there, and no group is
\* renamed.
Calm == /\ Spawned' = Spawned
        /\ \A m \in Spawned : ships'[m].group = ships[m].group

\* The steps that are not calm are the plan, the commit, the two ways of
\* emptying or resetting the table, and the rejection.
LEMMA CalmSteps ==
    ASSUME IInv, [Next]_vars
    PROVE  \/ Calm
           \/ TickPlan \/ TickCommit
           \/ \E r \in Requests : Wipe(r)
           \/ \E m \in MMSI : Reject(m)
           \/ ships' = BackToPending
<1>1. ships \in [MMSI -> Ship]
  BY DEF IInv, TypeOK, TableTyped
<1>2. ASSUME NEW m \in MMSI, NEW n \in Names, NEW v \in Speeds, AisApply(m, n, v)
      PROVE  Calm
  <2>. DEFINE old == IF m \in Tracked THEN ships[m] ELSE NewShip
  <2>1. ships' = [ships EXCEPT ![m] = Updated(old, n, v)]
    BY <1>2 DEF AisApply
  <2>2. old \in Ship /\ old.state # "Spawned" <=> m \notin Spawned
    BY <1>1, ShipAbsent DEF Tracked, Spawned, NewShip, NoShip
  <2>3. Updated(old, n, v).state = old.state /\ Updated(old, n, v).group = old.group
    <3>1. old \in Ship
      BY <1>1, ShipAbsent
    <3>. QED
      BY <3>1 DEF Updated, Ship
  <2>4. m \in Spawned => old = ships[m]
    BY DEF Spawned, Tracked
  <2>. QED
    BY <1>1, <2>1, <2>2, <2>3, <2>4 DEF Calm, Spawned
<1>3. ASSUME NEW m \in MMSI, Age(m) \/ CoolOff(m)
      PROVE  Calm
  <2>1. /\ \A k \in MMSI \ {m} : ships'[k] = ships[k]
        /\ ships'[m].state = ships[m].state /\ ships'[m].group = ships[m].group
    BY <1>1, <1>3 DEF Age, CoolOff, Ship
  <2>. QED
    BY <2>1 DEF Calm, Spawned
<1>4. UNCHANGED ships => Calm
  BY DEF Calm, Spawned
<1>5. AisNext => Calm
  BY <1>2, <1>4 DEF AisNext, AisGate, AisPlace
<1>6. TickNext => UNCHANGED ships \/ TickPlan \/ TickCommit
  BY DEF TickNext, TickRead, TickSend, TickSendFails, TickExit
<1>7. RequestNext => \/ UNCHANGED ships \/ ships' = BackToPending
                     \/ \E r \in Requests : Wipe(r)
  BY DEF RequestNext, ToggleTrackingOn, ToggleSpawningOn, ToggleTrackingOff,
         ToggleSpawningOff, Stop, FinishRequest, SendClear, SendClearFails, Reset
<1>8. EnvNext => \/ UNCHANGED ships \/ ships' = BackToPending \/ Calm
                 \/ \E m \in MMSI : Reject(m)
  BY <1>3 DEF EnvNext, SetTheatre, SetMaxShips, LinkUp, LinkDown
<1>9. UNCHANGED vars => UNCHANGED ships
  BY DEF vars
<1>. QED
  BY <1>4, <1>5, <1>6, <1>7, <1>8, <1>9 DEF Next

\* What the other steps do to the ships in DCS.
LEMMA OtherSteps ==
    ASSUME IInv
    PROVE  /\ TickPlan => Spawned' \subseteq Spawned /\ \A m \in Spawned' : ships'[m] = ships[m]
           /\ TickCommit => /\ Spawned' = Spawned \cup (held \cap DOMAIN spawns)
                            /\ \A m \in Spawned : ships'[m].group = ships[m].group
           /\ \A r \in Requests : Wipe(r) => Spawned' = {}
           /\ \A m \in MMSI : Reject(m) =>
                 /\ Spawned' = Spawned \ {m}
                 /\ \A k \in MMSI \ {m} : ships'[k] = ships[k]
           /\ ships' = BackToPending => Spawned' = {}
<1>1. ships \in [MMSI -> Ship]
  BY DEF IInv, TypeOK, TableTyped
<1>2. TickPlan => Spawned' \subseteq Spawned /\ \A m \in Spawned' : ships'[m] = ships[m]
  BY PlannedShips DEF Spawned
<1>3. TickCommit => /\ Spawned' = Spawned \cup (held \cap DOMAIN spawns)
                    /\ \A m \in Spawned : ships'[m].group = ships[m].group
  <2>1. \A m \in Spawned : m \in MMSI \ (held \cap DOMAIN spawns)
    BY DEF IInv, BatchFitsTable, Pending, Spawned
  <2>. QED
    BY <2>1, CommittedStates
<1>4. ASSUME NEW r \in Requests, Wipe(r)
      PROVE  Spawned' = {}
  BY <1>4 DEF Wipe, NoShip, Spawned
<1>5. ASSUME NEW m \in MMSI, Reject(m)
      PROVE  Spawned' = Spawned \ {m} /\ \A k \in MMSI \ {m} : ships'[k] = ships[k]
  BY <1>1, <1>5 DEF Reject, NoShip, Spawned
<1>6. ships' = BackToPending => Spawned' = {}
  BY <1>1, ResetShips DEF Spawned
<1>. QED
  BY <1>2, <1>3, <1>4, <1>5, <1>6

\* No step takes the ships in DCS above the cap its tick has read.
THEOREM CapHolds == Spec => CapRespected
<1>. DEFINE Cap == ~(Spawned' \subseteq Spawned) => Cardinality(Spawned') <= snap.cap
<1>1. IInv /\ [Next]_vars => Cap
  <2>. SUFFICES ASSUME IInv, [Next]_vars, ~(Spawned' \subseteq Spawned)
                PROVE  Cardinality(Spawned') <= snap.cap
    OBVIOUS
  <2>1. TickCommit
    BY CalmSteps, OtherSteps DEF Calm
  <2>2. Spawned' = Spawned \cup (held \cap DOMAIN spawns) /\ held \cap DOMAIN spawns # {}
    BY <2>1, OtherSteps
  <2>. QED
    BY <2>2 DEF IInv, BatchFitsTable
<1>. QED
  BY <1>1, Invariance, PTL DEF Spec, CapRespected

\* The group name of a ship that stays in DCS does not change.
THEOREM GroupsAreFrozen == Spec => GroupFrozen
<1>. DEFINE Frozen == \A m \in Spawned : m \in Spawned' => ships'[m].group = ships[m].group
<1>1. IInv /\ [Next]_vars => Frozen
  <2>. SUFFICES ASSUME IInv, [Next]_vars, NEW m \in Spawned, m \in Spawned'
                PROVE  ships'[m].group = ships[m].group
    OBVIOUS
  <2>1. m \in MMSI
    BY DEF Spawned
  <2>. QED
    BY <2>1, CalmSteps, OtherSteps DEF Calm
<1>. QED
  BY <1>1, Invariance, PTL DEF Spec, GroupFrozen

\* A ship in DCS is dropped when its removal is planned, when the hook rejected
\* it, or with the whole table.
THEOREM DropsAreJustified == Spec => DroppedForAReason
<1>. DEFINE Reason(m) ==
         \/ [mmsi |-> m, group |-> ships[m].group] \in removes'
         \/ \E r \in Requests : req[r] = "wipe" /\ req'[r] = "none"
         \/ ships' = [ships EXCEPT ![m] = NoShip]
<1>. DEFINE Justified == \A m \in Spawned : ships'[m].state = "Untracked" => Reason(m)
<1>1. IInv /\ [Next]_vars => Justified
  <2>. SUFFICES ASSUME IInv, [Next]_vars, NEW m \in Spawned, ships'[m].state = "Untracked"
                PROVE  Reason(m)
    OBVIOUS
  <2>1. m \in MMSI /\ m \notin Spawned' /\ ships[m].state = "Spawned"
    BY DEF Spawned
  <2>2. ships \in [MMSI -> Ship] /\ req \in [Requests -> {"none", "clearAll", "wipe", "clearSpawned", "reset"}]
    BY DEF IInv, TypeOK, TableTyped, StepsTyped
  <2>3. ~Calm
    BY <2>1 DEF Calm
  <2>4. ~(ships' = BackToPending)
    BY <2>1, <2>2, ResetShips
  <2>5. ~TickCommit
    BY <2>1, OtherSteps
  <2>6. CASE TickPlan
    <3>1. m \in StaleSpawned
      BY <2>1, <2>6, PlannedShips
    <3>. QED
      BY <2>6, <3>1 DEF TickPlan, RemoveOrders
  <2>7. ASSUME NEW r \in Requests, Wipe(r)
        PROVE  Reason(m)
    BY <2>2, <2>7 DEF Wipe
  <2>8. ASSUME NEW k \in MMSI, Reject(k)
        PROVE  Reason(m)
    BY <2>1, <2>8, OtherSteps DEF Reject
  <2>. QED
    BY <2>3, <2>4, <2>5, <2>6, <2>7, <2>8, CalmSteps
<1>. QED
  BY <1>1, Invariance, PTL DEF Spec, DroppedForAReason

------------------------------------------------------------------------------
(* The coordinator implements Fleet: the phase of a vessel is the state of  *)
(* its ship, the limit is the cap the last tick has read.  Each step of     *)
(* Coordinator is one step of Fleet or none; the inductive invariant is     *)
(* needed where the commit admits ships: they are still pending, and with   *)
(* the others within the limit.                                             *)

\* The phases after a step, vessel by vessel.
LEMMA PhasesMove ==
    ASSUME NEW S \in SUBSET MMSI, NEW p \in States,
           \A m \in S : ships'[m].state = p,
           \A m \in MMSI \ S : ships'[m].state = ships[m].state
    PROVE  F!Move(S, p)
BY DEF F!Move

\* What is in a phase of the fleet is in that state of the table.
LEMMA PhaseSets ==
    /\ F!InPhase("Pending") = Pending
    /\ F!InPhase("Spawned") = Spawned
    /\ F!InPhase("Untracked") = MMSI \ Tracked
BY DEF F!InPhase, Pending, Spawned, Tracked

\* A step that changes no state and no limit is a stutter.
LEMMA FleetStutter ==
    ASSUME \A m \in MMSI : ships'[m].state = ships[m].state, UNCHANGED snap
    PROVE  UNCHANGED F!fleet
BY DEF F!fleet

\* The coordinator starts where the fleet does: every vessel untracked.
LEMMA FleetInitially == Init => F!FleetInit
BY DEF Init, F!FleetInit, NoShip

\* Hearing a vessel is a sighting the first time, and nothing afterwards.
LEMMA FleetAis == ASSUME IInv, AisNext PROVE [F!FleetNext]_(F!fleet)
<1>1. ships \in [MMSI -> Ship]
  BY DEF IInv, TypeOK, TableTyped
<1>2. UNCHANGED snap
  BY DEF AisNext, AisGate, AisPlace, AisApply, tick
<1>3. CASE UNCHANGED ships
  BY <1>2, <1>3, FleetStutter
<1>4. ASSUME NEW m \in MMSI, NEW n \in Names, NEW v \in Speeds, AisApply(m, n, v)
      PROVE  [F!FleetNext]_(F!fleet)
  <2>. DEFINE old == IF m \in Tracked THEN ships[m] ELSE NewShip
  <2>1. ships' = [ships EXCEPT ![m] = Updated(old, n, v)]
    BY <1>4 DEF AisApply
  <2>2. old \in Ship
    BY <1>1, ShipAbsent
  <2>3. Updated(old, n, v).state = old.state
    BY <2>2 DEF Updated, Ship
  <2>4. CASE m \in Tracked
    BY <1>1, <1>2, <2>1, <2>3, <2>4, FleetStutter
  <2>5. CASE m \notin Tracked
    <3>1. F!Move({m}, "Pending")
      BY <1>1, <2>1, <2>3, <2>5, PhasesMove DEF NewShip, NoShip, States
    <3>2. F!Sight(m)
      BY <1>2, <2>5, <3>1, PhaseSets DEF F!Sight
    <3>. QED
      BY <3>2 DEF F!FleetNext
  <2>. QED
    BY <2>4, <2>5
<1>. QED
  BY <1>3, <1>4 DEF AisNext, AisGate, AisPlace

\* The tick sets the limit, drops the stale ships, and admits what it held.
LEMMA FleetTick == ASSUME IInv, TickNext PROVE [F!FleetNext]_(F!fleet)
<1>1. CASE TickRead
  <2>1. maxShips \in Caps
    BY DEF IInv, TypeOK, StepsTyped
  <2>2. F!SetLimit(maxShips)
    BY <1>1 DEF TickRead, F!SetLimit
  <2>. QED
    BY <2>1, <2>2 DEF F!FleetNext
<1>2. CASE TickPlan
  <2>1. PICK D \in SUBSET MMSI : D = Stale
    BY DEF Stale, Tracked
  <2>2. /\ \A m \in D : ships'[m].state = "Untracked"
        /\ \A m \in MMSI \ D : ships'[m].state = ships[m].state
    BY <1>2, <2>1, PlannedShips DEF NoShip
  <2>3. F!Move(D, "Untracked")
    BY <2>2, PhasesMove DEF States
  <2>4. F!Drop(D)
    BY <1>2, <2>3 DEF TickPlan, F!Drop
  <2>. QED
    BY <2>4 DEF F!FleetNext
<1>3. CASE TickCommit
  <2>1. PICK A \in SUBSET MMSI : A = held \cap DOMAIN spawns
    BY DEF IInv, BatchFitsTable, Pending
  <2>2. /\ \A m \in A : ships'[m].state = "Spawned"
        /\ \A m \in MMSI \ A : ships'[m].state = ships[m].state
    BY <1>3, <2>1, CommittedStates
  <2>3. UNCHANGED snap
    BY <1>3 DEF TickCommit, EndTick
  <2>4. CASE A = {}
    BY <2>2, <2>3, <2>4, FleetStutter
  <2>5. CASE A # {}
    <3>1. F!Move(A, "Spawned")
      BY <2>2, PhasesMove DEF States
    <3>2. A \subseteq Pending /\ Cardinality(Spawned \cup A) <= snap.cap
      BY <2>1, <2>5 DEF IInv, BatchFitsTable
    <3>3. A \subseteq F!InPhase("Pending")
      BY <3>2, PhaseSets
    <3>4. F!Cardinality(F!InPhase("Spawned") \cup A) <= snap.cap
      BY <3>2, PhaseSets DEF Cardinality, F!Cardinality
    <3>5. F!Admit(A)
      BY <2>3, <3>1, <3>3, <3>4 DEF F!Admit
    <3>. QED
      BY <3>5 DEF F!FleetNext
  <2>. QED
    BY <2>4, <2>5
<1>4. CASE TickSend \/ TickSendFails \/ TickExit
  BY <1>4, FleetStutter DEF TickSend, TickSendFails, TickExit, EndTick
<1>. QED
  BY <1>1, <1>2, <1>3, <1>4 DEF TickNext

\* A table that is reset is a recall.
LEMMA FleetRecall ==
    ASSUME IInv, ships' = BackToPending, UNCHANGED snap
    PROVE  F!Recall
<1>1. /\ \A m \in Spawned : ships'[m].state = "Pending"
      /\ \A m \in MMSI \ Spawned : ships'[m].state = ships[m].state
  BY ResetShips DEF IInv, TypeOK, TableTyped, Spawned
<1>2. F!Move(Spawned, "Pending")
  BY <1>1, PhasesMove DEF Spawned, States
<1>. QED
  BY <1>2, PhaseSets DEF F!Recall

\* The handlers, the hook and the rest recall or drop ships, or do nothing.
LEMMA FleetOthers == ASSUME IInv, RequestNext \/ EnvNext PROVE [F!FleetNext]_(F!fleet)
<1>1. ships \in [MMSI -> Ship]
  BY DEF IInv, TypeOK, TableTyped
<1>2. UNCHANGED snap
  BY DEF RequestNext, ToggleTrackingOn, ToggleSpawningOn, ToggleTrackingOff,
         ToggleSpawningOff, Stop, FinishRequest, SendClear, SendClearFails, Wipe, Reset,
         EnvNext, SetTheatre, Reject, SetMaxShips, Age, CoolOff, LinkUp, LinkDown, tick
<1>3. CASE UNCHANGED ships
  BY <1>2, <1>3, FleetStutter
<1>4. CASE ships' = BackToPending
  BY <1>2, <1>4, FleetRecall DEF F!FleetNext
<1>5. ASSUME NEW D \in SUBSET MMSI, \A m \in D : ships'[m] = NoShip,
             \A m \in MMSI \ D : ships'[m] = ships[m]
      PROVE  [F!FleetNext]_(F!fleet)
  <2>1. F!Move(D, "Untracked")
    BY <1>5, PhasesMove DEF NoShip, States
  <2>2. F!Drop(D)
    BY <1>2, <2>1 DEF F!Drop
  <2>. QED
    BY <2>2 DEF F!FleetNext
<1>6. ASSUME NEW r \in Requests, Wipe(r)
      PROVE  [F!FleetNext]_(F!fleet)
  <2>1. \A m \in MMSI : ships'[m] = NoShip
    BY <1>6 DEF Wipe
  <2>. QED
    BY <2>1, <1>5
<1>7. ASSUME NEW m \in MMSI, Reject(m)
      PROVE  [F!FleetNext]_(F!fleet)
  <2>1. {m} \in SUBSET MMSI /\ \A k \in {m} : ships'[k] = NoShip
    BY <1>1, <1>7 DEF Reject
  <2>2. \A k \in MMSI \ {m} : ships'[k] = ships[k]
    BY <1>1, <1>7 DEF Reject
  <2>. QED
    BY <2>1, <2>2, <1>5
<1>8. ASSUME NEW m \in MMSI, Age(m) \/ CoolOff(m)
      PROVE  [F!FleetNext]_(F!fleet)
  <2>1. \A k \in MMSI : ships'[k].state = ships[k].state
    BY <1>1, <1>8 DEF Age, CoolOff, Ship
  <2>. QED
    BY <1>2, <2>1, FleetStutter
<1>9. RequestNext => \/ UNCHANGED ships \/ ships' = BackToPending
                     \/ \E r \in Requests : Wipe(r)
  BY DEF RequestNext, ToggleTrackingOn, ToggleSpawningOn, ToggleTrackingOff,
         ToggleSpawningOff, Stop, FinishRequest, SendClear, SendClearFails, Reset
<1>10. EnvNext => \/ UNCHANGED ships \/ ships' = BackToPending
                  \/ \E m \in MMSI : Reject(m) \/ Age(m) \/ CoolOff(m)
  BY DEF EnvNext, SetTheatre, SetMaxShips, LinkUp, LinkDown
<1>. QED
  BY <1>3, <1>4, <1>6, <1>7, <1>8, <1>9, <1>10

\* Every behaviour of the coordinator is a behaviour of the fleet.
THEOREM Refinement == Spec => ImplementsFleet
<1>1. IInv /\ [Next]_vars => [F!FleetNext]_(F!fleet)
  <2>1. ASSUME IInv, UNCHANGED vars
        PROVE  UNCHANGED F!fleet
    BY <2>1, FleetStutter DEF vars, tick
  <2>. QED
    BY <2>1, FleetAis, FleetTick, FleetOthers DEF Next
<1>. QED
  BY <1>1, FleetInitially, Invariance, PTL DEF Spec, ImplementsFleet, F!FleetSpec

------------------------------------------------------------------------------
(* The ledger, where the environment adds no fault: table and DCS agree.   *)
(*                                                                         *)
(* Within a tick they do not, so the invariant has to say how far they are *)
(* apart (Agreement): between plan and write by the removals, between      *)
(* write and commit by what the commit will do.  That the batch, once      *)
(* written, amounts to just what the commit will do is BatchAgrees.  The   *)
(* entry of every ship of the batch has to be the one the plan saw: only   *)
(* because nothing resets or forgets ships in between (BatchStands).       *)

\* e is the group the table has for a ship s.
Is(e, s) == s.state = "Spawned" /\ s.group = e.group /\ s.static = e.static

Agree(S, t) == \A e \in Standing : e \in S <=> Is(e, t[e.mmsi])

Clearing == \E r \in Requests : req[r] \in {"wipe", "reset"}

Agreement ==
    up => /\ Clearing => standing = {}
          /\ pc = "planned" => Agree(Remove(standing, removes), ships)
          /\ pc = "sent" => Agree(standing, Committed)
          /\ ~Clearing /\ pc \notin {"planned", "sent"} => Agree(standing, ships)

DownIsEmpty == ~up => standing = {}

OneAtWork ==
    /\ \A q, r \in Requests : req[q] # "none" /\ req[r] # "none" => q = r
    /\ HandlerAtWork => ~TickAtWork

BatchStands ==
    pc \in {"planned", "sent"} =>
        /\ held = DOMAIN spawns \cup DOMAIN updates
        /\ DOMAIN updates \subseteq Spawned
        /\ \A m \in DOMAIN updates : ships[m].static <=> updates[m].convert

Disabled ==
    ~tracking =>
        /\ ais.at = "idle" /\ ~TickAtWork
        /\ Tracked = {} \/ \E r \in Requests : req[r] \in {"clearAll", "wipe"}

LedgerInv ==
    IInv /\ OneGroupEach /\ Agreement /\ DownIsEmpty /\ OneAtWork /\ BatchStands /\ Disabled

------------------------------------------------------------------------------
\* At first nothing stands, and nothing is at work.
LEMMA LedgerInitially == LedgerInit => LedgerInv
<1>. SUFFICES ASSUME LedgerInit PROVE LedgerInv
  OBVIOUS
<1>1. IInv
  BY Initially DEF LedgerInit
<1>2. Tracked = {}
  BY DEF LedgerInit, Init, NoShip, Tracked
<1>3. \A r \in Requests : req[r] = "none"
  BY DEF LedgerInit, Init
<1>. QED
  BY <1>1, <1>2, <1>3
     DEF LedgerInit, Init, LedgerInv, OneGroupEach, LedgerTypeOK, Agreement, DownIsEmpty,
         OneAtWork, HandlerAtWork, TickAtWork, BatchStands, Disabled

\* The coordinator's own invariant, whatever stands in DCS.
LEMMA TableKeeps ==
    ASSUME IInv, LedgerTypeOK, [LedgerNext]_ledgerVars
    PROVE  IInv'
<1>1. ASSUME NEW t \in Theatres, Rejoin(t)
      PROVE  IInv'
  BY <1>1, ResetStep DEF Rejoin, IInv, TypeOK, StepsTyped
<1>2. ASSUME MissionLoad
      PROVE  IInv'
  BY <1>2, ElsewhereStep DEF MissionLoad, IInv, TypeOK, StepsTyped, settings
<1>3. ASSUME NEW e \in standing, Rejected(e)
      PROVE  [Next]_vars
  <2>1. e.mmsi \in MMSI
    BY DEF LedgerTypeOK, Standing
  <2>. QED
    BY <1>3, <2>1 DEF Rejected, Next, EnvNext
<1>4. LedgerTick => Next
  BY DEF LedgerTick, Silent, Next, TickNext
<1>5. LedgerRequest => Next
  BY DEF LedgerRequest, Silent, Next, RequestNext, FinishRequest
<1>6. ASSUME NEW m \in MMSI, Age(m) \/ CoolOff(m)
      PROVE  Next
  BY <1>6 DEF Next, EnvNext
<1>7. ASSUME NEW n \in Caps, SetMaxShips(n)
      PROVE  Next
  BY <1>7 DEF Next, EnvNext
<1>8. LedgerEnv => IInv' \/ [Next]_vars
  BY <1>1, <1>2, <1>3, <1>6, <1>7 DEF LedgerEnv, Silent
<1>9. Silent(AisNext) => Next
  BY DEF Silent, Next
<1>10. UNCHANGED ledgerVars => UNCHANGED vars
  BY DEF ledgerVars
<1>. QED
  BY <1>4, <1>5, <1>8, <1>9, <1>10, Inductive DEF LedgerNext

------------------------------------------------------------------------------
(* What is written is what will be committed.                              *)

\* A vessel the table agrees about has at most one group.
LEMMA AgreeOnOne ==
    ASSUME NEW S \in SUBSET Standing, NEW t, Agree(S, t)
    PROVE  \A d, e \in S : d.mmsi = e.mmsi => d = e
BY DEF Agree, Is, Standing

\* Removing the groups of some vessels leaves the others'.
LEMMA RemoveOthers ==
    ASSUME NEW S, NEW orders, NEW M, NEW e, e.mmsi \notin M
    PROVE  e \in Remove(S, Named(orders, M)) <=> e \in S
<1>1. \A m \in M : [mmsi |-> e.mmsi, group |-> e.group] # [mmsi |-> m, group |-> orders[m].group]
  <2>. TAKE m \in M
  <2>. DEFINE a == [mmsi |-> e.mmsi, group |-> e.group]
              b == [mmsi |-> m, group |-> orders[m].group]
  <2>1. a.mmsi = e.mmsi /\ b.mmsi = m
    OBVIOUS
  <2>. QED
    BY <2>1
<1>. QED
  BY <1>1 DEF Remove, Named

\* The removals name the ships that have gone, the spawns ships that are not
\* there, the updates ships under the group and of the kind they have.
LEMMA BatchAgrees ==
    ASSUME IInv, BatchStands, LedgerTypeOK, pc = "planned",
           Agree(Remove(standing, removes), ships)
    PROVE  /\ Written(removes, DOMAIN spawns, DOMAIN updates) \subseteq Standing
           /\ Agree(Written(removes, DOMAIN spawns, DOMAIN updates), Committed)
<1>. DEFINE S0 == Remove(standing, removes)
            D == DOMAIN spawns
            U == DOMAIN updates
            S1 == Spawn(S0, D)
            S2 == Update(S1, U)
<1>1. TypeOK
  BY DEF IInv
<1>2. /\ S0 \subseteq Standing /\ D \subseteq MMSI /\ U \subseteq MMSI
      /\ \A m \in D : spawns[m] \in SpawnOrder
      /\ \A m \in U : updates[m] \in UpdateOrder
      /\ \A m \in MMSI : ships[m] \in Ship
  BY <1>1 DEF TypeOK, BatchTyped, TableTyped, LedgerTypeOK, Remove
<1>3. /\ \A m \in D : ships[m].state = "Pending"
      /\ \A m \in U : /\ ships[m].state = "Spawned" /\ ships[m].group = updates[m].group
                      /\ ships[m].static <=> updates[m].convert
      /\ held = D \cup U /\ D \cap U = {}
  BY DEF IInv, BatchFitsTable, BatchStands, UpdatesNameTheirShip, Pending, Spawned
<1>4. \A m \in D : /\ spawns[m].group \in Names /\ spawns[m].static \in BOOLEAN
  BY <1>2 DEF SpawnOrder
<1>5. \A m \in U : /\ updates[m].group \in Names /\ updates[m].convert \in BOOLEAN
  BY <1>2 DEF UpdateOrder
<1>6. /\ S1 \subseteq Standing
      /\ \A e \in Standing : e \in S1 <=> IF e.mmsi \in D
                                          THEN /\ e.group = spawns[e.mmsi].group
                                               /\ e.static = spawns[e.mmsi].static
                                          ELSE e \in S0
  <2>1. S1 \subseteq Standing
    BY <1>2, <1>4 DEF Spawn, Remove, Standing
  <2>2. ASSUME NEW e \in Standing, e.mmsi \in D
        PROVE  e \notin S0
    BY <1>2, <1>3, <2>2 DEF Agree, Is
  <2>3. ASSUME NEW e \in Standing, e.mmsi \notin D
        PROVE  e \in S1 <=> e \in S0
    <3>. DEFINE New == {[mmsi |-> m, group |-> spawns[m].group, static |-> spawns[m].static] :
                            m \in D}
    <3>1. \A n \in New : n.mmsi \in D
      OBVIOUS
    <3>2. e \in S1 <=> e \in Remove(S0, Named(spawns, D)) \/ e \in New
      BY DEF Spawn
    <3>. QED
      BY <2>3, <3>1, <3>2, RemoveOthers
  <2>4. ASSUME NEW e \in Standing, e.mmsi \in D
        PROVE  e \in S1 <=> e.group = spawns[e.mmsi].group /\ e.static = spawns[e.mmsi].static
    <3>1. e \in S1 <=> e \in {[mmsi |-> m, group |-> spawns[m].group,
                               static |-> spawns[m].static] : m \in D}
      BY <2>2, <2>4 DEF Spawn, Remove
    <3>2. e = [mmsi |-> e.mmsi, group |-> e.group, static |-> e.static]
      BY DEF Standing
    <3>. QED
      BY <3>1, <3>2, <2>4
  <2>. QED
    BY <2>1, <2>3, <2>4
<1>7. \A m \in U : \A e \in Standing :
          e.mmsi = m /\ e \in S1 => /\ e.group = updates[m].group
                                    /\ e.static <=> updates[m].convert
  <2>. TAKE m \in U
  <2>. TAKE e \in Standing
  <2>. HAVE e.mmsi = m /\ e \in S1
  <2>1. Is(e, ships[m])
    BY <1>2, <1>3, <1>6 DEF Agree
  <2>2. e.static \in BOOLEAN /\ ships[m].static \in BOOLEAN
    BY <1>2 DEF Standing, Ship
  <2>. QED
    BY <2>1, <2>2, <1>3, <1>5 DEF Is
<1>8. \A m \in U : ~\E e \in S1 : /\ e.mmsi = m /\ e.group = updates[m].group
                                  /\ e.static /\ ~updates[m].convert
  BY <1>6, <1>7
<1>9. S2 = Remove(S1, Named(updates, U)) \cup
           {[mmsi |-> m, group |-> updates[m].group, static |-> FALSE] : m \in U}
  BY <1>8 DEF Update
<1>10. /\ S2 \subseteq Standing
       /\ \A e \in Standing : e \in S2 <=> IF e.mmsi \in U
                                           THEN e.group = updates[e.mmsi].group /\ ~e.static
                                           ELSE e \in S1
  <2>1. S2 \subseteq Standing
    <3>1. Remove(S1, Named(updates, U)) \subseteq S1
      BY DEF Remove
    <3>2. {[mmsi |-> m, group |-> updates[m].group, static |-> FALSE] : m \in U} \subseteq Standing
      <4>1. ASSUME NEW m \in U
            PROVE  [mmsi |-> m, group |-> updates[m].group, static |-> FALSE] \in Standing
        BY <1>2, <1>5 DEF Standing
      <4>. QED
        BY <4>1
    <3>. QED
      BY <1>6, <1>9, <3>1, <3>2
  <2>2. ASSUME NEW e \in Standing, e.mmsi \notin U
        PROVE  e \in S2 <=> e \in S1
    <3>. DEFINE New == {[mmsi |-> m, group |-> updates[m].group, static |-> FALSE] : m \in U}
    <3>1. \A n \in New : n.mmsi \in U
      OBVIOUS
    <3>2. e \in S2 <=> e \in Remove(S1, Named(updates, U)) \/ e \in New
      BY <1>9
    <3>. QED
      BY <2>2, <3>1, <3>2, RemoveOthers
  <2>3. ASSUME NEW e \in Standing, e.mmsi \in U
        PROVE  e \notin Remove(S1, Named(updates, U))
    BY <1>7, <2>3 DEF Remove, Named
  <2>4. ASSUME NEW e \in Standing, e.mmsi \in U
        PROVE  e \in S2 <=> e.group = updates[e.mmsi].group /\ ~e.static
    <3>1. e \in S2 <=> e \in {[mmsi |-> m, group |-> updates[m].group, static |-> FALSE] :
                                  m \in U}
      BY <1>9, <2>3, <2>4
    <3>2. e = [mmsi |-> e.mmsi, group |-> e.group, static |-> e.static] /\ e.static \in BOOLEAN
      BY DEF Standing
    <3>. QED
      BY <3>1, <3>2, <2>4
  <2>. QED
    BY <2>1, <2>2, <2>4
<1>11. ASSUME NEW e \in Standing
       PROVE  e \in S2 <=> Is(e, Committed[e.mmsi])
  <2>1. e.mmsi \in MMSI /\ e.static \in BOOLEAN
    BY DEF Standing
  <2>2. CASE e.mmsi \in D
    <3>1. Committed[e.mmsi] = CommitSpawn(ships[e.mmsi], spawns[e.mmsi])
      BY <1>1, <1>3, <2>2, CommittedShips
    <3>2. Is(e, Committed[e.mmsi]) <=> /\ e.group = spawns[e.mmsi].group
                                       /\ e.static = spawns[e.mmsi].static
      BY <3>1, <1>2, <2>1 DEF Is, CommitSpawn, Ship
    <3>. QED
      BY <3>2, <2>2, <1>3, <1>6, <1>10
  <2>3. CASE e.mmsi \in U
    <3>1. Committed[e.mmsi] = CommitUpdate(ships[e.mmsi], updates[e.mmsi])
      BY <1>1, <1>3, <2>3, CommittedShips
    <3>2. /\ Committed[e.mmsi].state = "Spawned"
          /\ Committed[e.mmsi].group = updates[e.mmsi].group
          /\ Committed[e.mmsi].static = FALSE
      BY <3>1, <1>2, <1>3, <1>5, <2>1, <2>3 DEF CommitUpdate, Ship
    <3>. QED
      BY <3>2, <2>1, <2>3, <1>10 DEF Is
  <2>4. CASE e.mmsi \notin D \cup U
    <3>1. Committed[e.mmsi] = ships[e.mmsi]
      BY <1>1, <1>3, <2>1, <2>4, CommittedShips
    <3>. QED
      BY <3>1, <2>4, <1>6, <1>10 DEF Agree
  <2>. QED
    BY <2>2, <2>3, <2>4
<1>. QED
  BY <1>10, <1>11 DEF Agree, Written

------------------------------------------------------------------------------
(* The steps.                                                              *)

\* A step that leaves ships in DCS what they are, and neither tick nor handlers.
Quiet ==
    /\ UNCHANGED <<tick, held, req, up>>
    /\ \A m \in MMSI : m \in Spawned' <=> m \in Spawned
    /\ \A m \in Spawned : /\ ships'[m].group = ships[m].group
                          /\ ships'[m].static = ships[m].static

\* It changes nothing of what the table counts, or will count.
LEMMA QuietCounts ==
    ASSUME IInv, IInv', BatchStands, Quiet
    PROVE  /\ \A e \in Standing : Is(e, ships'[e.mmsi]) <=> Is(e, ships[e.mmsi])
           /\ \A e \in Standing : Is(e, Committed'[e.mmsi]) <=> Is(e, Committed[e.mmsi])
           /\ BatchStands'
<1>. USE DEF Quiet
<1>1. /\ \A m \in MMSI : ships[m] \in Ship /\ ships'[m] \in Ship
      /\ TypeOK /\ TypeOK'
  BY DEF IInv, TypeOK, TableTyped
<1>2. \A e \in Standing : Is(e, ships'[e.mmsi]) <=> Is(e, ships[e.mmsi])
  BY DEF Is, Standing, Spawned
<1>3. \A e \in Standing : Is(e, Committed'[e.mmsi]) <=> Is(e, Committed[e.mmsi])
  <2>. TAKE e \in Standing
  <2>. DEFINE m == e.mmsi
  <2>1. m \in MMSI
    BY DEF Standing
  <2>2. CASE m \notin held
    <3>1. Committed[m] = ships[m] /\ Committed'[m] = ships'[m]
      BY <2>1, <2>2 DEF Committed
    <3>. QED
      BY <1>2, <3>1
  <2>3. CASE m \in held /\ m \in DOMAIN spawns
    <3>1. /\ Committed[m] = CommitSpawn(ships[m], spawns[m])
          /\ Committed'[m] = CommitSpawn(ships'[m], spawns[m])
      BY <2>1, <2>3 DEF Committed, tick
    <3>2. /\ Committed[m].state = Committed'[m].state
          /\ Committed[m].group = Committed'[m].group
          /\ Committed[m].static = Committed'[m].static
      BY <1>1, <2>1, <3>1 DEF CommitSpawn, Ship
    <3>. QED
      BY <3>2 DEF Is
  <2>4. CASE m \in held /\ m \notin DOMAIN spawns
    <3>1. /\ Committed[m] = CommitUpdate(ships[m], updates[m])
          /\ Committed'[m] = CommitUpdate(ships'[m], updates[m])
      BY <2>1, <2>4 DEF Committed, tick
    <3>2. /\ Committed[m].state = ships[m].state /\ Committed'[m].state = ships'[m].state
          /\ m \in Spawned => /\ Committed[m].group = Committed'[m].group
                              /\ Committed[m].static = Committed'[m].static
      <4>1. ships[m] \in Ship /\ ships'[m] \in Ship
        BY <1>1, <2>1
      <4>2. /\ Committed[m].state = ships[m].state /\ Committed[m].group = ships[m].group
            /\ Committed[m].static = IF updates[m].convert THEN FALSE ELSE ships[m].static
        BY <3>1, <4>1 DEF CommitUpdate, Ship
      <4>3. /\ Committed'[m].state = ships'[m].state /\ Committed'[m].group = ships'[m].group
            /\ Committed'[m].static = IF updates[m].convert THEN FALSE ELSE ships'[m].static
        BY <3>1, <4>1 DEF CommitUpdate, Ship
      <4>. QED
        BY <4>2, <4>3
    <3>. QED
      BY <3>2, <2>1 DEF Is, Spawned
  <2>. QED
    BY <2>2, <2>3, <2>4
<1>4. BatchStands'
  <2>1. Spawned' = Spawned
    BY DEF Spawned
  <2>2. DOMAIN updates \subseteq MMSI
    BY <1>1 DEF TypeOK, BatchTyped
  <2>. QED
    BY <2>1, <2>2 DEF BatchStands, tick
<1>. QED
  BY <1>2, <1>3, <1>4

\* So table and ledger stay as far apart as they were.
LEMMA QuietKeeps ==
    ASSUME LedgerInv, IInv', Disabled', Quiet, UNCHANGED standing
    PROVE  LedgerInv'
<1>. USE DEF LedgerInv
<1>1. /\ \A e \in Standing : Is(e, ships'[e.mmsi]) <=> Is(e, ships[e.mmsi])
      /\ \A e \in Standing : Is(e, Committed'[e.mmsi]) <=> Is(e, Committed[e.mmsi])
      /\ BatchStands'
  BY QuietCounts
<1>2. UNCHANGED <<pc, removes, req, up>>
  BY DEF Quiet, tick
<1>3. Agreement'
  BY <1>1, <1>2 DEF Agreement, Agree, Clearing, Remove
<1>. QED
  BY <1>1, <1>2, <1>3 DEF OneGroupEach, LedgerTypeOK, DownIsEmpty, OneAtWork, HandlerAtWork,
     TickAtWork

\* AIS updates, the passing of time, a new cap, switching on.
Quietly ==
    \/ AisNext \/ ToggleTrackingOn \/ ToggleSpawningOn
    \/ \E m \in MMSI : Age(m) \/ CoolOff(m)
    \/ \E n \in Caps : SetMaxShips(n)

LEMMA QuietSteps ==
    ASSUME IInv, Quietly
    PROVE  Quiet
<1>1. ships \in [MMSI -> Ship]
  BY DEF IInv, TypeOK, TableTyped
<1>2. ASSUME NEW m \in MMSI, NEW n \in Names, NEW v \in Speeds, AisApply(m, n, v)
      PROVE  Quiet
  <2>. DEFINE old == IF m \in Tracked THEN ships[m] ELSE NewShip
  <2>1. ships' = [ships EXCEPT ![m] = Updated(old, n, v)] /\ old \in Ship
    BY <1>1, <1>2, ShipAbsent DEF AisApply
  <2>2. /\ Updated(old, n, v).state = old.state /\ Updated(old, n, v).group = old.group
        /\ Updated(old, n, v).static = old.static
    BY <2>1 DEF Updated, Ship
  <2>3. m \notin Tracked => m \notin Spawned /\ old.state = "Pending"
    BY DEF Tracked, Spawned, NewShip, NoShip
  <2>4. m \in Tracked => old = ships[m]
    OBVIOUS
  <2>5. \A k \in MMSI : k \in Spawned' <=> k \in Spawned
    BY <1>1, <2>1, <2>2, <2>3, <2>4 DEF Spawned
  <2>6. \A k \in Spawned : /\ ships'[k].group = ships[k].group
                           /\ ships'[k].static = ships[k].static
    BY <1>1, <2>1, <2>2, <2>3, <2>4 DEF Spawned
  <2>. QED
    BY <1>2, <2>5, <2>6 DEF AisApply, Quiet
<1>3. ASSUME NEW m \in MMSI, Age(m) \/ CoolOff(m)
      PROVE  Quiet
  <2>1. \A k \in MMSI : /\ ships'[k].state = ships[k].state
                        /\ ships'[k].group = ships[k].group
                        /\ ships'[k].static = ships[k].static
    BY <1>1, <1>3 DEF Age, CoolOff, Ship
  <2>. QED
    BY <1>3, <2>1 DEF Age, CoolOff, Quiet, Spawned
<1>4. ASSUME UNCHANGED <<ships, tick, held, req, up>>
      PROVE  Quiet
  BY <1>4 DEF Quiet, Spawned
<1>. QED
  BY <1>2, <1>3, <1>4
     DEF Quietly, AisNext, AisGate, AisPlace, ToggleTrackingOn, ToggleSpawningOn, SetMaxShips

\* None of them has a vessel tracked while tracking is off.
LEMMA QuietlyDisabled ==
    ASSUME IInv, Disabled, Quietly
    PROVE  Disabled'
<1>1. UNCHANGED <<pc, req>>
  BY QuietSteps DEF Quiet, tick
<1>2. ASSUME NEW m \in MMSI, Age(m) \/ CoolOff(m)
      PROVE  Disabled'
  <2>1. ships \in [MMSI -> Ship]
    BY DEF IInv, TypeOK, TableTyped
  <2>2. \A k \in MMSI : ships'[k].state = ships[k].state
    BY <1>2, <2>1 DEF Age, CoolOff, Ship
  <2>3. Tracked' = Tracked /\ UNCHANGED <<ais, tracking>>
    BY <1>2, <2>2 DEF Age, CoolOff, settings, Tracked
  <2>. QED
    BY <1>1, <2>3 DEF Disabled, TickAtWork
<1>3. ASSUME NEW n \in Caps, SetMaxShips(n)
      PROVE  Disabled'
  <2>1. Tracked' = Tracked /\ UNCHANGED <<ais, tracking>>
    BY <1>3 DEF SetMaxShips, Tracked
  <2>. QED
    BY <1>1, <2>1 DEF Disabled, TickAtWork
<1>4. AisNext \/ ToggleTrackingOn \/ ToggleSpawningOn => tracking'
  BY DEF AisNext, AisGate, AisPlace, AisApply, ToggleTrackingOn, ToggleSpawningOn, settings, Disabled
<1>. QED
  BY <1>2, <1>3, <1>4 DEF Quietly, Disabled

\* The plan's updates are of ships in DCS, and know which are static objects.
LEMMA PlanStands ==
    ASSUME IInv, TickPlan
    PROVE  BatchStands'
<1>. DEFINE Moved == Converting \cup Drifted
<1>1. PICK C \in SUBSET Candidates : spawns' = SpawnOrders(C) /\ held' = C \cup Moved
  BY DEF TickPlan
<1>2. /\ updates' = UpdateOrders
      /\ DOMAIN spawns' = C /\ DOMAIN updates' = Moved
  BY <1>1 DEF TickPlan, SpawnOrders, UpdateOrders
<1>3. Moved \subseteq Spawned \ Stale
  BY DEF Converting, Drifted, Live
<1>4. /\ Moved \subseteq Spawned'
      /\ \A m \in Moved : ships'[m] = ships[m]
  BY <1>3, PlannedShips DEF Spawned
<1>5. \A m \in Moved : ships[m].static <=> m \in Converting
  BY DEF Converting, Drifted
<1>6. \A m \in Moved : updates'[m].convert = (m \in Converting)
  BY <1>2 DEF UpdateOrders
<1>. QED
  BY <1>1, <1>2, <1>4, <1>5, <1>6 DEF BatchStands

\* The plan's removals are the groups of the ships it forgets.
LEMMA PlanAgrees ==
    ASSUME IInv, TickPlan, Agree(standing, ships), UNCHANGED standing
    PROVE  Agree(Remove(standing, removes)', ships')
<1>1. removes' = {[mmsi |-> m, group |-> ships[m].group] : m \in StaleSpawned}
  BY DEF TickPlan, RemoveOrders
<1>2. StaleSpawned = Stale \cap Spawned
  BY DEF IInv, SpawnedIffGrouped, StaleSpawned, Spawned
<1>3. ASSUME NEW e \in Standing
      PROVE  e \in Remove(standing, removes)' <=> Is(e, ships'[e.mmsi])
  <2>. DEFINE n == [mmsi |-> e.mmsi, group |-> e.group]
  <2>1. e \in Remove(standing, removes)' <=> e \in standing /\ n \notin removes'
    BY DEF Remove
  <2>2. e.mmsi \in MMSI
    BY DEF Standing
  <2>3. CASE e.mmsi \in Stale
    <3>1. ~Is(e, ships'[e.mmsi])
      BY <2>3, PlannedShips DEF Is, NoShip
    <3>2. e \in standing => e.mmsi \in StaleSpawned /\ ships[e.mmsi].group = e.group
      BY <1>2, <2>2, <2>3 DEF Agree, Is, Spawned
    <3>. QED
      BY <1>1, <2>1, <3>1, <3>2
  <2>4. CASE e.mmsi \notin Stale
    <3>1. ships'[e.mmsi] = ships[e.mmsi]
      BY <2>2, <2>4, PlannedShips
    <3>2. \A o \in removes' : o.mmsi \in Stale
      BY <1>1, <1>2
    <3>3. n \notin removes'
      BY <2>4, <3>2
    <3>. QED
      BY <2>1, <3>1, <3>3 DEF Agree
  <2>. QED
    BY <2>3, <2>4
<1>. QED
  BY <1>3 DEF Agree

\* A tick at work has no handler beside it.
LEMMA TickIsAlone ==
    ASSUME OneAtWork, TickAtWork
    PROVE  ~HandlerAtWork /\ ~Clearing
BY DEF OneAtWork, HandlerAtWork, Clearing

\* While no fault occurs, a step of the tick brings table and ledger apart, or
\* together again.
LEMMA TickKeeps ==
    ASSUME Faults = {}, LedgerInv, IInv', LedgerTick
    PROVE  LedgerInv'
<1>. USE DEF LedgerInv
<1>1. CASE Silent(TickRead) /\ Apart("overlap", HandlerAtWork)
  <2>1. /\ UNCHANGED <<ships, up, req, standing, ais, tracking>>
        /\ pc = "idle" /\ pc' = "read" /\ tracking /\ ~HandlerAtWork
    BY <1>1 DEF Silent, TickRead, Apart, settings
  <2>. QED
    BY <2>1 DEF OneGroupEach, LedgerTypeOK, Agreement, Clearing, DownIsEmpty, OneAtWork,
       HandlerAtWork, BatchStands, Disabled
<1>2. CASE Silent(TickPlan)
  <2>1. /\ pc = "read" /\ pc' = "planned" /\ UNCHANGED <<standing, req, ais, up, tracking>>
        /\ removes' = RemoveOrders /\ updates' = UpdateOrders
        /\ \E C \in SUBSET Candidates : /\ spawns' = SpawnOrders(C)
                                        /\ held' = C \cup Converting \cup Drifted
    BY <1>2 DEF Silent, TickPlan, settings
  <2>2. /\ tracking /\ ~HandlerAtWork /\ ~Clearing
    BY <2>1, TickIsAlone DEF Disabled, TickAtWork
  <2>3. BatchStands'
    BY <1>2, PlanStands DEF Silent
  <2>4. up => Agree(Remove(standing, removes)', ships')
    <3>1. up => Agree(standing, ships)
      BY <2>1, <2>2 DEF Agreement
    <3>. QED
      BY <1>2, <3>1, PlanAgrees DEF Silent
  <2>. QED
    BY <2>1, <2>2, <2>3, <2>4 DEF OneGroupEach, LedgerTypeOK, Agreement, Clearing, DownIsEmpty,
       OneAtWork, HandlerAtWork, Disabled
<1>3. CASE Silent(TickCommit)
  <2>1. /\ pc = "sent" /\ pc' = "idle" /\ UNCHANGED <<standing, req, ais, up, tracking>>
        /\ ships' = Committed
    BY <1>3, EndedTick DEF Silent, TickCommit, settings
  <2>. QED
    BY <2>1 DEF OneGroupEach, LedgerTypeOK, Agreement, Clearing, DownIsEmpty,
       OneAtWork, TickAtWork, HandlerAtWork, Disabled, BatchStands
<1>4. CASE Silent(TickExit)
  <2>1. /\ UNCHANGED <<ships, up, req, standing, ais, tracking>>
        /\ pc = "idle" /\ pc' = "exited"
    BY <1>4 DEF Silent, TickExit, settings
  <2>. QED
    BY <2>1 DEF OneGroupEach, LedgerTypeOK, Agreement, Clearing, DownIsEmpty, OneAtWork,
       HandlerAtWork, TickAtWork, BatchStands, Disabled, Tracked
<1>5. CASE TickSend /\ standing' = Written(removes, DOMAIN spawns, DOMAIN updates)
  <2>1. /\ pc = "planned" /\ pc' = "sent" /\ (up \/ BatchEmpty)
        /\ UNCHANGED <<ships, removes, spawns, updates, held, req, ais, up, tracking>>
    BY <1>5 DEF TickSend, settings
  <2>2. ~Clearing
    BY <2>1, TickIsAlone DEF TickAtWork
  <2>3. up => OneGroupEach' /\ Agreement'
    <3>. SUFFICES ASSUME up PROVE OneGroupEach' /\ Agreement'
      OBVIOUS
    <3>1. standing' \subseteq Standing /\ Agree(standing', Committed)
      <4>1. LedgerTypeOK
        BY DEF OneGroupEach
      <4>2. Agree(Remove(standing, removes), ships)
        BY <2>1 DEF Agreement
      <4>3. standing' = Written(removes, DOMAIN spawns, DOMAIN updates)
        BY <1>5
      <4>. QED
        BY <2>1, <4>1, <4>2, <4>3, BatchAgrees
    <3>2. OneGroupEach'
      BY <3>1, AgreeOnOne DEF OneGroupEach, LedgerTypeOK
    <3>3. Committed' = Committed
      BY <2>1 DEF Committed
    <3>. QED
      <4>1. ~Clearing'
        BY <2>1, <2>2 DEF Clearing
      <4>2. Agree(standing', Committed')
        BY <3>1, <3>3
      <4>. QED
        BY <2>1, <3>2, <4>1, <4>2 DEF Agreement
  <2>4. ~up => standing' = {}
    <3>. SUFFICES ASSUME ~up PROVE standing' = {}
      OBVIOUS
    <3>1. standing = {} /\ DOMAIN spawns = {} /\ DOMAIN updates = {}
      BY <2>1 DEF DownIsEmpty, BatchEmpty
    <3>. QED
      BY <1>5, <3>1 DEF Written, Update, Spawn, Remove
  <2>5. OneGroupEach' /\ Agreement' /\ DownIsEmpty'
    BY <2>1, <2>3, <2>4 DEF OneGroupEach, LedgerTypeOK, Agreement, DownIsEmpty
  <2>6. OneAtWork' /\ Disabled'
    BY <2>1, <2>2 DEF OneAtWork, TickAtWork, HandlerAtWork, Disabled, Tracked
  <2>7. BatchStands'
    BY <2>1 DEF BatchStands, Spawned
  <2>. QED
    BY <2>5, <2>6, <2>7
<1>6. CASE /\ TickSendFails /\ Apart("link", up)
           /\ standing' \in (IF up THEN CutShort ELSE {standing})
  <2>1. /\ ~up /\ ~up' /\ pc = "planned" /\ pc' = "idle"
        /\ UNCHANGED <<ships, req, ais, tracking, standing>>
    BY <1>6, EndedTick DEF TickSendFails, Apart, settings
  <2>. QED
    BY <2>1 DEF OneGroupEach, LedgerTypeOK, Agreement, Clearing, DownIsEmpty,
       OneAtWork, TickAtWork, HandlerAtWork, Disabled, BatchStands
<1>. QED
  BY <1>1, <1>2, <1>3, <1>4, <1>5, <1>6 DEF LedgerTick

\* Nobody else is at work when a handler switches off.
LEMMA SwitchesAlone ==
    ASSUME IInv, NEW r \in Requests,
           ToggleTrackingOff(r) \/ ToggleSpawningOff(r) \/ Stop(r),
           ~(TickAtWork \/ HandlerAtWork \/ ais.at # "idle")
    PROVE  /\ UNCHANGED <<ships, pc, held, up, ais>>
           /\ ~Clearing /\ ~Clearing' /\ OneAtWork'
           /\ ~TickAtWork' /\ pc \notin {"planned", "sent"}
<1>1. /\ UNCHANGED <<ships, pc, held, up, ais>>
      /\ \E step \in {"clearAll", "clearSpawned"} : req' = [req EXCEPT ![r] = step]
  BY DEF ToggleTrackingOff, ToggleSpawningOff, Stop, tick
<1>2. \A q \in Requests : req[q] = "none"
  BY DEF HandlerAtWork
<1>3. req \in [Requests -> {"none", "clearAll", "wipe", "clearSpawned", "reset"}]
  BY DEF IInv, TypeOK, StepsTyped
<1>4. /\ req'[r] \in {"clearAll", "clearSpawned"}
      /\ \A q \in Requests \ {r} : req'[q] = "none"
  BY <1>1, <1>2, <1>3
<1>5. ~Clearing /\ ~Clearing'
  BY <1>2, <1>4 DEF Clearing
<1>6. ~TickAtWork' /\ pc \notin {"planned", "sent"}
  BY <1>1 DEF TickAtWork
<1>7. OneAtWork'
  BY <1>4, <1>6 DEF OneAtWork
<1>. QED
  BY <1>1, <1>5, <1>6, <1>7

LEMMA SwitchingOff ==
    ASSUME LedgerInv, IInv', NEW r \in Requests, UNCHANGED standing,
           ToggleTrackingOff(r) \/ ToggleSpawningOff(r) \/ Stop(r),
           ~(TickAtWork \/ HandlerAtWork \/ ais.at # "idle")
    PROVE  LedgerInv'
<1>. USE DEF LedgerInv
<1>1. UNCHANGED <<ships, pc, held, up, ais, standing>>
  BY SwitchesAlone
<1>2. \A q \in Requests : req[q] = "none"
  BY DEF HandlerAtWork
<1>3. req \in [Requests -> {"none", "clearAll", "wipe", "clearSpawned", "reset"}]
  BY DEF IInv, TypeOK, StepsTyped
<1>5. ~Clearing /\ ~Clearing'
  BY SwitchesAlone
<1>6. ~TickAtWork' /\ pc \notin {"planned", "sent"}
  BY SwitchesAlone
<1>7. OneAtWork'
  BY SwitchesAlone
<1>8. Agreement' /\ DownIsEmpty' /\ OneGroupEach' /\ BatchStands'
  BY <1>1, <1>5, <1>6 DEF Agreement, DownIsEmpty, OneGroupEach, LedgerTypeOK, BatchStands
<1>9. Disabled'
  <2>1. CASE ToggleTrackingOff(r)
    <3>1. req'[r] = "clearAll"
      BY <1>3, <2>1 DEF ToggleTrackingOff
    <3>. QED
      BY <1>1, <1>6, <3>1 DEF Disabled
  <2>2. CASE ToggleSpawningOff(r) \/ Stop(r)
    <3>1. tracking' = tracking
      BY <2>2 DEF ToggleSpawningOff, Stop, settings
    <3>2. Tracked' = Tracked
      BY <1>1 DEF Tracked
    <3>. QED
      BY <1>1, <1>2, <1>6, <3>1, <3>2 DEF Disabled
  <2>. QED
    BY <2>1, <2>2
<1>. QED
  BY <1>7, <1>8, <1>9

\* A handler goes on by itself.
LEMMA HandlerIsAlone ==
    ASSUME IInv, OneAtWork, NEW r \in Requests,
           SendClear(r) \/ SendClearFails(r) \/ Wipe(r) \/ Reset(r)
    PROVE  /\ UNCHANGED <<pc, tracking, ais>>
           /\ \A q \in Requests \ {r} : req[q] = "none" /\ req'[q] = "none"
           /\ ~TickAtWork /\ ~TickAtWork' /\ pc \notin {"planned", "sent"}
           /\ OneAtWork' /\ BatchStands'
<1>1. req \in [Requests -> {"none", "clearAll", "wipe", "clearSpawned", "reset"}]
  BY DEF IInv, TypeOK, StepsTyped
<1>2. req[r] # "none" /\ UNCHANGED <<pc, tracking, ais>>
  BY DEF SendClear, SendClearFails, Wipe, Reset, tick, settings
<1>3. /\ \A q \in Requests \ {r} : req[q] = "none"
      /\ ~TickAtWork /\ ~TickAtWork' /\ pc \notin {"planned", "sent"}
  BY <1>2 DEF OneAtWork, HandlerAtWork, TickAtWork
<1>4. \A q \in Requests \ {r} : req'[q] = "none"
  BY <1>1, <1>3 DEF SendClear, SendClearFails, Wipe, Reset
<1>5. OneAtWork' /\ BatchStands'
  BY <1>2, <1>3, <1>4 DEF OneAtWork, BatchStands
<1>. QED
  BY <1>2, <1>3, <1>4, <1>5

\* It clears DCS, then the table.
LEMMA HandlerKeeps ==
    ASSUME LedgerInv, IInv', NEW r \in Requests,
           \/ SendClear(r) /\ standing' = {}
           \/ SendClearFails(r) /\ ~up /\ UNCHANGED standing
           \/ (Wipe(r) \/ Reset(r)) /\ UNCHANGED standing
    PROVE  LedgerInv'
<1>. USE DEF LedgerInv
<1>1. req \in [Requests -> {"none", "clearAll", "wipe", "clearSpawned", "reset"}]
  BY DEF IInv, TypeOK, StepsTyped
<1>2. UNCHANGED <<pc, tracking, ais>>
  BY HandlerIsAlone
<1>3. /\ \A q \in Requests \ {r} : req[q] = "none"
      /\ ~TickAtWork /\ ~TickAtWork' /\ pc \notin {"planned", "sent"}
  BY HandlerIsAlone
<1>4. \A q \in Requests \ {r} : req'[q] = "none"
  BY HandlerIsAlone
<1>5. OneAtWork' /\ BatchStands'
  BY HandlerIsAlone
<1>6. CASE \/ SendClear(r) /\ standing' = {}
           \/ SendClearFails(r) /\ ~up /\ UNCHANGED standing
  <2>1. standing' = {} /\ req' = [req EXCEPT ![r] = AfterClear(req[r])] /\ UNCHANGED ships
    BY <1>6 DEF SendClear, SendClearFails, DownIsEmpty
  <2>2. /\ req'[r] \in {"wipe", "reset"}
        /\ req[r] = "clearAll" => req'[r] = "wipe"
        /\ req[r] # "wipe"
    BY <1>1, <1>6, <2>1 DEF AfterClear, SendClear, SendClearFails
  <2>3. Clearing' /\ Tracked' = Tracked
    BY <2>1, <2>2 DEF Clearing, Tracked
  <2>4. Agreement' /\ DownIsEmpty' /\ OneGroupEach'
    BY <1>2, <1>3, <2>1, <2>3 DEF Agreement, DownIsEmpty, OneGroupEach, LedgerTypeOK
  <2>5. Disabled'
    BY <1>2, <1>3, <2>2, <2>3 DEF Disabled
  <2>. QED
    BY <1>5, <2>4, <2>5
<1>7. CASE (Wipe(r) \/ Reset(r)) /\ UNCHANGED standing
  <2>1. /\ UNCHANGED <<up, standing>> /\ req' = [req EXCEPT ![r] = "none"]
        /\ req[r] \in {"wipe", "reset"}
    BY <1>7 DEF Wipe, Reset
  <2>2. standing = {}
    BY <2>1 DEF Agreement, DownIsEmpty, Clearing
  <2>3. Spawned' = {}
    BY <1>7, OtherSteps DEF Reset
  <2>4. Agree(standing', ships')
    BY <2>1, <2>2, <2>3 DEF Agree, Is, Standing, Spawned
  <2>5. Agreement' /\ DownIsEmpty' /\ OneGroupEach'
    <3>1. ~Clearing'
      BY <1>1, <1>4, <2>1 DEF Clearing
    <3>. QED
      BY <1>2, <1>3, <2>1, <2>2, <2>4, <3>1 DEF Agreement, DownIsEmpty, OneGroupEach, LedgerTypeOK
  <2>6. Disabled'
    <3>1. CASE Wipe(r)
      <4>1. Tracked' = {}
        BY <3>1 DEF Wipe, Tracked, NoShip
      <4>. QED
        BY <1>2, <1>3, <4>1 DEF Disabled
    <3>2. CASE Reset(r)
      <4>1. req[r] = "reset" /\ ships' = BackToPending
        BY <3>2 DEF Reset
      <4>2. Tracked = {} => Tracked' = {}
        <5>1. ships \in [MMSI -> Ship]
          BY DEF IInv, TypeOK, TableTyped
        <5>. QED
          BY <4>1, <5>1, ResetShips DEF Tracked
      <4>. QED
        BY <1>2, <1>3, <4>1, <4>2 DEF Disabled
    <3>. QED
      BY <1>7, <3>1, <3>2
  <2>. QED
    BY <1>5, <2>5, <2>6
<1>. QED
  BY <1>6, <1>7

\* A mission that is loaded takes all with it; a connection that is made finds
\* nothing and resets the table.
LEMMA ConnectionKeeps ==
    ASSUME Faults = {}, LedgerInv, IInv', MissionLoad \/ \E t \in Theatres : Rejoin(t)
    PROVE  LedgerInv'
<1>. USE DEF LedgerInv
<1>1. ships \in [MMSI -> Ship]
  BY DEF IInv, TypeOK, TableTyped
<1>2. CASE MissionLoad
  <2>1. ~up' /\ standing' = {} /\ UNCHANGED <<ships, pc, spawns, updates, held, req, ais, tracking>>
    BY <1>2 DEF MissionLoad, tick, settings
  <2>. QED
    BY <2>1 DEF OneGroupEach, LedgerTypeOK, Agreement, DownIsEmpty, OneAtWork, HandlerAtWork,
       TickAtWork, BatchStands, Disabled, Spawned, Tracked
<1>3. CASE \E t \in Theatres : Rejoin(t)
  <2>1. /\ ~up /\ up' /\ standing = {} /\ standing' = {} /\ ships' = BackToPending
        /\ UNCHANGED <<pc, req, ais, tracking>>
        /\ pc \notin {"planned", "sent"} /\ ~HandlerAtWork
    BY <1>3 DEF Rejoin, DownIsEmpty, tick, settings, Apart
  <2>2. Spawned' = {} /\ Tracked' = Tracked
    <3>1. \A m \in MMSI : ships[m].state \in States
      BY <1>1 DEF Ship
    <3>. QED
      BY <1>1, <2>1, <3>1, ResetShips DEF Spawned, Tracked, States
  <2>3. Agree(standing', ships')
    BY <2>1, <2>2 DEF Agree, Is, Standing, Spawned
  <2>4. ~Clearing'
    BY <2>1 DEF Clearing, HandlerAtWork
  <2>5. OneAtWork' /\ Disabled'
    BY <2>1, <2>2 DEF OneAtWork, HandlerAtWork, TickAtWork, Disabled
  <2>. QED
    BY <2>1, <2>3, <2>4, <2>5 DEF OneGroupEach, LedgerTypeOK, Agreement, DownIsEmpty, BatchStands
<1>. QED
  BY <1>2, <1>3

\* A rejection names a group the table has, too, and takes it from both.
LEMMA RejectKeeps ==
    ASSUME Faults = {}, LedgerInv, IInv', NEW e \in standing, up, Rejected(e)
    PROVE  LedgerInv'
<1>. USE DEF LedgerInv
<1>1. /\ ships \in [MMSI -> Ship]
      /\ standing \subseteq Standing /\ e \in Standing /\ e.mmsi \in MMSI
  BY DEF IInv, TypeOK, TableTyped, OneGroupEach, LedgerTypeOK, Standing
<1>2. pc \notin {"planned", "sent"} /\ standing' = standing \ {e}
  BY DEF Rejected, Apart
<1>3. ~Clearing /\ Agree(standing, ships)
  BY <1>2 DEF Agreement
<1>4. ships[e.mmsi].group = e.group
  BY <1>1, <1>3 DEF Agree, Is
<1>5. Reject(e.mmsi)
  BY <1>4 DEF Rejected
<1>6. /\ ships' = [ships EXCEPT ![e.mmsi] = NoShip]
      /\ UNCHANGED <<pc, req, ais, up, tracking>>
  BY <1>5 DEF Reject, tick, settings
<1>7. Agree(standing', ships')
  <2>. SUFFICES ASSUME NEW d \in Standing
                PROVE  d \in standing' <=> Is(d, ships'[d.mmsi])
    BY DEF Agree
  <2>1. CASE d.mmsi = e.mmsi
    <3>1. ~Is(d, ships'[d.mmsi])
      BY <1>1, <1>6, <2>1 DEF Is, NoShip
    <3>2. d \in standing => d = e
      BY <2>1 DEF OneGroupEach
    <3>. QED
      BY <1>2, <3>1, <3>2
  <2>2. CASE d.mmsi # e.mmsi
    <3>1. d.mmsi \in MMSI /\ ships'[d.mmsi] = ships[d.mmsi]
      BY <1>1, <1>6, <2>2 DEF Standing
    <3>. QED
      BY <1>2, <1>3, <2>2, <3>1 DEF Agree
  <2>. QED
    BY <2>1, <2>2
<1>8. Tracked' \subseteq Tracked
  BY <1>1, <1>6 DEF Tracked, NoShip
<1>9. Disabled' /\ OneAtWork'
  BY <1>6, <1>8 DEF Disabled, OneAtWork, HandlerAtWork, TickAtWork
<1>10. ~Clearing'
  BY <1>3, <1>6 DEF Clearing
<1>. QED
  BY <1>1, <1>2, <1>6, <1>7, <1>9, <1>10
     DEF OneGroupEach, LedgerTypeOK, Agreement, DownIsEmpty, BatchStands

\* Where no fault occurs every step keeps the invariant.
LEMMA LedgerInductive ==
    ASSUME Faults = {}, LedgerInv, [LedgerNext]_ledgerVars
    PROVE  LedgerInv'
<1>1. IInv'
  BY TableKeeps DEF LedgerInv, OneGroupEach
<1>0. ASSUME Quietly, UNCHANGED standing
      PROVE  LedgerInv'
  BY <1>0, <1>1, QuietSteps, QuietlyDisabled, QuietKeeps DEF LedgerInv
<1>2. CASE Silent(AisNext)
  BY <1>0, <1>2 DEF Silent, Quietly
<1>3. CASE LedgerTick
  BY <1>1, <1>3, TickKeeps
<1>4. CASE LedgerRequest
  <2>1. CASE Silent(ToggleTrackingOn) \/ Silent(ToggleSpawningOn)
    BY <1>0, <2>1 DEF Silent, Quietly
  <2>2. ASSUME NEW r \in Requests, Apart("overlap", TickAtWork \/ HandlerAtWork \/ ais.at # "idle"),
               Silent(ToggleTrackingOff(r) \/ ToggleSpawningOff(r) \/ Stop(r))
        PROVE  LedgerInv'
    BY <1>1, <2>2, SwitchingOff DEF Silent, Apart
  <2>3. ASSUME NEW r \in Requests, SendClear(r) /\ standing' = {}
        PROVE  LedgerInv'
    BY <1>1, <2>3, HandlerKeeps
  <2>4. ASSUME NEW r \in Requests, SendClearFails(r), Apart("link", up),
               standing' \in (IF up THEN {standing, {}} ELSE {standing})
        PROVE  LedgerInv'
    <3>1. ~up /\ UNCHANGED standing
      BY <2>4 DEF Apart
    <3>. QED
      BY <1>1, <2>4, <3>1, HandlerKeeps
  <2>5. ASSUME NEW r \in Requests, Silent(Wipe(r)) \/ Silent(Reset(r))
        PROVE  LedgerInv'
    BY <1>1, <2>5, HandlerKeeps DEF Silent
  <2>. QED
    BY <1>4, <2>1, <2>2, <2>3, <2>4, <2>5 DEF LedgerRequest
<1>5. CASE LedgerEnv
  <2>1. CASE MissionLoad \/ \E t \in Theatres : Rejoin(t)
    BY <1>1, <2>1, ConnectionKeeps
  <2>2. CASE \E e \in standing : up /\ Rejected(e)
    BY <1>1, <2>2, RejectKeeps
  <2>3. CASE \/ \E m \in MMSI : Silent(Age(m)) \/ Silent(CoolOff(m))
             \/ \E n \in Caps : Silent(SetMaxShips(n))
    BY <1>0, <2>3 DEF Silent, Quietly
  <2>. QED
    BY <1>5, <2>1, <2>2, <2>3 DEF LedgerEnv
<1>6. CASE UNCHANGED ledgerVars
  <2>1. UNCHANGED <<ships, tick, pc, held, req, up, standing, ais, tracking>>
    BY <1>6 DEF ledgerVars, vars, tick, settings
  <2>2. Spawned' = Spawned /\ Tracked' = Tracked
    BY <2>1 DEF Spawned, Tracked
  <2>3. Disabled'
    BY <2>1, <2>2 DEF LedgerInv, Disabled, TickAtWork
  <2>4. Quiet
    BY <2>1, <2>2 DEF Quiet
  <2>. QED
    BY <1>1, <2>1, <2>3, <2>4, QuietKeeps
<1>. QED
  BY <1>2, <1>3, <1>4, <1>5, <1>6 DEF LedgerNext

------------------------------------------------------------------------------
\* Without faults, table and ledger are never further apart than the tick and the
\* handlers account for.  (tick, disableAll, clearSpawned, SetTheatre, handleReject)
THEOREM LedgerInvariance ==
    ASSUME Faults = {}
    PROVE  LedgerSpec => []LedgerInv
<1>1. LedgerInv /\ [LedgerNext]_ledgerVars => LedgerInv'
  BY LedgerInductive
<1>. QED
  BY LedgerInitially, <1>1, PTL DEF LedgerSpec

\* Without faults, the table and DCS agree between two ticks on the groups, their
\* names and kinds.  (tick, phases 1 to 3)
THEOREM TableIsRight ==
    ASSUME Faults = {}
    PROVE  LedgerSpec => []TableMatchesDcs
<1>1. LedgerInv => TableMatchesDcs
  <2>. SUFFICES ASSUME LedgerInv, Settled
                PROVE  standing = {[mmsi |-> m, group |-> ships[m].group,
                                    static |-> ships[m].static] : m \in Spawned}
    BY DEF TableMatchesDcs
  <2>. DEFINE Rec(m) == [mmsi |-> m, group |-> ships[m].group, static |-> ships[m].static]
  <2>1. /\ up /\ ~Clearing /\ pc \notin {"planned", "sent"}
    BY DEF Settled, TickAtWork, HandlerAtWork, Clearing
  <2>2. Agree(standing, ships) /\ standing \subseteq Standing
    BY <2>1 DEF LedgerInv, Agreement, OneGroupEach, LedgerTypeOK
  <2>3. ASSUME NEW m \in Spawned
        PROVE  Rec(m) \in standing
    <3>1. m \in MMSI /\ ships[m].state = "Spawned" /\ ships[m] \in Ship
      BY DEF Spawned, LedgerInv, IInv, TypeOK, TableTyped
    <3>2. ships[m].group \in Names /\ ships[m].static \in BOOLEAN
      BY <3>1 DEF LedgerInv, IInv, SpawnedIffGrouped, Ship
    <3>3. Rec(m) \in Standing
      BY <3>1, <3>2 DEF Standing
    <3>4. Is(Rec(m), ships[m])
      BY <3>1 DEF Is
    <3>. QED
      BY <2>2, <3>3, <3>4 DEF Agree
  <2>4. ASSUME NEW e \in standing
        PROVE  e.mmsi \in Spawned /\ e = Rec(e.mmsi)
    BY <2>2 DEF Agree, Is, Spawned, Standing
  <2>. QED
    BY <2>3, <2>4
<1>. QED
  BY <1>1, LedgerInvariance, PTL

\* Without faults, a vessel never has two groups in DCS.  (tick)
THEOREM OneGroup ==
    ASSUME Faults = {}
    PROVE  LedgerSpec => []OneGroupEach
<1>1. LedgerInv => OneGroupEach
  BY DEF LedgerInv
<1>. QED
  BY <1>1, LedgerInvariance, PTL

\* Without faults, switching tracking off leaves nothing in DCS and nothing in the
\* table.  (disableAll)
THEOREM DisabledMeansClear ==
    ASSUME Faults = {}
    PROVE  LedgerSpec => []DisabledIsClear
<1>1. LedgerInv => DisabledIsClear
  <2>. SUFFICES ASSUME LedgerInv, Settled, ~tracking
                PROVE  standing = {} /\ Tracked = {}
    BY DEF DisabledIsClear, DcsIsClear
  <2>1. /\ up /\ ~Clearing /\ pc \notin {"planned", "sent"}
        /\ \A r \in Requests : req[r] = "none"
    BY DEF Settled, TickAtWork, HandlerAtWork, Clearing
  <2>2. Tracked = {}
    BY <2>1 DEF LedgerInv, Disabled
  <2>3. Agree(standing, ships) /\ standing \subseteq Standing
    BY <2>1 DEF LedgerInv, Agreement, OneGroupEach, LedgerTypeOK
  <2>4. \A e \in standing : e.mmsi \in Tracked
    BY <2>3 DEF Agree, Is, Tracked, Standing
  <2>. QED
    BY <2>2, <2>4
<1>. QED
  BY <1>1, LedgerInvariance, PTL

------------------------------------------------------------------------------
(* Where connections are lost as well, with all that stands in DCS, and a  *)
(* batch or a clear may be written in part: groups the table does not know *)
(* may stand for ever, and a vessel may have two.  The other half remains: *)
(* what the table counts as spawned stands.  No invariant of the calm runs *)
(* is needed but those of who is at work; a batch that was cut short makes *)
(* no difference, since its connection is gone and the next resets all.    *)

\* All the table t counts as spawned is in S.
Within(t, S) == \A e \in Standing : Is(e, t[e.mmsi]) => e \in S

Shown ==
    up => /\ pc = "planned" => Within(ships, Remove(standing, removes))
          /\ pc = "sent" => Within(Committed, standing)
          /\ ~Clearing /\ pc \notin {"planned", "sent"} => Within(ships, standing)

\* A name of a vessel is there once, as an object or as a ship.
Once(S) == \A d, e \in S : d.mmsi = e.mmsi /\ d.group = e.group => d = e

LinkInv ==
    /\ IInv /\ LedgerTypeOK /\ OneAtWork /\ BatchStands
    /\ Once(standing) /\ Shown

\* New groups take the place of those that had their names.
LEMMA ReplacedOnce ==
    ASSUME NEW S, Once(S), NEW orders, NEW M, NEW New,
           \A n \in New : n.mmsi \in M /\ n.group = orders[n.mmsi].group,
           \A d, e \in New : d.mmsi = e.mmsi => d = e
    PROVE  Once(Remove(S, Named(orders, M)) \cup New)
<1>. DEFINE Old == Remove(S, Named(orders, M))
<1>1. \A d, e \in Old : d.mmsi = e.mmsi /\ d.group = e.group => d = e
  BY DEF Remove, Once
<1>2. \A d \in New : [mmsi |-> d.mmsi, group |-> d.group] \in Named(orders, M)
  BY DEF Named
<1>3. \A d \in Old : [mmsi |-> d.mmsi, group |-> d.group] \notin Named(orders, M)
  BY DEF Remove
<1>. HIDE DEF Old
<1>4. \A d \in New, e \in Old : ~(d.mmsi = e.mmsi /\ d.group = e.group)
  BY <1>2, <1>3
<1>5. Once(Old \cup New)
  BY <1>1, <1>4 DEF Once
<1>. QED
  BY <1>5 DEF Old

\* Spawns leave groups of the right form, each name once.
LEMMA SpawnedOnce ==
    ASSUME TypeOK, NEW S \in SUBSET Standing, Once(S), NEW M \in SUBSET DOMAIN spawns
    PROVE  Spawn(S, M) \subseteq Standing /\ Once(Spawn(S, M))
<1>. DEFINE New == {[mmsi |-> m, group |-> spawns[m].group, static |-> spawns[m].static] : m \in M}
<1>1. \A m \in M : m \in MMSI /\ spawns[m].group \in Names /\ spawns[m].static \in BOOLEAN
  BY DEF TypeOK, BatchTyped, SpawnOrder
<1>2. New \subseteq Standing
  BY <1>1 DEF Standing
<1>3. /\ \A n \in New : n.mmsi \in M /\ n.group = spawns[n.mmsi].group
      /\ \A d, e \in New : d.mmsi = e.mmsi => d = e
  OBVIOUS
<1>4. Spawn(S, M) = Remove(S, Named(spawns, M)) \cup New
  BY DEF Spawn
<1>. HIDE DEF New
<1>5. Once(Remove(S, Named(spawns, M)) \cup New)
  BY <1>3, ReplacedOnce
<1>6. Once(Spawn(S, M))
  BY <1>4, <1>5, Zenon
<1>. QED
  BY <1>2, <1>4, <1>6 DEF Remove

\* So does what an Update makes of those it does not leave alone.
LEMMA MovedOnce ==
    ASSUME TypeOK, NEW S \in SUBSET Standing, Once(S), NEW M \in SUBSET DOMAIN updates, NEW T,
           T = Remove(S, Named(updates, M)) \cup
               {[mmsi |-> m, group |-> updates[m].group, static |-> FALSE] : m \in M}
    PROVE  T \subseteq Standing /\ Once(T)
<1>. DEFINE New == {[mmsi |-> m, group |-> updates[m].group, static |-> FALSE] : m \in M}
<1>1. \A m \in M : m \in MMSI /\ updates[m].group \in Names
  BY DEF TypeOK, BatchTyped, UpdateOrder
<1>2. New \subseteq Standing
  <2>1. ASSUME NEW m \in M
        PROVE  [mmsi |-> m, group |-> updates[m].group, static |-> FALSE] \in Standing
    BY <1>1 DEF Standing
  <2>. QED
    BY <2>1
<1>3. /\ \A n \in New : n.mmsi \in M /\ n.group = updates[n.mmsi].group
      /\ \A d, e \in New : d.mmsi = e.mmsi => d = e
  <2>1. ASSUME NEW n \in New
        PROVE  /\ n.mmsi \in M
               /\ n = [mmsi |-> n.mmsi, group |-> updates[n.mmsi].group, static |-> FALSE]
    <3>1. PICK m \in M : n = [mmsi |-> m, group |-> updates[m].group, static |-> FALSE]
      OBVIOUS
    <3>2. n.mmsi = m
      BY <3>1
    <3>. QED
      BY <3>1, <3>2
  <2>2. \A n \in New : n.group = updates[n.mmsi].group
    <3>. HIDE DEF New
    <3>. QED
      BY <2>1
  <2>3. \A d, e \in New : d.mmsi = e.mmsi => d = e
    <3>. HIDE DEF New
    <3>1. ASSUME NEW d \in New, NEW e \in New, d.mmsi = e.mmsi PROVE d = e
      <4>1. /\ d = [mmsi |-> d.mmsi, group |-> updates[d.mmsi].group, static |-> FALSE]
            /\ e = [mmsi |-> e.mmsi, group |-> updates[e.mmsi].group, static |-> FALSE]
        BY <2>1
      <4>. QED
        BY <3>1, <4>1, Zenon
    <3>. QED
      BY <3>1
  <2>. QED
    BY <2>1, <2>2, <2>3
<1>4. T = Remove(S, Named(updates, M)) \cup New
  OBVIOUS
<1>. HIDE DEF New
<1>5. Once(Remove(S, Named(updates, M)) \cup New)
  BY <1>3, ReplacedOnce
<1>6. Once(T)
  BY <1>4, <1>5, Zenon
<1>. QED
  BY <1>2, <1>4, <1>6 DEF Remove

\* Updates leave groups of the right form, each name once.
LEMMA UpdatedOnce ==
    ASSUME TypeOK, NEW S \in SUBSET Standing, Once(S), NEW M \in SUBSET DOMAIN updates
    PROVE  Update(S, M) \subseteq Standing /\ Once(Update(S, M))
<1>1. \E Moved \in SUBSET M :
        Update(S, M) = Remove(S, Named(updates, Moved)) \cup
            {[mmsi |-> m, group |-> updates[m].group, static |-> FALSE] : m \in Moved}
  BY DEF Update
<1>. QED
  BY <1>1, MovedOnce

\* So do removals.
LEMMA RemovedOnce ==
    ASSUME NEW S \in SUBSET Standing, Once(S), NEW R
    PROVE  Remove(S, R) \subseteq Standing /\ Once(Remove(S, R))
BY DEF Remove, Once

\* So does all of a batch.
LEMMA WrittenOnce ==
    ASSUME TypeOK, LedgerTypeOK, Once(standing), NEW R,
           NEW M \in SUBSET DOMAIN spawns, NEW U \in SUBSET DOMAIN updates
    PROVE  Written(R, M, U) \subseteq Standing /\ Once(Written(R, M, U))
<1>. DEFINE S == Remove(standing, R)
            T == Spawn(S, M)
<1>1. S \subseteq Standing /\ Once(S)
  BY RemovedOnce DEF LedgerTypeOK
<1>. HIDE DEF S
<1>2. T \subseteq Standing /\ Once(T)
  BY <1>1, SpawnedOnce
<1>. HIDE DEF T
<1>3. Update(T, U) \subseteq Standing /\ Once(Update(T, U))
  BY <1>2, UpdatedOnce
<1>. QED
  BY <1>3 DEF Written, S, T

\* What a write that failed half way leaves has each name once.
LEMMA CutOnce ==
    ASSUME TypeOK, LedgerTypeOK, Once(standing), NEW S \in CutShort
    PROVE  S \subseteq Standing /\ Once(S)
<1>. DEFINE Nearly == {Written(removes, DOMAIN spawns, U) : U \in SUBSET DOMAIN updates}
            Halved(T) == {Remove(T, Named(updates, {m})) :
                              m \in {n \in DOMAIN updates : updates[n].convert}}
<1>1. {} \in SUBSET DOMAIN spawns /\ {} \in SUBSET DOMAIN updates
  OBVIOUS
<1>2. ASSUME NEW T \in Nearly
      PROVE  T \subseteq Standing /\ Once(T)
  BY WrittenOnce
<1>3. ASSUME NEW T \in Nearly, NEW H \in Halved(T)
      PROVE  H \subseteq Standing /\ Once(H)
  <2>1. T \subseteq Standing /\ Once(T)
    BY <1>2
  <2>. HIDE DEF Nearly
  <2>2. \E Q : H = Remove(T, Q)
    BY <1>3
  <2>. QED
    BY <2>1, <2>2, RemovedOnce
<1>4. CASE \E R \in SUBSET removes : S = Written(R, {}, {})
  BY <1>1, <1>4, WrittenOnce
<1>5. CASE \E M \in SUBSET DOMAIN spawns : S = Written(removes, M, {})
  BY <1>1, <1>5, WrittenOnce
<1>6. \/ S = standing
      \/ \E R \in SUBSET removes : S = Written(R, {}, {})
      \/ \E M \in SUBSET DOMAIN spawns : S = Written(removes, M, {})
      \/ S \in Nearly
      \/ \E T \in Nearly : S \in Halved(T)
  BY DEF CutShort
<1>. HIDE DEF Nearly, Halved
<1>. QED
  BY <1>2, <1>3, <1>4, <1>5, <1>6 DEF LedgerTypeOK

\* What the commit will count as spawned stands once the batch is written, whatever
\* stood there besides.
LEMMA BatchShows ==
    ASSUME IInv, BatchStands, LedgerTypeOK, Once(standing), pc = "planned",
           Within(ships, Remove(standing, removes))
    PROVE  Within(Committed, Written(removes, DOMAIN spawns, DOMAIN updates))
<1>. DEFINE S0 == Remove(standing, removes)
            D == DOMAIN spawns
            U == DOMAIN updates
            S1 == Spawn(S0, D)
            S2 == Update(S1, U)
<1>1. TypeOK
  BY DEF IInv
<1>2. /\ S0 \subseteq Standing /\ Once(S0) /\ D \subseteq MMSI /\ U \subseteq MMSI
      /\ \A m \in U : updates[m] \in UpdateOrder
      /\ \A m \in MMSI : ships[m] \in Ship
  BY <1>1, RemovedOnce DEF TypeOK, BatchTyped, TableTyped, LedgerTypeOK
<1>3. /\ \A m \in D : ships[m].state = "Pending"
      /\ \A m \in U : /\ ships[m].state = "Spawned" /\ ships[m].group = updates[m].group
                      /\ ships[m].static <=> updates[m].convert
      /\ held = D \cup U /\ D \cap U = {}
  BY DEF IInv, BatchFitsTable, BatchStands, UpdatesNameTheirShip, Pending, Spawned
<1>4. S1 \subseteq Standing /\ Once(S1)
  BY <1>1, <1>2, SpawnedOnce
<1>5. ASSUME NEW e \in Standing, e.mmsi \notin D, e \in S0
      PROVE  e \in S1
  BY <1>5, RemoveOthers DEF Spawn
<1>6. ASSUME NEW e \in Standing, e.mmsi \notin U, e \in S1
      PROVE  e \in S2
  <2>. DEFINE Kept(m) == \E d \in S1 : /\ d.mmsi = m /\ d.group = updates[m].group
                                      /\ d.static /\ ~updates[m].convert
              Moved == {m \in U : ~Kept(m)}
  <2>1. e.mmsi \notin Moved
    BY <1>6
  <2>2. S2 = Remove(S1, Named(updates, Moved)) \cup
             {[mmsi |-> m, group |-> updates[m].group, static |-> FALSE] : m \in Moved}
    BY DEF Update
  <2>. HIDE DEF Moved, S1, S2
  <2>3. e \in Remove(S1, Named(updates, Moved))
    BY <1>6, <2>1, RemoveOthers
  <2>. QED
    BY <2>2, <2>3
<1>7. ASSUME NEW m \in U
      PROVE  [mmsi |-> m, group |-> updates[m].group, static |-> FALSE] \in S2
  <2>. DEFINE e == [mmsi |-> m, group |-> updates[m].group, static |-> FALSE]
  <2>1. e \in Standing
    BY <1>2 DEF UpdateOrder, Standing
  <2>2. ~updates[m].convert => e \in S1
    <3>1. updates[m].convert \in BOOLEAN /\ ships[m].static \in BOOLEAN
      BY <1>2 DEF UpdateOrder, Ship
    <3>2. ~updates[m].convert => Is(e, ships[e.mmsi])
      BY <1>3, <3>1 DEF Is
    <3>3. e.mmsi \notin D
      BY <1>3
    <3>. HIDE DEF e
    <3>. QED
      BY <1>5, <2>1, <3>2, <3>3 DEF Within
  <2>3. ~\E d \in S1 : /\ d.mmsi = m /\ d.group = updates[m].group
                       /\ d.static /\ ~updates[m].convert
    <3>1. e.mmsi = m /\ e.group = updates[m].group /\ e.static = FALSE
      OBVIOUS
    <3>. HIDE DEF e
    <3>. QED
      BY <1>4, <2>2, <3>1 DEF Once
  <2>. QED
    BY <2>3 DEF Update
<1>8. ASSUME NEW e \in Standing, Is(e, Committed[e.mmsi])
      PROVE  e \in S2
  <2>1. e.mmsi \in MMSI /\ e.static \in BOOLEAN
        /\ e = [mmsi |-> e.mmsi, group |-> e.group, static |-> e.static]
    BY DEF Standing
  <2>2. CASE e.mmsi \in D
    <3>1. Committed[e.mmsi] = CommitSpawn(ships[e.mmsi], spawns[e.mmsi])
      BY <1>1, <1>3, <2>2, CommittedShips
    <3>2. e.group = spawns[e.mmsi].group /\ e.static = spawns[e.mmsi].static
      BY <1>2, <1>8, <2>1, <3>1 DEF Is, CommitSpawn, Ship
    <3>3. e \in {[mmsi |-> m, group |-> spawns[m].group, static |-> spawns[m].static] : m \in D}
      BY <2>1, <2>2, <3>2
    <3>4. e \in S1
      BY <3>3 DEF Spawn
    <3>. QED
      BY <1>3, <1>6, <2>2, <3>4
  <2>3. CASE e.mmsi \in U
    <3>1. Committed[e.mmsi] = CommitUpdate(ships[e.mmsi], updates[e.mmsi])
      BY <1>1, <1>3, <2>3, CommittedShips
    <3>2. /\ Committed[e.mmsi].group = updates[e.mmsi].group
          /\ Committed[e.mmsi].static = FALSE
      BY <1>2, <1>3, <2>1, <2>3, <3>1 DEF CommitUpdate, Ship, UpdateOrder
    <3>3. e = [mmsi |-> e.mmsi, group |-> updates[e.mmsi].group, static |-> FALSE]
      BY <1>8, <2>1, <3>2 DEF Is
    <3>. QED
      BY <1>7, <2>3, <3>3
  <2>4. CASE e.mmsi \notin D \cup U
    <3>1. Committed[e.mmsi] = ships[e.mmsi]
      BY <1>1, <1>3, <2>1, <2>4, CommittedShips
    <3>2. e \in S0
      BY <1>8, <3>1 DEF Within
    <3>. QED
      BY <1>5, <1>6, <2>4, <3>2
  <2>. QED
    BY <2>2, <2>3, <2>4
<1>. QED
  BY <1>8 DEF Within, Written

------------------------------------------------------------------------------
\* The removals of a plan are of ships it forgets.
LEMMA PlanShows ==
    ASSUME IInv, TickPlan, Within(ships, standing), UNCHANGED standing
    PROVE  Within(ships', Remove(standing, removes)')
<1>1. removes' = {[mmsi |-> m, group |-> ships[m].group] : m \in StaleSpawned}
  BY DEF TickPlan, RemoveOrders
<1>2. \A o \in removes' : o.mmsi \in Stale
  BY <1>1 DEF StaleSpawned
<1>3. ASSUME NEW e \in Standing, Is(e, ships'[e.mmsi])
      PROVE  e \in Remove(standing, removes)'
  <2>1. e.mmsi \in MMSI
    BY DEF Standing
  <2>2. e.mmsi \notin Stale
    BY <1>3, PlannedShips DEF Is, NoShip
  <2>3. e \in standing
    BY <1>3, <2>1, <2>2, PlannedShips DEF Within
  <2>4. [mmsi |-> e.mmsi, group |-> e.group] \notin removes'
    BY <1>2, <2>2
  <2>. QED
    BY <2>3, <2>4 DEF Remove
<1>. QED
  BY <1>3 DEF Within

\* Nothing is spawned in the table.
LEMMA NoneShown ==
    ASSUME NEW S, Spawned' = {}
    PROVE  Within(ships', S)
BY DEF Within, Is, Standing, Spawned

\* The tick alone, with or without a connection.
LEMMA TickShows ==
    ASSUME Faults \subseteq {"link"}, LinkInv, IInv', LedgerTick
    PROVE  LinkInv'
<1>. USE DEF LinkInv
<1>1. CASE Silent(TickRead) /\ Apart("overlap", HandlerAtWork)
  <2>1. /\ UNCHANGED <<ships, up, req, standing>>
        /\ pc = "idle" /\ pc' = "read" /\ ~HandlerAtWork
    BY <1>1 DEF Silent, TickRead, Apart
  <2>. QED
    BY <2>1 DEF LedgerTypeOK, Shown, Clearing, OneAtWork, HandlerAtWork, BatchStands
<1>2. CASE Silent(TickPlan)
  <2>1. pc = "read" /\ pc' = "planned" /\ UNCHANGED <<standing, req, up>>
    BY <1>2 DEF Silent, TickPlan
  <2>2. ~HandlerAtWork /\ ~Clearing
    BY <2>1, TickIsAlone DEF TickAtWork
  <2>3. BatchStands'
    BY <1>2, PlanStands DEF Silent
  <2>4. up => Within(ships', Remove(standing, removes)')
    BY <1>2, <2>1, <2>2, PlanShows DEF Silent, Shown
  <2>. QED
    BY <2>1, <2>2, <2>3, <2>4 DEF LedgerTypeOK, Shown, OneAtWork, HandlerAtWork
<1>3. CASE Silent(TickCommit)
  <2>1. pc = "sent" /\ pc' = "idle" /\ UNCHANGED <<standing, req, up>> /\ ships' = Committed
    BY <1>3, EndedTick DEF Silent, TickCommit
  <2>. QED
    BY <2>1 DEF LedgerTypeOK, Shown, Clearing, OneAtWork, TickAtWork, HandlerAtWork, BatchStands
<1>4. CASE Silent(TickExit)
  <2>1. UNCHANGED <<ships, up, req, standing>> /\ pc = "idle" /\ pc' = "exited"
    BY <1>4 DEF Silent, TickExit
  <2>. QED
    BY <2>1 DEF LedgerTypeOK, Shown, Clearing, OneAtWork, HandlerAtWork, TickAtWork, BatchStands
<1>5. CASE TickSend /\ standing' = Written(removes, DOMAIN spawns, DOMAIN updates)
  <2>1. /\ pc = "planned" /\ pc' = "sent"
        /\ UNCHANGED <<ships, removes, spawns, updates, held, req, up>>
    BY <1>5 DEF TickSend
  <2>2. standing' \subseteq Standing /\ Once(standing')
    <3>1. TypeOK
      BY DEF IInv
    <3>. QED
      BY <1>5, <3>1, WrittenOnce
  <2>3. up => Within(Committed, standing')
    BY <1>5, <2>1, BatchShows DEF Shown
  <2>4. Committed' = Committed
    BY <2>1 DEF Committed
  <2>5. up => Within(Committed', standing')
    BY <2>3, <2>4
  <2>6. Shown'
    BY <2>1, <2>5 DEF Shown
  <2>7. OneAtWork' /\ BatchStands'
    BY <2>1 DEF OneAtWork, TickAtWork, HandlerAtWork, BatchStands, Spawned
  <2>. QED
    BY <2>2, <2>6, <2>7 DEF LedgerTypeOK, Once
<1>6. CASE /\ TickSendFails /\ standing' \in (IF up THEN CutShort ELSE {standing})
  <2>1. ~up' /\ pc = "planned" /\ pc' = "idle" /\ UNCHANGED <<ships, req>>
    BY <1>6, EndedTick DEF TickSendFails
  <2>2. standing' \subseteq Standing /\ Once(standing')
    <3>1. TypeOK
      BY DEF IInv
    <3>2. standing' = standing \/ standing' \in CutShort
      BY <1>6
    <3>. QED
      BY <3>1, <3>2, CutOnce DEF LedgerTypeOK
  <2>. QED
    BY <2>1, <2>2 DEF LedgerTypeOK, Shown, OneAtWork, TickAtWork, HandlerAtWork, BatchStands, Once
<1>. QED
  BY <1>1, <1>2, <1>3, <1>4, <1>5, <1>6 DEF LedgerTick

\* The handlers, which have the coordinator to themselves.
LEMMA HandlerShows ==
    ASSUME Faults \subseteq {"link"}, LinkInv, IInv', NEW r \in Requests,
           \/ /\ Apart("overlap", TickAtWork \/ HandlerAtWork \/ ais.at # "idle")
              /\ Silent(ToggleTrackingOff(r) \/ ToggleSpawningOff(r) \/ Stop(r))
           \/ SendClear(r) /\ standing' = {}
           \/ SendClearFails(r) /\ standing' \in {standing, {}}
           \/ Silent(Wipe(r)) \/ Silent(Reset(r))
    PROVE  LinkInv'
<1>. USE DEF LinkInv
<1>1. CASE /\ Apart("overlap", TickAtWork \/ HandlerAtWork \/ ais.at # "idle")
           /\ Silent(ToggleTrackingOff(r) \/ ToggleSpawningOff(r) \/ Stop(r))
  <2>1. /\ UNCHANGED <<ships, pc, held, up, standing>>
        /\ ~Clearing /\ ~Clearing' /\ OneAtWork' /\ pc \notin {"planned", "sent"}
    BY <1>1, SwitchesAlone DEF Apart, Silent
  <2>. QED
    BY <2>1 DEF LedgerTypeOK, Shown, BatchStands
<1>2. ASSUME SendClear(r) \/ SendClearFails(r) \/ Wipe(r) \/ Reset(r),
             LedgerTypeOK', Once(standing'), ~up' \/ Clearing' \/ Within(ships', standing')
      PROVE  LinkInv'
  <2>1. pc' = pc /\ pc \notin {"planned", "sent"} /\ OneAtWork' /\ BatchStands'
    BY <1>2, HandlerIsAlone
  <2>. QED
    BY <1>2, <2>1 DEF Shown, Once
<1>3. CASE SendClear(r) /\ standing' = {}
  <2>1. Clearing'
    <3>1. req' = [req EXCEPT ![r] = AfterClear(req[r])]
          /\ req \in [Requests -> {"none", "clearAll", "wipe", "clearSpawned", "reset"}]
      BY <1>3 DEF SendClear, IInv, TypeOK, StepsTyped
    <3>. QED
      BY <3>1 DEF Clearing, AfterClear
  <2>. QED
    BY <1>2, <1>3, <2>1 DEF LedgerTypeOK, Once
<1>4. CASE SendClearFails(r) /\ standing' \in {standing, {}}
  <2>1. ~up'
    BY <1>4 DEF SendClearFails
  <2>. QED
    BY <1>2, <1>4, <2>1 DEF LedgerTypeOK, Once
<1>5. CASE Silent(Wipe(r)) \/ Silent(Reset(r))
  <2>1. Spawned' = {}
    BY <1>5, OtherSteps DEF Silent, Reset
  <2>2. Within(ships', standing')
    BY <2>1, NoneShown
  <2>. QED
    BY <1>2, <1>5, <2>2 DEF Silent, LedgerTypeOK, Once
<1>. QED
  BY <1>1, <1>3, <1>4, <1>5

\* The connection goes, with the mission or without; one that is made resets the table.
LEMMA LinkShows ==
    ASSUME Faults \subseteq {"link"}, LinkInv, IInv',
           MissionLoad \/ \E t \in Theatres : Rejoin(t)
    PROVE  LinkInv'
<1>. USE DEF LinkInv
<1>1. CASE MissionLoad
  <2>1. /\ ~up' /\ standing' \in {standing, {}}
        /\ UNCHANGED <<ships, pc, spawns, updates, held, req>>
    BY <1>1 DEF MissionLoad, tick
  <2>. QED
    BY <2>1 DEF LedgerTypeOK, Shown, OneAtWork, HandlerAtWork, TickAtWork, BatchStands, Spawned, Once
<1>2. CASE \E t \in Theatres : Rejoin(t)
  <2>1. /\ ships' = BackToPending /\ UNCHANGED <<pc, req, standing>>
        /\ pc \notin {"planned", "sent"}
    BY <1>2 DEF Rejoin, tick, Apart
  <2>2. Spawned' = {}
    <3>1. ships \in [MMSI -> Ship]
      BY DEF IInv, TypeOK, TableTyped
    <3>2. \A m \in MMSI : ships[m].state \in States
      BY <3>1 DEF Ship
    <3>. QED
      BY <2>1, <3>1, <3>2, ResetShips DEF Spawned, States
  <2>3. Within(ships', standing')
    BY <2>2, NoneShown
  <2>. QED
    BY <2>1, <2>3 DEF LedgerTypeOK, Shown, OneAtWork, HandlerAtWork, TickAtWork, BatchStands, Once
<1>. QED
  BY <1>1, <1>2

\* A rejection takes the ship from the table, if it is there under that name.
LEMMA RejectShows ==
    ASSUME Faults \subseteq {"link"}, LinkInv, IInv', NEW e \in standing, up, Rejected(e)
    PROVE  LinkInv'
<1>. USE DEF LinkInv
<1>1. /\ ships \in [MMSI -> Ship]
      /\ standing \subseteq Standing /\ e \in Standing /\ e.mmsi \in MMSI
  BY DEF IInv, TypeOK, TableTyped, LedgerTypeOK, Standing
<1>2. pc \notin {"planned", "sent"} /\ standing' = standing \ {e}
  BY DEF Rejected, Apart
<1>3. UNCHANGED <<pc, req, up>>
  BY DEF Rejected, Reject, vars, tick
<1>4. ASSUME NEW d \in Standing, d \in standing, Is(d, ships'[d.mmsi])
      PROVE  d # e
  <2>1. CASE ships[e.mmsi].group = e.group
    <3>1. ships'[e.mmsi] = NoShip
      BY <1>1, <2>1 DEF Rejected, Reject
    <3>. QED
      BY <1>4, <3>1 DEF Is, NoShip
  <2>2. CASE ships[e.mmsi].group # e.group
    <3>1. ships' = ships
      BY <2>2 DEF Rejected, vars
    <3>. QED
      BY <1>4, <2>2, <3>1 DEF Is
  <2>. QED
    BY <2>1, <2>2
<1>5. ASSUME NEW d \in Standing, Is(d, ships'[d.mmsi])
      PROVE  Is(d, ships[d.mmsi])
  <2>1. d.mmsi \in MMSI
    BY DEF Standing
  <2>2. ships' = ships \/ ships' = [ships EXCEPT ![e.mmsi] = NoShip]
    BY DEF Rejected, Reject, vars
  <2>. QED
    BY <1>1, <1>5, <2>1, <2>2 DEF Is, NoShip
<1>6. ~Clearing => Within(ships', standing')
  BY <1>2, <1>4, <1>5 DEF Shown, Within
<1>7. Clearing' <=> Clearing
  BY <1>3 DEF Clearing
<1>. QED
  BY <1>2, <1>3, <1>6, <1>7
     DEF LedgerTypeOK, Shown, OneAtWork, HandlerAtWork, TickAtWork, BatchStands, Once

\* Whatever becomes of connections, the invariant is kept.
LEMMA LinkInductive ==
    ASSUME Faults \subseteq {"link"}, LinkInv, [LedgerNext]_ledgerVars
    PROVE  LinkInv'
<1>1. IInv'
  BY TableKeeps DEF LinkInv
<1>2. ASSUME Quiet, UNCHANGED standing
      PROVE  LinkInv'
  <2>1. /\ \A e \in Standing : Is(e, ships'[e.mmsi]) <=> Is(e, ships[e.mmsi])
        /\ \A e \in Standing : Is(e, Committed'[e.mmsi]) <=> Is(e, Committed[e.mmsi])
        /\ BatchStands'
    BY <1>1, <1>2, QuietCounts DEF LinkInv
  <2>2. UNCHANGED <<pc, removes, req, up, standing>>
    BY <1>2 DEF Quiet, tick
  <2>3. Shown'
    BY <2>1, <2>2 DEF LinkInv, Shown, Within, Clearing, Remove
  <2>. QED
    BY <1>1, <2>1, <2>2, <2>3
       DEF LinkInv, LedgerTypeOK, OneAtWork, HandlerAtWork, TickAtWork, Once
<1>3. ASSUME Quietly, UNCHANGED standing
      PROVE  LinkInv'
  BY <1>2, <1>3, QuietSteps DEF LinkInv
<1>4. CASE LedgerTick
  BY <1>1, <1>4, TickShows
<1>5. CASE LedgerRequest
  <2>1. ASSUME NEW r \in Requests, SendClearFails(r),
               standing' \in (IF up THEN {standing, {}} ELSE {standing})
        PROVE  LinkInv'
    BY <1>1, <2>1, HandlerShows
  <2>. QED
    BY <1>1, <1>3, <1>5, <2>1, HandlerShows DEF LedgerRequest, Silent, Quietly
<1>6. CASE LedgerEnv
  BY <1>1, <1>3, <1>6, LinkShows, RejectShows DEF LedgerEnv, Silent, Quietly
<1>7. CASE UNCHANGED ledgerVars
  <2>1. Quiet /\ UNCHANGED standing
    BY <1>7 DEF ledgerVars, vars, Quiet, Spawned, tick
  <2>. QED
    BY <1>2, <2>1
<1>. QED
  BY <1>3, <1>4, <1>5, <1>6, <1>7 DEF LedgerNext, Silent, Quietly

\* With connections that are lost at any moment, even in the middle of a batch or a
\* clear, and no other fault: the table counts no ship as spawned, between two ticks,
\* that does not stand in DCS under that name and as such an object.  (tick, 611-651)
Seen ==
    Settled => {[mmsi |-> m, group |-> ships[m].group, static |-> ships[m].static] :
                    m \in Spawned} \subseteq standing

\* However often connections are lost, Seen: a ship that tick counts as spawned has
\* been written to the connection that is there.
THEOREM SpawnedAreSeen ==
    ASSUME Faults \subseteq {"link"}
    PROVE  LedgerSpec => []Seen
<1>1. LedgerInit => LinkInv
  BY LedgerInitially DEF LedgerInv, LinkInv, OneGroupEach, LedgerInit, Init, Shown, Once, Within,
     Is, Standing, NoShip
<1>2. LinkInv /\ [LedgerNext]_ledgerVars => LinkInv'
  BY LinkInductive
<1>3. LinkInv => Seen
  <2>. SUFFICES ASSUME LinkInv, Settled, NEW m \in Spawned
                PROVE  [mmsi |-> m, group |-> ships[m].group, static |-> ships[m].static] \in standing
    BY DEF Seen
  <2>. DEFINE e == [mmsi |-> m, group |-> ships[m].group, static |-> ships[m].static]
  <2>1. /\ up /\ ~Clearing /\ pc \notin {"planned", "sent"}
    BY DEF Settled, TickAtWork, HandlerAtWork, Clearing
  <2>2. m \in MMSI /\ ships[m].state = "Spawned" /\ ships[m] \in Ship
    BY DEF Spawned, LinkInv, IInv, TypeOK, TableTyped
  <2>3. ships[m].group \in Names /\ ships[m].static \in BOOLEAN
    BY <2>2 DEF LinkInv, IInv, SpawnedIffGrouped, Ship
  <2>4. e \in Standing /\ Is(e, ships[e.mmsi])
    BY <2>2, <2>3 DEF Standing, Is
  <2>. HIDE DEF e
  <2>5. e \in standing
    BY <2>1, <2>4 DEF LinkInv, Shown, Within
  <2>. QED
    BY <2>5 DEF e
<1>. QED
  BY <1>1, <1>2, <1>3, PTL DEF LedgerSpec
=============================================================================
