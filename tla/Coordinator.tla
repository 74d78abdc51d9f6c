----------------------------- MODULE Coordinator -----------------------------
(***************************************************************************)
(* One DCS server's coordinator (src/internal/coordinator/coordinator.go): *)
(* the table of tracked ships and the three kinds of goroutine that work   *)
(* on it, each step being one critical section of the code:                *)
(*                                                                         *)
(*   - the AIS reader, in OnAISUpdate, takes the configuration lock, then  *)
(*     the coordinator's read lock, then its write lock;                   *)
(*   - the tick loop reads its settings, plans a batch of commands under   *)
(*     the lock, writes it to the hook without the lock, and commits what  *)
(*     it wrote under the lock again, through the pointers it kept;        *)
(*   - the web handlers and the manager change the flags, then write a     *)
(*     clear, then take the lock to empty or reset the table;              *)
(*   - the reader of the hook's connection delivers theatre and reject     *)
(*     messages, of any content and at any time.                           *)
(*                                                                         *)
(* A fix stands for a position and a heading; two fixes are different when *)
(* they are more than 200 m or 5 degrees apart.  Speeds are in half knots. *)
(* A group name "<name> - <mmsi>" is the pair of a name and an MMSI.       *)
(*                                                                         *)
(* An operator with an underscore in its name is a slip: its namesake as a *)
(* plausible mistake would leave it.  Nothing uses it; the properties find *)
(* the mistake when it takes its namesake's place.                         *)
(***************************************************************************)
EXTENDS Integers, FiniteSets

CONSTANTS
    MMSI,       \* the vessels heard on AIS
    Names,      \* the names they report
    Fix,        \* positions with headings
    Theatres,   \* the theatre names a hook may report, NoTheatre included
    Box,        \* Box[t]: the fixes inside the bounding box of theatre t
    Speeds,     \* reported speeds, in half knots
    Caps,       \* values MaxShips takes
    Requests,   \* web handlers and the manager's shutdown
    NoTheatre,  \* the theatre before the hook has named one
    NoName, NoFix

ASSUME MMSIAssumption == IsFiniteSet(MMSI)
ASSUME NameAssumption == NoName \notin Names
ASSUME FixAssumption == NoFix \notin Fix
ASSUME TheatreAssumption ==
    /\ NoTheatre \in Theatres
    /\ Box \in [Theatres -> SUBSET Fix]
    /\ Box[NoTheatre] = {}
ASSUME NumberAssumption == Speeds \subseteq Nat /\ Caps \subseteq Nat

VARIABLES
    ships,      \* Coordinator.ships; an absent vessel is Untracked
    theatre,    \* Coordinator.theatre
    tracking, spawning, maxShips,     \* the flags and the cap of serverCfg
    stopped,    \* stopCh is closed
    pc,         \* where the tick loop is
    snap,       \* the settings the current tick has read
    removes, spawns, updates,         \* the commands of the current tick
    held,       \* vessels whose entry the tick still points at
    req,        \* the step each handler is at
    ais,        \* the step of OnAISUpdate and the fix it carries
    up          \* dcscomm has a connection to write to

settings == <<tracking, spawning, maxShips>>
tick == <<pc, snap, removes, spawns, updates>>
vars == <<ships, theatre, settings, stopped, tick, held, req, ais, up>>

States == {"Untracked", "Pending", "Spawned"}

\* TrackedShip: what the tick and the handlers read of it.  fresh is false
\* once LastSeen is older than StaleMinutes, cooling is true until 15 s after
\* LastReroute, at is SpawnedLat/Lon/Hdg.
Ship == [state : States, name : Names \cup {NoName}, fix : Fix \cup {NoFix},
         sog : Speeds \cup {0}, fresh : BOOLEAN, group : Names \cup {NoName},
         static : BOOLEAN, at : Fix \cup {NoFix}, cooling : BOOLEAN]

NoShip == [state |-> "Untracked", name |-> NoName, fix |-> NoFix, sog |-> 0,
           fresh |-> FALSE, group |-> NoName, static |-> FALSE, at |-> NoFix,
           cooling |-> FALSE]

Tracked == {m \in MMSI : ships[m].state # "Untracked"}
Pending == {m \in MMSI : ships[m].state = "Pending"}
Spawned == {m \in MMSI : ships[m].state = "Spawned"}

SpawnOrder == [group : Names, static : BOOLEAN, fix : Fix]
UpdateOrder == [group : Names, convert : BOOLEAN, fix : Fix]
NoOrders == [m \in {} |-> NoShip]

Init ==
    /\ ships = [m \in MMSI |-> NoShip]
    /\ theatre = NoTheatre
    /\ tracking \in BOOLEAN /\ spawning \in BOOLEAN /\ maxShips \in Caps
    /\ stopped = FALSE
    /\ pc = "idle"
    /\ snap = [cap |-> 0, spawn |-> FALSE]
    /\ removes = {} /\ spawns = NoOrders /\ updates = NoOrders
    /\ held = {}
    /\ req = [r \in Requests |-> "none"]
    /\ ais = [at |-> "idle", fix |-> NoFix]
    /\ up = FALSE

------------------------------------------------------------------------------
(* The AIS reader: OnAISUpdate.                                            *)

\* The configuration lock: tracking is read, and stays read while it changes.
\* The fan-out takes the manager's lock, which shutdown holds.
AisGate ==
    /\ ais.at = "idle" /\ ~stopped
    /\ tracking
    /\ ais' = [at |-> "gated", fix |-> NoFix]
    /\ UNCHANGED <<ships, theatre, settings, stopped, tick, held, req, up>>

\* The read lock: the theatre's box decides whether the update goes on.
AisPlace(f) ==
    /\ ais.at = "gated"
    /\ ais' = IF f \in Box[theatre] THEN [at |-> "placed", fix |-> f]
                                    ELSE [at |-> "idle", fix |-> NoFix]
    /\ UNCHANGED <<ships, theatre, settings, stopped, tick, held, req, up>>

NewShip == [NoShip EXCEPT !.state = "Pending"]

\* Slip: the group follows the name.
Updated_Regrouped(ship, n, s) ==
    [ship EXCEPT !.name = n, !.fix = ais.fix, !.sog = s, !.fresh = TRUE,
                 !.group = IF ship.state = "Spawned" THEN n ELSE ship.group]

Updated(ship, n, s) ==
    [ship EXCEPT !.name = n, !.fix = ais.fix, !.sog = s, !.fresh = TRUE]

\* The write lock: the vessel is created or brought up to date.  n is the name
\* it has afterwards: the reported one, the cached one, or the one it had.
AisApply(m, n, s) ==
    /\ ais.at = "placed"
    /\ ships' = [ships EXCEPT ![m] =
           Updated(IF m \in Tracked THEN ships[m] ELSE NewShip, n, s)]
    /\ ais' = [at |-> "idle", fix |-> NoFix]
    /\ UNCHANGED <<theatre, settings, stopped, tick, held, req, up>>

------------------------------------------------------------------------------
(* The tick loop.                                                          *)

\* The settings are read once, under the configuration lock; a tick that finds
\* tracking off ends there.
TickRead ==
    /\ pc = "idle"
    /\ tracking
    /\ snap' = [cap |-> maxShips, spawn |-> spawning]
    /\ pc' = "read"
    /\ UNCHANGED <<ships, theatre, settings, stopped, removes, spawns, updates,
                   held, req, ais, up>>

\* Slip: only ships in DCS grow stale.
Stale_SpawnedOnly == {m \in Spawned : ~ships[m].fresh}

Stale == {m \in Tracked : ~ships[m].fresh}
StaleSpawned == {m \in Stale \cap Spawned : ships[m].group # NoName}

\* Slip: one ship too many.
Room_OneMore == snap.cap - Cardinality(Spawned \ StaleSpawned) + 1

\* Places left under the cap once the stale ships have gone.
Room == snap.cap - Cardinality(Spawned \ StaleSpawned)

\* Slips: the pending ships are listed before the stale ones have gone; ships
\* at anchor are passed over.
Candidates_StaleToo == IF snap.spawn THEN Pending ELSE {}
Candidates_UnderWay ==
    IF snap.spawn THEN {m \in Pending \ Stale : ships[m].sog >= 1} ELSE {}

Candidates == IF snap.spawn THEN Pending \ Stale ELSE {}

\* The loop over the pending ships takes them fastest first, in any order
\* among equals, until the cap is reached.
Chosen(C) ==
    /\ C \subseteq Candidates
    /\ C = {} \/ Cardinality(C) <= Room
    /\ C = Candidates \/ Cardinality(C) >= Room
    /\ \A m \in C, n \in Candidates \ C : ships[m].sog >= ships[n].sog

\* Slip: the state and the group name are not looked at.
Live_AnyTracked == IF snap.spawn THEN Tracked \ Stale ELSE {}

Live == IF snap.spawn THEN {m \in Spawned \ Stale : ships[m].group # NoName} ELSE {}
\* Slip: just over the threshold is not enough.
Converting_Faster == {m \in Live : ships[m].static /\ ships[m].sog > 2}

Converting == {m \in Live : ships[m].static /\ ships[m].sog >= 2}
Drifted == {m \in Live : /\ ~ships[m].static /\ ~ships[m].cooling
                         /\ ships[m].at # ships[m].fix}

SpawnOrders(C) ==
    [m \in C |-> [group |-> ships[m].name, static |-> ships[m].sog < 1,
                  fix |-> ships[m].fix]]

UpdateOrders ==
    [m \in Converting \cup Drifted |->
        [group |-> ships[m].group, convert |-> m \in Converting,
         fix |-> ships[m].fix]]

\* Slips: no removals while spawning is off; none of static objects.
RemoveOrders_IfSpawning ==
    IF snap.spawn THEN {[mmsi |-> m, group |-> ships[m].group] : m \in StaleSpawned}
                  ELSE {}
RemoveOrders_MovingOnly ==
    {[mmsi |-> m, group |-> ships[m].group] :
         m \in {n \in StaleSpawned : ~ships[n].static}}

RemoveOrders == {[mmsi |-> m, group |-> ships[m].group] : m \in StaleSpawned}

\* Phase 1, under the lock: stale ships are forgotten, the batch is drawn up.
TickPlan ==
    /\ pc = "read"
    /\ \E C \in SUBSET Candidates :
          /\ Chosen(C)
          /\ spawns' = SpawnOrders(C)
          /\ held' = C \cup Converting \cup Drifted
    /\ updates' = UpdateOrders
    /\ removes' = RemoveOrders
    /\ ships' = [m \in MMSI |-> IF m \in Stale THEN NoShip ELSE ships[m]]
    /\ pc' = "planned"
    /\ UNCHANGED <<theatre, settings, stopped, snap, req, ais, up>>

BatchEmpty == removes = {} /\ DOMAIN spawns = {} /\ DOMAIN updates = {}

\* Phase 2, without the lock: the whole batch is written, or there is none.
TickSend ==
    /\ pc = "planned"
    /\ up \/ BatchEmpty
    /\ pc' = "sent"
    /\ UNCHANGED <<ships, theatre, settings, stopped, snap, removes, spawns,
                   updates, held, req, ais, up>>

EndTick ==
    /\ pc' = "idle"
    /\ snap' = snap
    /\ removes' = {} /\ spawns' = NoOrders /\ updates' = NoOrders
    /\ held' = {}

\* Phase 2 fails: no connection, or a write that does not end in time, which
\* closes the connection.  Nothing is committed.
TickSendFails ==
    /\ pc = "planned"
    /\ ~BatchEmpty
    /\ EndTick
    /\ up' = FALSE
    /\ UNCHANGED <<ships, theatre, settings, stopped, req, ais>>

\* Slip: the group is named after the vessel's name of now.
CommitSpawn_NameOfNow(s, o) ==
    [s EXCEPT !.group = s.name, !.state = "Spawned", !.static = o.static,
              !.at = s.fix]

CommitSpawn(s, o) ==
    [s EXCEPT !.group = o.group, !.state = "Spawned", !.static = o.static,
              !.at = s.fix]

\* Slip: the group is renamed with the update.
CommitUpdate_Renames(s, o) ==
    [s EXCEPT !.static = IF o.convert THEN FALSE ELSE s.static,
              !.at = o.fix,
              !.group = IF s.state = "Spawned" THEN s.name ELSE s.group,
              !.cooling = IF o.convert THEN s.cooling ELSE TRUE]

CommitUpdate(s, o) ==
    [s EXCEPT !.static = IF o.convert THEN FALSE ELSE s.static,
              !.at = o.fix,
              !.cooling = IF o.convert THEN s.cooling ELSE TRUE]

\* Slip: the entries are looked up by MMSI instead of through the pointers.
Committed_ByMmsi ==
    [m \in MMSI |-> IF m \in DOMAIN spawns THEN CommitSpawn(ships[m], spawns[m])
                    ELSE IF m \in held THEN CommitUpdate(ships[m], updates[m])
                    ELSE ships[m]]

\* The entries the tick points at; one that has left the map meanwhile is
\* written to as well, and nobody sees it.
Committed ==
    [m \in MMSI |-> IF m \notin held THEN ships[m]
                    ELSE IF m \in DOMAIN spawns THEN CommitSpawn(ships[m], spawns[m])
                    ELSE CommitUpdate(ships[m], updates[m])]

\* Phase 3, under the lock.
TickCommit ==
    /\ pc = "sent"
    /\ ships' = Committed
    /\ EndTick
    /\ UNCHANGED <<theatre, settings, stopped, req, ais, up>>

\* The loop's select sees stopCh, or a tick that came due with it.
TickExit ==
    /\ pc = "idle"
    /\ stopped
    /\ pc' = "exited"
    /\ UNCHANGED <<ships, theatre, settings, stopped, snap, removes, spawns,
                   updates, held, req, ais, up>>

------------------------------------------------------------------------------
(* The handlers: ToggleTracking, ToggleSpawning, Stop.                     *)

ToggleTrackingOn ==
    /\ ~tracking
    /\ tracking' = TRUE
    /\ UNCHANGED <<ships, theatre, spawning, maxShips, stopped, tick, held, req,
                   ais, up>>

ToggleTrackingOff(r) ==
    /\ req[r] = "none"
    /\ tracking' = FALSE /\ spawning' = FALSE
    /\ req' = [req EXCEPT ![r] = "clearAll"]
    /\ UNCHANGED <<ships, theatre, maxShips, stopped, tick, held, ais, up>>

ToggleSpawningOn ==
    /\ ~(tracking /\ spawning)
    /\ tracking' = TRUE /\ spawning' = TRUE
    /\ UNCHANGED <<ships, theatre, maxShips, stopped, tick, held, req, ais, up>>

ToggleSpawningOff(r) ==
    /\ req[r] = "none"
    /\ spawning' = FALSE
    /\ req' = [req EXCEPT ![r] = "clearSpawned"]
    /\ UNCHANGED <<ships, theatre, tracking, maxShips, stopped, tick, held, ais, up>>

\* Shutdown runs under the manager's lock, which keeps the AIS reader out.
Stop(r) ==
    /\ req[r] = "none" /\ ~stopped
    /\ ais.at = "idle"
    /\ stopped' = TRUE
    /\ req' = [req EXCEPT ![r] = "clearAll"]
    /\ UNCHANGED <<ships, theatre, settings, tick, held, ais, up>>

\* Slip: switching tracking off only resets the ships.
AfterClear_Reset(step) == "reset"

AfterClear(step) == IF step = "clearAll" THEN "wipe" ELSE "reset"

\* The clear is written, or fails; the handler goes on in both cases.
SendClear(r) ==
    /\ req[r] \in {"clearAll", "clearSpawned"}
    /\ up
    /\ req' = [req EXCEPT ![r] = AfterClear(req[r])]
    /\ UNCHANGED <<ships, theatre, settings, stopped, tick, held, ais, up>>

SendClearFails(r) ==
    /\ req[r] \in {"clearAll", "clearSpawned"}
    /\ req' = [req EXCEPT ![r] = AfterClear(req[r])]
    /\ up' = FALSE
    /\ UNCHANGED <<ships, theatre, settings, stopped, tick, held, ais>>

\* disableAll makes a new map: the tick's pointers lead to forgotten entries.
Wipe(r) ==
    /\ req[r] = "wipe"
    /\ ships' = [m \in MMSI |-> NoShip]
    /\ held' = {}
    /\ req' = [req EXCEPT ![r] = "none"]
    /\ UNCHANGED <<theatre, settings, stopped, tick, ais, up>>

\* Slip: the group name stays.
Recalled_KeepsGroup(s) == [s EXCEPT !.state = "Pending"]

Recalled(s) == [s EXCEPT !.state = "Pending", !.group = NoName]

BackToPending ==
    [m \in MMSI |-> IF m \in Spawned THEN Recalled(ships[m]) ELSE ships[m]]

Reset(r) ==
    /\ req[r] = "reset"
    /\ ships' = BackToPending
    /\ req' = [req EXCEPT ![r] = "none"]
    /\ UNCHANGED <<theatre, settings, stopped, tick, held, ais, up>>

------------------------------------------------------------------------------
(* Messages from the hook, and what the configuration, the clock and the   *)
(* connection do by themselves.                                            *)

SetTheatre(t) ==
    /\ theatre' = t
    /\ ships' = BackToPending
    /\ UNCHANGED <<settings, stopped, tick, held, req, ais, up>>

\* handleReject: the ship with that group name, if any, is forgotten.
Reject(m) ==
    /\ ships[m].group # NoName
    /\ ships' = [ships EXCEPT ![m] = NoShip]
    /\ held' = held \ {m}
    /\ UNCHANGED <<theatre, settings, stopped, tick, req, ais, up>>

SetMaxShips(n) ==
    /\ maxShips' = n
    /\ UNCHANGED <<ships, theatre, tracking, spawning, stopped, tick, held, req,
                   ais, up>>

\* StaleMinutes pass without an update of the vessel.
Age(m) ==
    /\ ships[m].fresh
    /\ ships' = [ships EXCEPT ![m].fresh = FALSE]
    /\ UNCHANGED <<theatre, settings, stopped, tick, held, req, ais, up>>

\* minRerouteInterval passes.
CoolOff(m) ==
    /\ ships[m].cooling
    /\ ships' = [ships EXCEPT ![m].cooling = FALSE]
    /\ UNCHANGED <<theatre, settings, stopped, tick, held, req, ais, up>>

LinkUp == 
    /\ ~up /\ up' = TRUE
    /\ UNCHANGED <<ships, theatre, settings, stopped, tick, held, req, ais>>

LinkDown ==
    /\ up /\ up' = FALSE
    /\ UNCHANGED <<ships, theatre, settings, stopped, tick, held, req, ais>>

------------------------------------------------------------------------------
AisNext ==
    \/ AisGate
    \/ \E f \in Fix : AisPlace(f)
    \/ \E m \in MMSI, n \in Names, s \in Speeds : AisApply(m, n, s)

TickNext ==
    TickRead \/ TickPlan \/ TickSend \/ TickSendFails \/ TickCommit \/ TickExit

FinishRequest(r) == SendClear(r) \/ SendClearFails(r) \/ Wipe(r) \/ Reset(r)

RequestNext ==
    \/ ToggleTrackingOn \/ ToggleSpawningOn
    \/ \E r \in Requests :
          ToggleTrackingOff(r) \/ ToggleSpawningOff(r) \/ Stop(r) \/ FinishRequest(r)

EnvNext ==
    \/ \E t \in Theatres : SetTheatre(t)
    \/ \E m \in MMSI : Reject(m) \/ Age(m) \/ CoolOff(m)
    \/ \E n \in Caps : SetMaxShips(n)
    \/ LinkUp \/ LinkDown

Next == AisNext \/ TickNext \/ RequestNext \/ EnvNext

Spec == Init /\ [][Next]_vars

\* The ticker keeps firing, and a goroutine that is between two critical
\* sections goes on: no step of theirs waits for anything but a lock or a
\* write with a deadline.
Fairness ==
    /\ WF_vars(TickNext)
    /\ \A r \in Requests : WF_vars(FinishRequest(r))

FairSpec == Spec /\ Fairness

------------------------------------------------------------------------------
(* Properties.                                                             *)

TableTyped ==
    /\ ships \in [MMSI -> Ship]
    /\ \A m \in Tracked : ships[m].name \in Names /\ ships[m].fix \in Fix

BatchTyped ==
    /\ removes \subseteq [mmsi : MMSI, group : Names]
    /\ DOMAIN spawns \subseteq MMSI /\ spawns \in [DOMAIN spawns -> SpawnOrder]
    /\ DOMAIN updates \subseteq MMSI /\ updates \in [DOMAIN updates -> UpdateOrder]
    /\ held \subseteq DOMAIN spawns \cup DOMAIN updates
    /\ pc \in {"idle", "read", "exited"} => BatchEmpty

StepsTyped ==
    /\ theatre \in Theatres
    /\ tracking \in BOOLEAN /\ spawning \in BOOLEAN /\ maxShips \in Caps
    /\ stopped \in BOOLEAN /\ up \in BOOLEAN
    /\ pc \in {"idle", "read", "planned", "sent", "exited"}
    /\ snap \in [cap : Caps \cup {0}, spawn : BOOLEAN]
    /\ req \in [Requests -> {"none", "clearAll", "wipe", "clearSpawned", "reset"}]
    /\ ais \in [at : {"idle", "gated", "placed"}, fix : Fix \cup {NoFix}]
    /\ ais.at = "placed" => ais.fix \in Fix

\* Types; a tracked ship has a name and a fix, an update that has passed the box
\* has one too, and there are orders only within a tick.
TypeOK == TableTyped /\ BatchTyped /\ StepsTyped

\* What a tick carries from one critical section to the next still fits the
\* table, whatever happened in between: the ships it is about to commit as
\* spawned are pending, the ones it is about to reroute are still tracked, and
\* both together stay under the cap it has read.  (tick, phases 1 to 3)
BatchFitsTable ==
    /\ held \cap DOMAIN spawns \subseteq Pending
    /\ held \subseteq Tracked
    /\ held \cap DOMAIN spawns # {} =>
          Cardinality(Spawned \cup (held \cap DOMAIN spawns)) <= snap.cap

\* A ship is in DCS exactly while it has the group name it was spawned under:
\* the two are set and reset at five places.  (commit, SetTheatre,
\* clearSpawned, disableAll, handleReject)
SpawnedIffGrouped == \A m \in MMSI : m \in Spawned <=> ships[m].group # NoName

\* No step makes the spawned ships more numerous than the cap the tick has
\* read, whatever is removed, reset or rejected between plan and commit.  A
\* lowered cap never forces ships out: only growth is bounded.  (tick 533-547)
CapRespected ==
    [][~(Spawned' \subseteq Spawned) => Cardinality(Spawned') <= snap.cap]_vars

F == INSTANCE Fleet WITH Vessels <- MMSI, Limits <- Caps,
                         phase <- [m \in MMSI |-> ships[m].state],
                         limit <- snap.cap

\* The coordinator implements the fleet: every step of its goroutines is a
\* sighting, an admission of pending ships within the limit, a recall, a drop,
\* a new limit, or nothing.  (coordinator.go, the life of a TrackedShip)
ImplementsFleet == F!FleetSpec

\* The group name is frozen while the ship is spawned, however often AIS
\* renames the vessel, so reroutes and removals find the group.  (line 49)
GroupFrozen ==
    [][\A m \in Spawned : m \in Spawned' => ships'[m].group = ships[m].group]_vars

\* A reroute or conversion reaches the hook under the group its ship has: the
\* order was drawn up earlier, and the ship may have been reset meanwhile but
\* not renamed in DCS.  (updateCmds, 563-606)
UpdatesNameTheirShip ==
    \A m \in held \cap DOMAIN updates :
        m \in Spawned => ships[m].group = updates[m].group

\* The two together: the table knows the group of every ship in DCS, and so do
\* the orders under way.
GroupsAreKnown == SpawnedIffGrouped /\ UpdatesNameTheirShip

\* A spawned ship leaves the table only when its removal is in the batch being
\* planned, when the hook rejected it, or when the table is emptied after a
\* clear.  (489-503, 221-235, 431-441)
DroppedForAReason ==
    [][\A m \in Spawned : ships'[m].state = "Untracked" =>
           \/ [mmsi |-> m, group |-> ships[m].group] \in removes'
           \/ \E r \in Requests : req[r] = "wipe" /\ req'[r] = "none"
           \/ ships' = [ships EXCEPT ![m] = NoShip]]_vars

Off(m) == ~up \/ ~tracking \/ ~spawning \/ stopped

\* With the connection up, spawning on and no cap in the way, a pending ship
\* does not stay pending: batches being planned without it, commits on other
\* ships and resets of the table do not postpone it for ever.  (tick)
PendingIsSpawned ==
    \A m \in MMSI :
        m \in Pending ~> \/ m \notin Pending \/ Off(m) \/ maxShips < Cardinality(MMSI)

\* A moving ship that has drifted from the place DCS was told is rerouted, and
\* a static one that gets under way is converted.  (563-606)
MovementIsFollowed ==
    \A m \in MMSI :
        /\ (m \in Spawned /\ ~ships[m].static /\ ships[m].at # ships[m].fix)
               ~> \/ ships[m].cooling \/ ships[m].at = ships[m].fix
                  \/ m \notin Spawned \/ Off(m)
        /\ (m \in Spawned /\ ships[m].static /\ ships[m].sog >= 2)
               ~> \/ ~ships[m].static \/ ships[m].sog < 2
                  \/ m \notin Spawned \/ Off(m)

\* A vessel AIS no longer reports is forgotten, spawned or not, whether or not
\* the connection is up.  (489-503)
StaleIsForgotten ==
    \A m \in MMSI :
        (m \in Tracked /\ ~ships[m].fresh)
            ~> (m \notin Tracked \/ ships[m].fresh \/ ~tracking \/ stopped)
=============================================================================
