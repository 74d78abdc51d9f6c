-------------------------------- MODULE Ledger --------------------------------
(***************************************************************************)
(* The coordinator together with what the commands it has written so far   *)
(* ask DCS to hold (dcscomm/protocol.go, and the hook's handlers for them):*)
(* the other half of every step that sends.  A group is a static object or *)
(* a moving ship; spawning a name that is there replaces what had it.      *)
(*                                                                         *)
(* Nothing in the code makes table and ledger agree under every schedule.  *)
(* Faults names the circumstances the environment may add to a calm one:   *)
(*   "overlap"  a handler switches things off while a tick is at work or   *)
(*              an update is on its way, or a tick starts while it does    *)
(*   "link"     the connection is lost without the mission ending          *)
(*   "rejoin"   the hook's theatre message finds a tick between plan and   *)
(*              commit                                                     *)
(*   "reject"   a rejection finds a tick between plan and commit           *)
(***************************************************************************)
EXTENDS Coordinator

CONSTANT Faults

VARIABLE standing     \* the groups DCS has been asked to hold

ledgerVars == <<vars, standing>>

Standing == [mmsi : MMSI, group : Names, static : BOOLEAN]

\* NewRemove: the group is destroyed, if it is there.
Remove(S, R) == {e \in S : [mmsi |-> e.mmsi, group |-> e.group] \notin R}

Named(orders, M) == {[mmsi |-> m, group |-> orders[m].group] : m \in M}

\* NewSpawn for the vessels in M.
Spawn(S, M) ==
    Remove(S, Named(spawns, M)) \cup
    {[mmsi |-> m, group |-> spawns[m].group, static |-> spawns[m].static] : m \in M}

\* NewRemove and NewSpawn of a conversion, or NewReroute, which puts the ship
\* there when the hook has lost it and leaves a static object alone.
Update(S, M) ==
    LET Kept(m) == \E e \in S : /\ e.mmsi = m /\ e.group = updates[m].group
                                /\ e.static /\ ~updates[m].convert
        Moved == {m \in M : ~Kept(m)}
    IN  Remove(S, Named(updates, Moved)) \cup
        {[mmsi |-> m, group |-> updates[m].group, static |-> FALSE] : m \in Moved}

\* What stands once the batch is written: removals, then spawns, then updates.
Written(R, M, U) == Update(Spawn(Remove(standing, R), M), U)

\* A write that fails half way has delivered the commands before it, and perhaps
\* one of the two a conversion is.
CutShort ==
    LET Nearly == {Written(removes, DOMAIN spawns, U) : U \in SUBSET DOMAIN updates}
        Halved(S) == {Remove(S, Named(updates, {m})) :
                          m \in {n \in DOMAIN updates : updates[n].convert}}
    IN  {standing} \cup {Written(R, {}, {}) : R \in SUBSET removes}
                   \cup {Written(removes, M, {}) : M \in SUBSET DOMAIN spawns}
                   \cup Nearly \cup UNION {Halved(S) : S \in Nearly}

LedgerInit == Init /\ standing = {}

Silent(A) == A /\ UNCHANGED standing

TickAtWork == pc \notin {"idle", "exited"}
HandlerAtWork == \E r \in Requests : req[r] # "none"

\* Two circumstances exclude each other unless the fault between them occurs.
Apart(fault, busy) == fault \in Faults \/ ~busy

LedgerTick ==
    \/ Silent(TickRead) /\ Apart("overlap", HandlerAtWork)
    \/ Silent(TickPlan) \/ Silent(TickCommit) \/ Silent(TickExit)
    \/ TickSend /\ standing' = Written(removes, DOMAIN spawns, DOMAIN updates)
    \/ TickSendFails /\ Apart("link", up)
                     /\ standing' \in (IF up THEN CutShort ELSE {standing})

LedgerRequest ==
    \/ Silent(ToggleTrackingOn) \/ Silent(ToggleSpawningOn)
    \/ \E r \in Requests :
          \/ /\ Apart("overlap", TickAtWork \/ HandlerAtWork \/ ais.at # "idle")
             /\ Silent(ToggleTrackingOff(r) \/ ToggleSpawningOff(r) \/ Stop(r))
          \/ SendClear(r) /\ standing' = {}
          \/ /\ SendClearFails(r)
             /\ Apart("link", up)
             /\ standing' \in (IF up THEN {standing, {}} ELSE {standing})
          \/ Silent(Wipe(r)) \/ Silent(Reset(r))

\* DCS loads a mission: nothing stands, the hook closes the connection.  With
\* the fault, the connection goes by itself and everything stands.
MissionLoad ==
    /\ standing # {} \/ up
    /\ standing' \in {{}} \cup (IF "link" \in Faults THEN {standing} ELSE {})
    /\ up' = FALSE
    /\ UNCHANGED <<ships, theatre, settings, stopped, tick, held, req, ais>>

\* The hook accepts a connection and names the theatre before anything else.
Rejoin(t) ==
    /\ ~up
    /\ Apart("rejoin", pc \in {"planned", "sent"} \/ HandlerAtWork)
    /\ up' = TRUE
    /\ theatre' = t
    /\ ships' = BackToPending
    /\ UNCHANGED <<settings, stopped, tick, held, req, ais, standing>>

\* The hook could not place a group and says so.  A ship not yet committed has
\* no group name to be found by and stays; a ship a batch is about to reroute
\* goes, and the hook will put it there again.
Rejected(e) ==
    /\ Apart("reject", pc \in {"planned", "sent"})
    /\ standing' = standing \ {e}
    /\ IF ships[e.mmsi].group = e.group THEN Reject(e.mmsi) ELSE UNCHANGED vars

LedgerEnv ==
    \/ MissionLoad
    \/ \E t \in Theatres : Rejoin(t)
    \/ \E e \in standing : up /\ Rejected(e)
    \/ \E m \in MMSI : Silent(Age(m)) \/ Silent(CoolOff(m))
    \/ \E n \in Caps : Silent(SetMaxShips(n))

LedgerNext == Silent(AisNext) \/ LedgerTick \/ LedgerRequest \/ LedgerEnv

LedgerSpec == LedgerInit /\ [][LedgerNext]_ledgerVars

------------------------------------------------------------------------------
(* Properties.                                                             *)

LedgerTypeOK == standing \subseteq Standing

Settled == up /\ ~TickAtWork /\ ~HandlerAtWork

\* Between two ticks the table and DCS agree: the ships it counts as spawned
\* are exactly the groups DCS was asked to hold, under the same names and of the
\* same kind, through renaming, conversion, removal, rejection, clears and
\* missions, with AIS updates coming in between all phases of a tick.
TableMatchesDcs ==
    Settled => standing = {[mmsi |-> m, group |-> ships[m].group,
                            static |-> ships[m].static] : m \in Spawned}

\* A vessel never has two groups in DCS, not even within a tick.
OneGroupEach ==
    /\ LedgerTypeOK
    /\ \A d, e \in standing : d.mmsi = e.mmsi => d = e

\* disableAll "clears all ships from DCS and the tracking map" (line 430): with
\* tracking off and the handlers and the tick at rest, nothing stands in DCS.
\* A tick that wrote its batch after the handler wrote its clear breaks it.
DcsIsClear == (Settled /\ ~tracking) => standing = {}

\* The other half, in the calm runs: the table is empty too.  (disableAll)
DisabledIsClear == DcsIsClear /\ ((Settled /\ ~tracking) => Tracked = {})
=============================================================================
