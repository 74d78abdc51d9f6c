------------------------------- MODULE Classify -------------------------------
(***************************************************************************)
(* How a vessel comes by its type, its category and its DCS model.  Its    *)
(* type and length reach the AIS client in position reports and static     *)
(* data (internal/ais/client.go), pass with an update through every        *)
(* coordinator's OnAISUpdate, are remembered in the cache they share, and  *)
(* choose a model from what the hook has reported (shipmatch.go).  An      *)
(* update is made of one moment's knowledge and applied at another:        *)
(* filters, reports and ticks come in between.                             *)
(*                                                                         *)
(* One vessel is followed: vessels do not share metadata.  The cache and   *)
(* its file are ShipCache's, whose Update is the last thing OnAISUpdate    *)
(* does; the program ends and starts with it.  The gates of OnAISUpdate    *)
(* that do not look at the vessel's type are in Coordinator: here an       *)
(* update may be dropped.  A type or length is 0 when it is not known.     *)
(*                                                                         *)
(* An operator with an underscore in its name is a slip: its namesake as a *)
(* plausible mistake would leave it.                                       *)
(***************************************************************************)
EXTENDS ShipModels

CONSTANTS
    Servers,    \* the DCS servers, each with a coordinator
    Types,      \* AIS ship type codes, 0 included
    Lengths,    \* in metres, 0 included
    Installs,   \* what a DCS installation may have
    FilterSets, \* the categories a server may be set to
    DiskFails   \* whether writing the cache's file may fail

ASSUME ClassifyAssumption ==
    /\ 0 \in Types /\ Types \subseteq Nat
    /\ 0 \in Lengths /\ Lengths \subseteq Nat
    /\ Installs \subseteq SUBSET Models
    /\ FilterSets \subseteq SUBSET Categories

VARIABLES
    dims,       \* Client.dims
    update,     \* the update the fan-out carries, the servers still to get it,
                \* and the one that has let it through its filters
    entry,      \* Coordinator.ships, by server
    registry,   \* Coordinator.models
    filters,    \* serverCfg.Filters
    order,      \* the model in a tick's spawn order, from plan to commit
    told,       \* for the properties: the model DCS was last told of,
    raced,      \* and whether it changed in the table while the order was out
    running, data, dirty, stopping, file, at, copy, late    \* ShipCache's

feedVars == <<dims, update, entry, registry, filters, order, told, raced>>
cacheVars == <<running, data, dirty, stopping, file, at, copy, late>>
vars == <<feedVars, cacheVars>>

Vessel == "vessel"
Cache == INSTANCE ShipCache WITH MMSI <- {Vessel}, Fields <- {"type", "length"},
                                 Values <- (Types \cup Lengths) \ {0}, Unknown <- 0
cached == data[Vessel]

Meta == [type : Types, length : Lengths]
Unknown == [type |-> 0, length |-> 0]
None == "none"

Update == [meta : Meta, todo : SUBSET Servers, past : SUBSET Servers]
NoUpdate == [meta |-> Unknown, todo |-> {}, past |-> {}]

Entry == [state : {"none", "pending", "spawned"}, type : Types, length : Lengths,
          category : Categories, model : Models \cup {None}]
NoEntry == [state |-> "none", type |-> 0, length |-> 0, category |-> "other",
            model |-> None]

Fresh(v) == [s \in Servers |-> v]

Init ==
    /\ dims = Unknown /\ update = NoUpdate
    /\ Cache!Init
    /\ entry = Fresh(NoEntry)
    /\ registry = Fresh(NoReport)
    /\ filters \in [Servers -> FilterSets]
    /\ order = Fresh(None) /\ told = Fresh(None) /\ raced = Fresh(FALSE)

\* Slip: what is not known overwrites what is.
Merged_Over(old, new) == new

\* What is known of new, over old.
Merged(old, new) ==
    [type |-> IF new.type > 0 THEN new.type ELSE old.type,
     length |-> IF new.length > 0 THEN new.length ELSE old.length]

------------------------------------------------------------------------------
(* The AIS client: one message at a time.                                  *)

Quiet == update = NoUpdate

handleStaticData(meta) ==
    /\ Quiet
    /\ meta # Unknown
    /\ dims' = Merged(dims, meta)
    /\ UNCHANGED <<cacheVars, update, entry, registry, filters, order, told, raced>>

\* The report's own type goes before the one of the static data.
handlePosition(t) ==
    /\ Quiet
    /\ update' = [meta |-> Merged(dims, [type |-> t, length |-> 0]),
                  todo |-> Servers, past |-> {}]
    /\ UNCHANGED <<cacheVars, dims, entry, registry, filters, order, told, raced>>

------------------------------------------------------------------------------
(* A coordinator: OnAISUpdate, the servers in any order.                   *)

\* The filters are read under the configuration lock and tested on the type
\* the update carries.
Filter(s) ==
    /\ s \in update.todo /\ update.past = {}
    /\ update' = [update EXCEPT !.todo = @ \ {s},
           !.past = IF ShipCategory(update.meta.type) \in filters[s] THEN {s} ELSE {}]
    /\ UNCHANGED <<cacheVars, dims, entry, registry, filters, order, told, raced>>

\* Tracking is off, or the position is outside the box.
Drop(s) ==
    /\ s \in update.todo /\ update.past = {}
    /\ update' = [update EXCEPT !.todo = @ \ {s}]
    /\ UNCHANGED <<cacheVars, dims, entry, registry, filters, order, told, raced>>

\* Slip: a new entry knows only what the update says.
Known_Uncached(e, u) ==
    IF e.state = "none" THEN u
    ELSE Merged(u, [type |-> e.type, length |-> 0])

\* A new entry takes from the cache what the update does not say; one that is
\* there keeps its type and takes a new length.
Known(e, u) ==
    IF e.state = "none" THEN Merged(cached, u)
    ELSE [type |-> IF e.type = 0 THEN u.type ELSE e.type,
          length |-> Merged([type |-> 0, length |-> e.length], u).length]

\* Slip: the category is set when the entry is made and never again.
Categorised_Once(e, type) ==
    IF e.state = "none" THEN ShipCategory(type) ELSE e.category

Categorised(e, type) == ShipCategory(type)

\* Slips: the model is chosen once; it is chosen for ships in DCS too.
Rematched_Never(e, u) == e.state = "none"
Rematched_Spawned(e, u) == e.state = "none" \/ u # Unknown

\* The model is chosen for a new entry, and again for a pending one as long as
\* the update knows something.
Rematched(e, u) == e.state = "none" \/ (e.state = "pending" /\ u # Unknown)

\* Cache.Update, which may find nothing new.
Cached(m) ==
    IF Merged(cached, m) = cached THEN UNCHANGED cacheVars ELSE Cache!Update(Vessel, m)

Apply(s) ==
    LET e == entry[s]
        u == update.meta
        known == Known(e, u)
    IN
    /\ s \in update.past
    /\ \E m \in IF Rematched(e, u) THEN dcsUnitType(registry[s], known.type, known.length)
                                   ELSE {e.model} :
          /\ entry' = [entry EXCEPT ![s] =
                 [state |-> IF e.state = "none" THEN "pending" ELSE e.state,
                  type |-> known.type, length |-> known.length,
                  category |-> Categorised(e, known.type), model |-> m]]
          /\ raced' = [raced EXCEPT ![s] = @ \/ (order[s] # None /\ m # order[s])]
    /\ Cached(known)
    /\ update' = [update EXCEPT !.past = {}]
    /\ UNCHANGED <<dims, registry, filters, order, told>>

setAvailableModels(s, S) ==
    /\ registry' = [registry EXCEPT ![s] = Report(S)]
    /\ UNCHANGED <<cacheVars, dims, update, entry, filters, order, told, raced>>

SetFilters(s, F) ==
    /\ F # filters[s]
    /\ filters' = [filters EXCEPT ![s] = F]
    /\ UNCHANGED <<cacheVars, dims, update, entry, registry, order, told, raced>>

------------------------------------------------------------------------------
(* The tick: what it does with models.                                     *)

\* The spawn order is drawn up under the lock.
PlanSpawn(s) ==
    /\ entry[s].state = "pending" /\ order[s] = None
    /\ order' = [order EXCEPT ![s] = entry[s].model]
    /\ raced' = [raced EXCEPT ![s] = FALSE]
    /\ UNCHANGED <<cacheVars, dims, update, entry, registry, filters, told>>

\* It is sent, and committed under the lock again.
CommitSpawn(s) ==
    /\ order[s] # None
    /\ entry' = [entry EXCEPT ![s].state = "spawned"]
    /\ told' = [told EXCEPT ![s] = order[s]]
    /\ order' = [order EXCEPT ![s] = None]
    /\ UNCHANGED <<cacheVars, dims, update, registry, filters, raced>>

SendFails(s) ==
    /\ order[s] # None
    /\ order' = [order EXCEPT ![s] = None]
    /\ UNCHANGED <<cacheVars, dims, update, entry, registry, filters, told, raced>>

\* A reroute, or a static object that gets under way, names the model anew.
Reorder(s) ==
    /\ entry[s].state = "spawned"
    /\ told' = [told EXCEPT ![s] = entry[s].model]
    /\ raced' = [raced EXCEPT ![s] = FALSE]
    /\ UNCHANGED <<cacheVars, dims, update, entry, registry, filters, order>>

\* SetTheatre, clearSpawned.
Recall(s) ==
    /\ entry[s].state = "spawned"
    /\ entry' = [entry EXCEPT ![s].state = "pending"]
    /\ UNCHANGED <<cacheVars, dims, update, registry, filters, order, told, raced>>

\* Stale, rejected, or tracking goes off.  A commit that is due writes to an
\* entry nobody sees.
Forget(s) ==
    /\ entry[s].state # "none"
    /\ entry' = [entry EXCEPT ![s] = NoEntry]
    /\ order' = [order EXCEPT ![s] = None]
    /\ told' = [told EXCEPT ![s] = None]
    /\ raced' = [raced EXCEPT ![s] = FALSE]
    /\ UNCHANGED <<cacheVars, dims, update, registry, filters>>

\* The program starts, with what the cache finds in its file.
Start ==
    /\ Cache!New
    /\ dims' = Unknown /\ update' = NoUpdate
    /\ entry' = Fresh(NoEntry)
    /\ registry' = Fresh(NoReport)
    /\ order' = Fresh(None) /\ told' = Fresh(None) /\ raced' = Fresh(FALSE)
    /\ UNCHANGED filters

\* The cache's own steps, the end of the program among them.
CacheNext ==
    /\ \/ \E s \in Cache!Savers : Cache!Save(s)
       \/ Cache!SaveSkips \/ Cache!Stop \/ Cache!LoopEnds \/ Cache!Ends
    /\ UNCHANGED feedVars

TickNext(s) ==
    PlanSpawn(s) \/ CommitSpawn(s) \/ SendFails(s) \/ Reorder(s) \/ Recall(s) \/ Forget(s)

\* StopAll comes before Cache.Stop: then the coordinators are gone.
FeedNext ==
    /\ running /\ ~stopping
    /\ \/ \E meta \in Meta : handleStaticData(meta)
       \/ \E t \in Types : handlePosition(t)
       \/ \E s \in Servers :
             \/ Filter(s) \/ Drop(s) \/ Apply(s) \/ TickNext(s)
             \/ \E S \in Installs : setAvailableModels(s, S)
             \/ \E F \in FilterSets : SetFilters(s, F)

Next == Start \/ FeedNext \/ CacheNext

Spec == Init /\ [][Next]_vars

\* The ticker fires for as long as the program runs, and a disk that is tried
\* again and again takes a file in the end.
FairSpec ==
    /\ Spec
    /\ WF_vars(Cache!SaveCopies("loop") /\ UNCHANGED feedVars)
    /\ WF_vars(Cache!SaveClears("loop") /\ UNCHANGED feedVars)
    /\ SF_vars(Cache!SaveOpens("loop") /\ UNCHANGED feedVars)
    /\ SF_vars(Cache!SaveWrites("loop") /\ UNCHANGED feedVars)

------------------------------------------------------------------------------
(* Properties.                                                             *)

\* Types, and the category of every tracked vessel is that of its type, however
\* and whenever it was learned: the dashboard counts by the one and the models
\* go by the other.  (OnAISUpdate)
ClassifyTypeOK ==
    /\ Cache!CacheTypeOK
    /\ dims \in Meta /\ cached \in Meta
    /\ update \in Update
    /\ entry \in [Servers -> Entry]
    /\ registry \in [Servers -> Registry]
    /\ filters \in [Servers -> FilterSets]
    /\ order \in [Servers -> Models \cup {None}]
    /\ \A s \in Servers : entry[s].category = ShipCategory(entry[s].type)

KnownOf(m) == {f \in {"type", "length"} : m[f] > 0}

\* Type and length, once known, stay known along the whole chain - client,
\* cache, file, entry - although most messages carry neither: "so we don't lose
\* data from earlier messages" (client.go:247).  A vessel is never entered
\* without what the cache has, on whichever server, or before whichever restart,
\* that was learned: "vessels seen before get classified immediately on restart"
\* (README.md:29).
KnownStaysKnown ==
    [][/\ Cache!Learns
       /\ \/ dims' = Unknown /\ update' = NoUpdate        \* Start
          \/ /\ KnownOf(dims) \subseteq KnownOf(dims')
             /\ \A s \in Servers : entry'[s].state = "none" \/
                   KnownOf(IF entry[s].state = "none" THEN cached ELSE entry[s])
                       \subseteq KnownOf(entry'[s])]_vars

\* What the cache knows reaches its file, through a disk that fails now and then,
\* unless it was learned while a save was under way, or the program ends first.
\* (shipcache: Update, save, saveLoop)
ReachesDisk == Cache!ReachesDisk

\* A vessel that has not been in DCS is down for a model of its category and its
\* length, as now known, or a universal one: no type or length is learned
\* without choosing again.  (OnAISUpdate)
PendingModelFits ==
    \A s \in Servers :
        (entry[s].state = "pending" /\ told[s] = None) =>
            entry[s].model \in ToSet(Suited(entry[s].category, entry[s].length))
                                   \cup ToSet(Fallbacks)

\* The model of a ship in DCS is the one DCS was told of, unless it was chosen
\* anew while the spawn order was on its way: the table then names another ship
\* than the one that sails, until a reroute changes it.  (tick, OnAISUpdate)
TableNamesModel ==
    \A s \in Servers :
        (entry[s].state = "spawned" /\ ~raced[s]) => entry[s].model = told[s]
=============================================================================
