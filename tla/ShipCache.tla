------------------------------ MODULE ShipCache ------------------------------
(***************************************************************************)
(* The cache of ship metadata and its file (internal/shipcache/cache.go):  *)
(* updates arrive from the coordinators; every 30 s a goroutine saves what *)
(* has changed; Stop saves once more, without waiting for that goroutine.  *)
(* The program may end between any two steps: it is killed, it is replaced *)
(* by an update of itself, or the web server cannot listen.                *)
(*                                                                         *)
(* A vessel's metadata gives each field a value or Unknown; one that is    *)
(* not in the map has none.  A file that was cut short, or into which two  *)
(* savers have written, is torn: it does not parse.                        *)
(*                                                                         *)
(* An operator with an underscore in its name is a slip: its namesake as a *)
(* plausible mistake would leave it.                                       *)
(***************************************************************************)
CONSTANTS
    MMSI,       \* vessels
    Fields,     \* name, type, length, beam
    Values,     \* what a field may be known to be
    Unknown,    \* the empty name, "UNKNOWN", a number that is not positive
    DiskFails   \* whether writing the file may fail

Savers == {"loop", "stop"}

VARIABLES
    running,    \* the program runs
    data,       \* Cache.data
    dirty,      \* Cache.dirty
    stopping,   \* Cache.stopCh is closed
    file,       \* shipcache.json
    at,         \* the step each saver is at
    copy,       \* what each has marshalled
    late        \* for the properties: vessels updated while a save was under way

vars == <<running, data, dirty, stopping, file, at, copy, late>>

Meta == [Fields -> Values \cup {Unknown}]
Table == [MMSI -> Meta]
Empty == [m \in MMSI |-> [f \in Fields |-> Unknown]]

\* An absent file is an empty one.
File == [torn : BOOLEAN, table : Table]
Whole(t) == [torn |-> FALSE, table |-> t]

\* Slip: the file is opened and not emptied.
Torn_Kept == [file EXCEPT !.torn = TRUE]

Torn == [torn |-> TRUE, table |-> Empty]

Asleep == [s \in Savers |-> IF s = "loop" THEN "waiting" ELSE "absent"]

Init ==
    /\ running = FALSE
    /\ data = Empty /\ dirty = FALSE /\ stopping = FALSE
    /\ file = Whole(Empty)
    /\ at = Asleep /\ copy = [s \in Savers |-> Empty]
    /\ late = {}

\* New: load, and the save loop.  A file that does not parse is left where it
\* is, and the cache is empty.
New ==
    /\ ~running /\ running' = TRUE
    /\ data' = file.table /\ dirty' = FALSE /\ stopping' = FALSE
    /\ at' = Asleep /\ copy' = [s \in Savers |-> Empty]
    /\ late' = {}
    /\ UNCHANGED file

Saving(s) == at[s] \in {"copied", "opened", "written"}
NoneSaving == \A s \in Savers : ~Saving(s)

Merged(m, u) == [f \in Fields |-> IF u[f] = Unknown THEN m[f] ELSE u[f]]

\* Slip: only a vessel that was not there counts as a change.
Dirtied_New(m) == dirty \/ data[m] = [f \in Fields |-> Unknown]

Dirtied(m) == TRUE

\* Update.  None comes once the program is stopping: the coordinators are gone.
Update(m, u) ==
    /\ running /\ ~stopping
    /\ Merged(data[m], u) # data[m]
    /\ data' = [data EXCEPT ![m] = Merged(@, u)]
    /\ dirty' = Dirtied(m)
    /\ late' = IF NoneSaving THEN late ELSE late \cup {m}
    /\ UNCHANGED <<running, stopping, file, at, copy>>

Done(s) == at' = [at EXCEPT ![s] = IF s = "loop" THEN "waiting" ELSE "finished"]

------------------------------------------------------------------------------
(* save.                                                                   *)

\* Under the read lock.  The loop may find a tick due and stopCh closed at once.
SaveCopies(s) ==
    /\ running
    /\ at[s] = "waiting"
    /\ dirty
    /\ copy' = [copy EXCEPT ![s] = data]
    /\ at' = [at EXCEPT ![s] = "copied"]
    /\ late' = {}
    /\ UNCHANGED <<running, data, dirty, stopping, file>>

\* Nothing to save.
SaveSkips ==
    /\ running
    /\ at["stop"] = "waiting" /\ ~dirty
    /\ Done("stop")
    /\ UNCHANGED <<running, data, dirty, stopping, file, copy, late>>

\* WriteFile opens the file, which empties it, and writes.
SaveOpens(s) ==
    /\ running /\ at[s] = "copied"
    /\ file' = Torn
    /\ at' = [at EXCEPT ![s] = "opened"]
    /\ UNCHANGED <<running, data, dirty, stopping, copy, late>>

\* The other saver may have written meanwhile: what it wrote beyond the end of
\* this text stays.
SaveWrites(s) ==
    /\ running /\ at[s] = "opened"
    /\ \/ file' = Whole(copy[s])
       \/ ~file.torn /\ file.table # copy[s] /\ file' = Torn
    /\ at' = [at EXCEPT ![s] = "written"]
    /\ UNCHANGED <<running, data, dirty, stopping, copy, late>>

\* The file cannot be opened, or not written.
SaveFails(s) ==
    /\ DiskFails
    /\ running /\ at[s] \in {"copied", "opened"}
    /\ Done(s)
    /\ UNCHANGED <<running, data, dirty, stopping, file, copy, late>>

\* Slip: the file is taken for saved although it was not written.
Clears_Early(s) == at[s] \in {"copied", "written"}

Clears(s) == at[s] = "written"

\* dirty is cleared under the lock, taken again.
SaveClears(s) ==
    /\ running /\ Clears(s)
    /\ dirty' = FALSE
    /\ Done(s)
    /\ UNCHANGED <<running, data, stopping, file, copy, late>>

------------------------------------------------------------------------------
\* Stop: the loop is told to end, and the caller saves.
Stop ==
    /\ running /\ ~stopping
    /\ stopping' = TRUE
    /\ at' = [at EXCEPT !["stop"] = "waiting"]
    /\ UNCHANGED <<running, data, dirty, file, copy, late>>

LoopEnds ==
    /\ running /\ stopping
    /\ at["loop"] = "waiting"
    /\ at' = [at EXCEPT !["loop"] = "finished"]
    /\ UNCHANGED <<running, data, dirty, stopping, file, copy, late>>

\* main returns after Stop; or the program ends anyhow.
Ends ==
    /\ running
    /\ running' = FALSE
    /\ UNCHANGED <<data, dirty, stopping, file, at, copy, late>>

Save(s) ==
    SaveCopies(s) \/ SaveOpens(s) \/ SaveWrites(s) \/ SaveFails(s) \/ SaveClears(s)

Next ==
    \/ New
    \/ \E m \in MMSI, u \in Meta : Update(m, u)
    \/ \E s \in Savers : Save(s)
    \/ SaveSkips \/ Stop \/ LoopEnds \/ Ends

Spec == Init /\ [][Next]_vars

------------------------------------------------------------------------------
(* Properties.                                                             *)

CacheTypeOK ==
    /\ running \in BOOLEAN /\ dirty \in BOOLEAN /\ stopping \in BOOLEAN
    /\ data \in Table /\ file \in File
    /\ file.torn => file.table = Empty      \* nothing can be loaded from it
    /\ at \in [Savers -> {"absent", "waiting", "copied", "opened", "written", "finished"}]
    /\ copy \in [Savers -> Table]
    /\ ~stopping => at["stop"] = "absent"
    /\ late \subseteq MMSI

\* While the program runs and nothing is being saved, a vessel whose metadata
\* is not in the file is about to be saved, or it was updated during a save: the
\* one gap left by clearing dirty under a lock of its own.  (Update, save)
UnsavedIsFlagged ==
    (running /\ ~stopping /\ NoneSaving /\ ~dirty) =>
        \A m \in MMSI : data[m] = file.table[m] \/ m \in late

\* t knows no more than u.
Within(t, u) ==
    \A m \in MMSI, f \in Fields : t[m][f] # Unknown => u[m][f] # Unknown

\* What is known of a vessel is not forgotten: not by the cache while the program
\* runs, although an update carries only some of the fields, nor by the file: a
\* save that replaces it knows all it did, although the copy is an old one by
\* then.  (Update, save, load)
Learns ==
    /\ (running /\ running') => Within(data, data')
    /\ (running /\ ~stopping /\ file' # file) => Within(file.table, copy["loop"])
OnlyLearns == [][Learns]_vars

\* What the cache knows reaches the disk, or was learned while it was being
\* saved, unless the program ends first.  (saveLoop)
ReachesDisk ==
    \A m \in MMSI :
        (running /\ data[m] # file.table[m])
            ~> (data[m] = file.table[m] \/ m \in late \/ stopping \/ ~running)
=============================================================================
