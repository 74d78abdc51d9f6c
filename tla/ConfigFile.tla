----------------------------- MODULE ConfigFile -----------------------------
(***************************************************************************)
(* config.toml (internal/config/config.go): what Load makes of each form   *)
(* the file has had, the save that ends a migration and the one that ends  *)
(* a request, and a program that dies, or a disk that fails, between them. *)
(* What the requests do to the settings and to the servers that run is     *)
(* Registry's; here a request changes one setting and saves.               *)
(*                                                                         *)
(* The file is the lines above the first [[servers]], and those under each *)
(* such heading.  Lines are a number for each key that is there; another   *)
(* heading is a key too.  Their order matters where a file is cut, and is  *)
(* that of Order.  Zero is what the decoder leaves where a line is missing:*)
(* no, none, the empty key.  The forms differ in their lines only:         *)
(*   version 1   one server, under [ais] and [dcs]                         *)
(*   unsplit     [[servers]], each enabled or not                          *)
(*   current     [[servers]], each with tracking-enabled, spawn-enabled    *)
(*                                                                         *)
(* An operator with an underscore in its name is a slip: its namesake as a *)
(* plausible mistake would leave it.                                       *)
(***************************************************************************)
EXTENDS Naturals, Sequences, SequencesExt

CONSTANTS
    OldFiles,     \* the files an earlier version, or nobody, may have left, each
                  \* with what it means
    MaxEntries,   \* bound on the number of servers
    MaxChanges    \* bound on the requests of a run

\* The settings of a server in the order in which they are written.
Order == <<"id", "hook-port", "enabled", "tracking-enabled", "spawn-enabled",
           "max-ships", "filters">>

\* The first i of them, and all.
First(i) == {Order[j] : j \in 1 .. i}
Keys == First(7)

\* A text that does not parse has a line that is cut.
File(state, top, servers) == [state |-> state, top |-> top, servers |-> servers]
NoLines == [k \in {} |-> 0]
Absent == File("absent", NoLines, <<>>)
Empty == File("text", NoLines, <<>>)

\* Filters: none, some, all; a number: its default, another.
AllOn == 2
Filters == 0 .. AllOn
ShipLimits == {1, 2}

\* All that is written is one of these.
Numbers == 0 .. MaxEntries + AllOn

VARIABLES
    pc,       \* "off", "run", or where a save is: "save", "opened"
    cfg,      \* Config: the API key and the servers
    file,     \* config.toml
    must,     \* the save belongs to a Load that gives up when it fails
    changes,  \* how many requests there have been
    failed,   \* for the properties: a save has failed since the last Load or save
    whole,    \* the file holds all the lines it was last to be given
    meant     \* what these mean

fileVars == <<pc, cfg, file, must, changes, failed, whole, meant>>

defaults == [key |-> 0, servers |-> <<>>]

DefaultServerConfig(id) ==
    [k \in Keys |-> CASE k \in {"id", "hook-port"} -> id
                      [] k = "enabled" -> 0
                      [] k = "filters" -> AllOn
                      [] OTHER -> 1]

------------------------------------------------------------------------------
(* Reading.                                                                *)

Has(f, k) == k \in DOMAIN f.top \/ \E n \in DOMAIN f.servers : k \in DOMAIN f.servers[n]

Above(f, k) == IF k \in DOMAIN f.top THEN f.top[k] ELSE 0

\* Slip: a server starts from the default settings.
Missing_Default(k) == DefaultServerConfig(0)[k]

Missing(k) == 0

\* Unmarshal, onto the defaults.
Decoded(f) ==
    [key |-> Above(f, "api-key"),
     servers |-> [n \in DOMAIN f.servers |->
         [k \in Keys |-> IF k \in DOMAIN f.servers[n] THEN f.servers[n][k] ELSE Missing(k)]]]

\* Slip: any file with a hook-port is an old one.
isV1Format_AnyPort(f) == Has(f, "[dcs]") \/ Has(f, "hook-port")

isV1Format(f) == (Has(f, "[dcs]") \/ Has(f, "hook-port")) /\ f.servers = <<>>

Or(v, default) == IF v = 0 THEN default ELSE v

\* Slip: filters that are all off are taken for filters that are not there.
V1Filters_Zero(f) == Or(Above(f, "[filters]"), AllOn)

V1Filters(f) == IF Has(f, "[filters]") THEN Above(f, "[filters]") ELSE AllOn

migrateV1(f) ==
    [key |-> Above(f, "api-key"),
     servers |-> <<[DefaultServerConfig(1) EXCEPT
                       !["hook-port"] = Or(Above(f, "hook-port"), 1),
                       !["tracking-enabled"] = 0, !["spawn-enabled"] = 0,
                       !["max-ships"] = Or(Above(f, "max-ships"), 1),
                       !["filters"] = V1Filters(f)]>>]

\* Slip: the deprecated setting stays.
Split_Kept(s) ==
    IF s["enabled"] = 0 THEN s
    ELSE [s EXCEPT !["tracking-enabled"] = 1, !["spawn-enabled"] = 1]

Split(s) ==
    IF s["enabled"] = 0 THEN s
    ELSE [s EXCEPT !["tracking-enabled"] = 1, !["spawn-enabled"] = 1, !["enabled"] = 0]

Unsplit(f) == ~Has(f, "tracking-enabled") /\ ~Has(f, "spawn-enabled")

migrateEnabledField(c, f) ==
    IF Unsplit(f) THEN [c EXCEPT !.servers = [n \in DOMAIN @ |-> Split(@[n])]] ELSE c

\* An earlier version had enabled, or the two settings it was split into.
OldFile(f) ==
    /\ f \in {Absent, File("text", f.top, f.servers)}
    /\ f.top \in [DOMAIN f.top -> Numbers] /\ Above(f, "api-key") \in {0, 1}
    /\ f.servers \in Seq(UNION {[K -> Numbers] : K \in SUBSET Keys})
    /\ Len(f.servers) <= MaxEntries
    /\ Unsplit(f) \/ \A n \in DOMAIN f.servers : "enabled" \notin DOMAIN f.servers[n]

ASSUME ConfigFileAssumption ==
    /\ MaxEntries \in Nat \ {0} /\ MaxChanges \in Nat
    /\ \A o \in OldFiles : OldFile(o.file)

------------------------------------------------------------------------------
(* Writing.  Enabled is the one setting that is left out when it is zero.  *)

Lines(s) == Restrict(s, {k \in Keys : k # "enabled" \/ s[k] = 1})

Marshal(c) ==
    File("text", [k \in {"api-key"} |-> c.key], [n \in DOMAIN c.servers |-> Lines(c.servers[n])])

\* A save of c begins.
SaveBegins(c, giveUp) ==
    /\ pc' = "save" /\ must' = giveUp
    /\ cfg' = c
    /\ UNCHANGED <<file, failed, whole, meant>>

\* WriteFile opens the file, which empties it, then writes.
SaveOpens ==
    /\ pc = "save" /\ pc' = "opened"
    /\ file' = Empty
    /\ whole' = FALSE /\ meant' = cfg
    /\ UNCHANGED <<cfg, must, changes, failed>>

SaveWrites ==
    /\ pc = "opened" /\ pc' = "run"
    /\ file' = Marshal(cfg)
    /\ whole' = TRUE /\ failed' = FALSE
    /\ UNCHANGED <<cfg, must, changes, meant>>

\* The part of f that ends with the first i settings of server m, or with its
\* heading.
UpTo(f, m, i) ==
    [f EXCEPT !.servers = [n \in 1 .. m |->
        IF n < m THEN @[n] ELSE Restrict(@[n], First(i) \cap DOMAIN @[n])]]

Garbled(f) == [f EXCEPT !.state = "garbled"]

\* What is in the file when writing ends early: some of the lines, and part of
\* the next or not.
Cut ==
    LET all == Marshal(cfg)
        some == ({Empty} \cup {UpTo(all, m, i) : m \in 0 .. Len(all.servers), i \in 0 .. 7})
                \ {all}
    IN  some \cup {Garbled(f) : f \in some}

\* Load gives up; a request reports the error or not, and what it changed stays.
SaveFails ==
    /\ \/ pc = "save" /\ UNCHANGED file
       \/ pc = "opened" /\ file' \in Cut
    /\ pc' = IF must THEN "off" ELSE "run"
    /\ failed' = TRUE
    /\ UNCHANGED <<cfg, must, changes, whole, meant>>

Crash ==
    /\ pc # "off" /\ pc' = "off"
    /\ IF pc = "opened" THEN file' \in Cut ELSE UNCHANGED file
    /\ UNCHANGED <<cfg, must, changes, failed, whole, meant>>

------------------------------------------------------------------------------
(* Load.                                                                   *)

Runs(c) ==
    /\ pc' = "run" /\ cfg' = c
    /\ failed' = FALSE
    /\ UNCHANGED <<file, must, whole, meant>>

\* Slip: the file is not written again.
Migrated_InMemory(f) == FALSE

\* migrateEnabledField's result: some server was enabled.
Migrated(f) == migrateEnabledField(Decoded(f), f) # Decoded(f)

LoadNone == file = Absent /\ SaveBegins(defaults, TRUE)

LoadV1 == isV1Format(file) /\ SaveBegins(migrateV1(file), TRUE)

\* An error of the save is ignored.
LoadServers ==
    /\ file # Absent /\ ~isV1Format(file)
    /\ LET c == migrateEnabledField(Decoded(file), file)
       IN  IF Migrated(file) THEN SaveBegins(c, FALSE) ELSE Runs(c)

\* A file that does not parse ends the program.
Load ==
    /\ pc = "off" /\ file.state # "garbled"
    /\ LoadNone \/ LoadV1 \/ LoadServers
    /\ UNCHANGED changes

------------------------------------------------------------------------------
(* The requests: each changes the settings and saves.                      *)

Changing ==
    /\ pc = "run"
    /\ changes < MaxChanges /\ changes' = changes + 1

\* handleConfigPost does not take an empty key.
SetKey == Changing /\ SaveBegins([cfg EXCEPT !.key = 1], FALSE)

AddServer(id) ==
    /\ Changing
    /\ Len(cfg.servers) < MaxEntries
    /\ \A n \in DOMAIN cfg.servers : cfg.servers[n]["id"] # id
    /\ SaveBegins([cfg EXCEPT !.servers = Append(@, DefaultServerConfig(id))], FALSE)

RemoveServer(n) == Changing /\ SaveBegins([cfg EXCEPT !.servers = RemoveAt(@, n)], FALSE)

\* UpdateServer takes no zero; the filters may all be off.
ChangeServer(n) ==
    /\ Changing
    /\ \/ \E v \in ShipLimits : SaveBegins([cfg EXCEPT !.servers[n]["max-ships"] = v], FALSE)
       \/ \E v \in Filters : SaveBegins([cfg EXCEPT !.servers[n]["filters"] = v], FALSE)

\* Tracking off takes spawning with it, spawning on brings tracking.
ToggleServer(n) ==
    /\ Changing
    /\ \E t, s \in {0, 1} :
          /\ s <= t
          /\ SaveBegins([cfg EXCEPT !.servers[n]["tracking-enabled"] = t,
                                    !.servers[n]["spawn-enabled"] = s], FALSE)

------------------------------------------------------------------------------
FileInit ==
    /\ pc = "off" /\ must = FALSE /\ changes = 0
    /\ cfg = defaults
    /\ \E o \in OldFiles : file = o.file /\ meant = o.means
    /\ failed = FALSE /\ whole = TRUE

FileNext ==
    \/ Load \/ SaveOpens \/ SaveWrites \/ SaveFails \/ Crash
    \/ SetKey
    \/ \E id \in 1 .. MaxEntries : AddServer(id)
    \/ \E n \in DOMAIN cfg.servers : RemoveServer(n) \/ ChangeServer(n) \/ ToggleServer(n)

FileSpec == FileInit /\ [][FileNext]_fileVars

------------------------------------------------------------------------------
Starts == pc = "off" /\ pc' # "off"

\* A server of a file that was cut has zeroes where lines are missing.
Server ==
    [Keys -> Numbers]

\* Each variable has its type, and no server keeps the deprecated setting.
ConfigTypeOK ==
    /\ pc \in {"off", "save", "opened", "run"}
    /\ cfg.key \in {0, 1} /\ Len(cfg.servers) <= MaxEntries
    /\ \A n \in DOMAIN cfg.servers :
          cfg.servers[n] \in Server /\ cfg.servers[n]["enabled"] = 0
    /\ changes \in 0 .. MaxChanges
    /\ {must, failed, whole} \subseteq BOOLEAN

\* The program starts with what the file was last made to say, whatever form an
\* earlier version gave it, and however often a start or a save was broken off
\* before the file was opened: a migration repeated gives the same settings.  A
\* file that was cut loses servers and settings, and switches nothing on that was
\* off, nor gives one server the settings of another.  (Load, the migrations)
StartsAsMeant ==
    [][Starts =>
        IF whole THEN cfg' = meant
        ELSE \A n \in DOMAIN cfg'.servers :
                /\ n \in DOMAIN meant.servers
                /\ \A k \in Keys : cfg'.servers[n][k] \in {0, meant.servers[n][k]}]_fileVars

\* The file of a program that runs is in a form that means what it runs with,
\* read by a Load that has nothing to migrate, unless a save has failed.
FileIsCurrent ==
    /\ ConfigTypeOK
    /\ pc = "run" /\ whole /\ ~failed => ~isV1Format(file) /\ Decoded(file) = cfg
=============================================================================
