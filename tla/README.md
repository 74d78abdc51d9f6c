# DCS AIS Traffic: a verification project

DCS AIS Traffic shows real shipping in the DCS World simulator.  A Go program
(`src/cmd`, `src/internal`) subscribes to aisstream.io, keeps a table of ships
for each configured DCS server, and writes commands over TCP to a Lua hook
(`src/lua/AISTrafficHook.lua`) that runs inside DCS and spawns, reroutes and
destroys groups.  A dashboard adds and removes servers and switches tracking and
spawning on and off.

This directory holds TLA+ modules of the parts where goroutines, callbacks,
queues and connections meet, TLC runs that check them on small instances, and
proofs, checked by TLAPS, of theorems for every value of the constants.

## 1. The system

| Component | Source | State | Operations |
|---|---|---|---|
| Coordinator, one per server | `internal/coordinator/coordinator.go` | `ships` by MMSI (Pending, Spawned), `theatre`, `stopCh`; flags and cap in the shared configuration | `OnAISUpdate`; `tick` (plan under the lock, send without it, commit under it); `ToggleTracking`, `ToggleSpawning`, `Stop`; `SetTheatre`, `handleReject` from the hook |
| Command protocol | `internal/dcscomm/protocol.go` | none | spawn, remove, reroute, clear, one JSON line each |
| Hook connector, one per server | `internal/dcscomm/server.go` | `conn`, `connected`, `stopCh` | `Start` (dial, publish, read, again), `Send`, `SendBatch`, `Stop` |
| Lua hook | `lua/AISTrafficHook.lua` (and the copy in `internal/hookdeploy`) | listener, client, receive buffer, `cmdQueue`, `trackedGroups`, `helpersInstalled`, `theatre` | `poll` every half second (accept, read lines, run commands within two budgets); the mission callbacks |
| AIS client, one | `internal/ais/client.go` | `running`, `stopCh`, `conn`, `boxes`, `connected` | `Start`, `Stop`, `Restart`; `loop`, `connect`, `readLoop` |
| Manager | `internal/servermgr/manager.go` | `instances`, the debounce timer | `StartAll`, `StopAll`, `AddServer`, `RemoveServer`, `RefreshAIS`, the fan-out of updates |
| Configuration | `internal/config/config.go` | `Servers` (a slice), the AIS key, `config.toml` | `Load`, `Save`, `AddServer`, `RemoveServer`, `UpdateServer`, `NextFreePort`, `UniqueSlug` |
| Web server | `internal/web/server.go` | none of its own | the requests of the dashboard |
| Ship cache, one | `internal/shipcache/cache.go` | names, types and sizes by MMSI; `dirty`; `shipcache.json` | `Lookup`, `Update`, `save` every 30 s, `Stop` |
| Models | `coordinator/shipmatch.go` | tables; the models a hook has reported | `dcsUnitType`, `setAvailableModels` |
| Hook deployment | `internal/hookdeploy/deployer.go`, called from the manager | the hook file in each Saved Games folder; `HookDeployed` of each instance | `Deploy`, `Remove`, `IsDeployed`; `DeployAllHooks` at each start |
| Updater | `internal/updater/updater.go` | the installed exe, staging folders, a batch script | `CheckLatest`, `Apply` |
| Geography | `internal/geo` | tables | pure functions |
| `main`, dashboard | the rest | browser state | I/O |

How they interact:

- aisstream.io -> AIS client -> `Manager`'s fan-out (under the manager's read
  lock) -> each coordinator's `OnAISUpdate`.
- Coordinator -> `SendBatch` / `Send` -> TCP -> the hook's buffer, then its
  queue, then DCS.
- The hook -> theatre, models, reject and error messages -> the connector's
  `readLoop` -> `OnHookMessage`.  A new theatre -> `scheduleRefreshAIS` -> the AIS
  client is restarted with new boxes.
- Position reports and static data -> the client's dimensions -> each coordinator's
  table <-> the ship cache, which all coordinators share, <-> its file.  The hook's
  report of its models -> the coordinator's choice of a model for each ship.
- Dashboard -> web handlers -> configuration, manager and coordinators, one
  goroutine per request.
- Web handler -> updater -> batch script -> a new program, whose start deploys the
  hooks of every configured server.

What is hard: the tick keeps pointers into the table while it is unlocked; three
locks are taken one after the other; commands written by different goroutines
meet in one connection; the hook defers commands from poll to poll; a connection
may end with or without the mission ending; the AIS client is restarted while
older loops are still about; settings are reached through pointers into a slice;
a vessel's type, its size and its model are learned at different times and
remembered in four places; the process may end at any time and come back from its
files, which are written in place, as another version of itself.  `PROJECT.json`
lists these hazards line by line with the properties that would show them going
wrong.  The repository has no Go tests.

## 2. The modules

| Module | Models | Runs, proofs |
|---|---|---|
| `Fleet` | the abstract promise of a coordinator: vessels are seen, admitted within a limit, recalled, dropped | refined by `Coordinator`, as `CoordinatorProofs` shows |
| `Coordinator` | `coordinator.go`, every critical section one action | `coordinator`, `live`; `CoordinatorProofs` |
| `Ledger` | `Coordinator` together with what the commands written so far ask DCS to hold | `ledger`, `disable`; the end of `CoordinatorProofs` |
| `Hook` | the Lua hook | `hook`; `HookProofs` |
| `DcsLink` | `dcscomm.Server` | `link`; `DcsLinkProofs` |
| `AisClient` | `ais.Client` and `Manager.RefreshAIS` | `ais`; `AisClientProofs` |
| `Registry` | the configured servers, their instances and the file | `registry`, `alias`; `RegistryProofs` |
| `ConfigFile` | the forms of `config.toml`, their migrations, and saves that fail | `config`; the end of `RegistryProofs` |
| `ShipCache` | the ship cache and its file, step by step | in `Classify`; `ShipCacheProofs` |
| `ShipModels` | the tables and the choice of a DCS model, as operators | in `Classify`; `ClassifyProofs` |
| `ShipMatch` | what the tables promise, as constant formulas | `classify` |
| `Classify` | feed, cache, models and coordinators composed, for one vessel | `classify`; `ClassifyProofs` |
| `HookFiles` | the deployed hook files, and every caller of the deployer | in `Install`; `InstallProofs` |
| `Updater` | the self-update and its script, line by line | in `Install` |
| `Install` | `Updater` and `HookFiles` composed: what starts, deploys | `install`; `InstallProofs` |

The `...MC` modules only name model values, symmetries and views.

Each module has operators with an underscore in their name, called slips: a
definition as a plausible mistake would leave it (a dropped guard, a wrong order,
an off-by-one), before the definition it stands beside.  Nothing uses them.  Put in
the place of the definition, each makes TLC find one property violated
(`mutants` in `PROJECT.json`), which is how we know that the property would
notice.

### Coordinator

Variables are the fields of `Coordinator` and the local variables of its
goroutines that live from one critical section to the next.  `ships` maps every
MMSI to a record; one that is not in the Go map is `Untracked`.  `held` is the set
of vessels whose map entry the tick still points at: `disableAll` makes a new map
and a reject deletes an entry, after which the commit writes to a record nobody
sees (`Committed`).  `OnAISUpdate` is three actions, one for each lock it takes
(`AisGate`, `AisPlace`, `AisApply`); `tick` is `TickRead`, `TickPlan`, `TickSend` or
`TickSendFails`, and `TickCommit`; a handler sets the flags, writes its clear and
then empties or resets the table (`req`).  One AIS update is in flight at a time, as
in the fan-out, which one goroutine runs.  (Two loops of the AIS client may run it
together for a while, see `AisClient`; that would put two updates in flight.)

Abstractions: a fix is a position with a heading, and two fixes are farther apart
than 200 m or 5 degrees; speeds are in half knots, so that the thresholds 0.5 and
1 knot are 1 and 2; time is three flags, which may change at any moment
(`fresh`, `cooling`, and the ticker); a name is a value, and a group name the pair
of a name and an MMSI; filters, categories and DCS models decide nothing about the
life of a ship beyond whether its updates are accepted, and are left out.
`OnHookMessage` is driven by any message at any time.

### Ledger

`standing` is the set of groups DCS would hold if it did what the commands written
so far say, in their order: removals, spawns, updates.  The hook's own deferral is
left to `Hook`.  `Faults` names the circumstances added to a calm schedule.  Without
any, table and ledger agree between ticks (`TableMatchesDcs`).  Each of them alone
breaks that:

| Fault | what happens | TableMatchesDcs | OneGroupEach | DisabledIsClear |
|---|---|---|---|---|
| `overlap` | a handler switches off while a tick is at work | broken | broken | broken (run `disable`) |
| `link` | the connection is lost while the mission goes on | broken | broken | broken |
| `rejoin` | the hook's theatre message falls between plan and commit | broken | broken | holds |
| `reject` | a rejection falls between plan and commit | broken | broken | holds |

The table was made with TLC, one run for each fault with the other settings of
`LedgerMC.cfg`.  Under `link` one half remains: every ship the table counts as spawned stands
(`SpawnedAreSeen` in section 4).  Nothing in the code claims agreement under these faults, except for
the comment on `disableAll`, which is a finding.

### Hook

Lua runs one callback at a time, so a poll is a sequence of steps, one per queued
command.  Lines arrive between polls only, since a poll reads once, at its
start.  `Outcomes` gives the states a command may leave behind: every call into DCS
may fail, every spawn may be on land.  DCS is external: a set of groups and static
objects, from which ships may vanish by themselves (`Sink`).  A message the hook
cannot send disconnects it, in the middle of a poll too.  Frames are allowed at any
time, also when no mission runs, which is more than DCS does.  `handleMove` is
reached only as the fallback of a reroute: the program never writes a move.  Lines
that were queued before a connection ended are part of what a new one finds.

### DcsLink

A connection is a name, `open` on the program's side, `live` on the hook's.  Steps
are what happens between two points where another goroutine can run: each access
to `s.conn` under its lock, each change of the flag, each deadline.  A name may be
used again once nobody refers to it.  `ReadGivesUp` is the scanner's limit of 64 KB
on a line.

### AisClient

`loop` looks at `c.stopCh` without a lock, so it sees the channel of the last
`Start`, not its own; the model lets it see the channel of now at each look.  (By the
Go memory model this is a data race; a loop that sees an older value behaves as if
it had looked a little earlier.)  A socket nobody refers to is collected.  `RefreshAIS`
is three steps: the boxes are computed, the client is stopped, and started.

### Registry

`heap` holds the arrays behind the slice `cfg.Servers`: `append` writes into the array
if it has room and moves to a larger one otherwise, removal moves the later entries
down.  A pointer is an array and an index, and stays where it is.  `StartAll` passes
pointers into a copy, as the code does.  Identifiers stand for slugs, `limit` for what
a PATCH or the filters change.  The API key and failures to write the file are in
`ConfigFile`, the saved-games path in `HookFiles`; the dashboard's port is left
out.  `Boot` restarts the program from the
file at any time.  `frozen` records that a toggle has panicked with the read lock
held, after which no writer proceeds.

### ConfigFile

`file` is the lines above the first `[[servers]]` and those under each such heading: for
each key that is there, a number; zero is what the decoder leaves where a line is missing.
`Order` is the order in which the encoder writes them, which says what a file that is cut
has lost.  `Load`
is one step up to its save, if it has one: no file, version 1 (`isV1Format` looks for
words in the text, as the code does), servers with the old `enabled` field, or
current.  A save is two steps, `os.WriteFile` opening the file, which empties it, and
writing; it may fail, or the program may die, at either, and leaves the first lines and
part of the next (`Cut`).  A part of a line does not parse, and the next start gives up;
whole lines do, and are loaded.  `meant` remembers what the file was last made to say.
Names, paths, the dashboard's port and the two time settings behave as the ones that
are modelled and are left out.

### Classify, ShipCache, ShipModels

One vessel is followed, since vessels share no metadata.  `dims` is what the AIS client
has learned from static data; `update` is one call of the fan-out, with the servers it
still has to visit; `past` is the server that has let it through its filters, read under
one lock, and will enter it under the next.  `entry` is the vessel in each table:
only the states "none", "pending" and "spawned" of its life are kept, since `Coordinator`
has the rest.  The cache is an instance of `ShipCache`, whose steps are among the steps of
`Classify` and whose end is the end of the whole program: `data`, `dirty` and the file,
with `save` cut at every point where another goroutine or the end of the process can
come between.  `SaveWrites` may leave a torn file when two savers write at once.

`ShipModels` is the code's choice: `Brackets` for each category, the bracket with the
highest bound a length reaches, and `pick`, whose random choice is a set.  `raced` and
`told` are for the properties: what DCS was last told, and whether the model was chosen
anew while the order was out.

### Install, HookFiles, Updater

`HookFiles` keeps each folder's file as a kind (none, foreign, managed, cut), a port and a
version; the hash in the first line is a function of the last two.  Requests are a small
number of goroutines, each at the step it has reached; what `RemoveServer` and
`RefreshHookStatus` read under a lock and use after it are steps of their own.  The user
may copy a hook there by hand or delete it; `disturbed` records the folders where he
has, where a write has failed, or which two servers share, since nothing is promised of
those.

`Updater` keeps the step of each `Apply`, the one script file they all write, and the line
each launched script is at.  `cmd.exe` reads a line from the file as it then is
(`Reads`), and gives up when there is none (`Breaks`).  The pauses in the script are not
modelled, so the user may start or close the program between any two lines: `busy`
records a copy that found the exe in use.  `crossed` records that one update was asked for
while another was in hand.

`Install` joins them by what `main` does: whichever step brings the program up, by hand
or by the script, is also the step that deploys the hooks, as the version that starts.

## 3. The runs

| Run | Instance | What it shows |
|---|---|---|
| `coordinator` | 2 vessels, 2 names, 1 fix, caps 1 and 2, 1 handler | what a tick plans fits the table at its commit whatever came between; the cap holds; ships leave for a reason; `Coordinator` implements `Fleet` |
| `live` | 1 vessel, 2 names, 2 fixes, speeds 0 and 1 knot | table and orders agree on group names and, under fairness, ships are spawned, followed, converted and forgotten |
| `ledger` | 2 vessels, 2 names, 2 fixes, cap 1, 1 handler, no faults | table and DCS agree between ticks; never two groups of one vessel |
| `disable` | 1 vessel, overlap | violated: ships stay in DCS after tracking is switched off |
| `hook` | 2 groups; spawns of static objects, reroutes and clears; chunks and budgets of 1, 2 lines a poll, a buffer of 3; 4 commands, failures | nothing is lost, reordered, starved, or leaks over a clear or a mission |
| `link` | 1 writer, 2 connections | the published connection is read and flagged, nobody withdraws another's, the loop reconnects, a send returns |
| `ais` | 1 theatre, 3 sockets, 2 starts, 1 refresh at a time | a running client has a loop, the boxes wanted, and ends when stopped |
| `registry` | 2 servers, 3 ports, 2 requests at a time, 5 in all | servers distinct, file and memory agree, flags agree, every configured server runs |
| `alias` | 3 servers, 1 request at a time, 4 in all | violated: a coordinator reads another server's settings |
| `classify` | 1 server, a known and an unknown type, 2 lengths and none, a base-game installation, 2 filter settings, a disk that may fail | what is learned of a vessel is not lost between feed, cache, file and table, and reaches the disk; the model fits what is known, and is the one DCS was told |
| `install` | 2 servers, 1 folder, 1 request at a time, 2 updates, a disk that may fail | a script installs and the new program comes up with its hooks in place; "deployed" is true; no foreign file is deleted |
| `config` | a file of each of 4 forms, 2 servers, 2 requests | the program starts with what the file was last made to say; a cut file switches nothing on; the file of a running program is current |

Why the bounds are enough to be interesting: two vessels and cap 1 let ships
compete for a place; two names let a vessel be renamed between plan and commit, and
two fixes let it drift; one handler beside the tick and the reader gives all
overlaps of the three kinds of goroutine.  With budgets and chunks of one,
`hook` defers, splits and overflows with four commands, and two of them may be
written before and two after a clear, a reconnection or a mission.  Two
connections for one writer are all that can be referred to at once besides one
being dialed.  Two starts are what it takes for an old loop to meet a new one, three
sockets one more than the loops and the client can hold otherwise.  In `classify` the two
lengths lie in two brackets of every category, so that a late length always changes the
choice, and the installation lacks some of the preferred models; the one server shares
the cache with itself from one run of the program to the next.  In `install` two servers
for one folder are what it takes to share it, to hand it on, and to find the other's
hook there; two updates are one that fails or is cut off anywhere and one after it.
Updates that cross are followed only while no server is configured (`CrossedAlone`), since
no property is asked of them.  The two differ in name only, so one order of asking stands for
both (`InTurn`).  Two requests in `config` leave a save broken off, with a
start and another save behind it, for every form of the file.

`MaxSent`, `MaxStarts`, `MaxAsked`, `MaxServers`, `MaxPort`, `MaxVersion`, `MaxEntries` and
`MaxChanges` are the only
bounds on counters; a run that meets one simply makes no further request.  Deadlock is not
checked where bounded inputs run out, or where everything may have stopped.

Several properties are conjunctions: `ConnectionIsTracked` is the types, `PublishedIsRead`
and `ReadingIsFlagged` of `DcsLink`; `GroupsAreKnown` is `SpawnedIffGrouped` and
`UpdatesNameTheirShip`; `NothingIsLost`, `OneGroupEach`, `RunningHasLoop`,
`ServersAreDistinct`, `FlagIsEarned`, `ScriptInstalls` and `FileIsCurrent` include the types
of their modules; `KnownStaysKnown` and `ReachesDisk` are of `Classify` and of the cache it
instantiates.

`VIEW` (coordinator, ledger, registry) leaves out what no later step and no property
reads: where a pending ship was last put and whether it was static, settings a tick
has done with, array cells no pointer leads to.  `SYMMETRY` is over vessels, names,
handlers and requests, in safety runs only.

### Fairness

- `live`: weak fairness of the tick and of each handler's next step.  The ticker
  fires for as long as the program runs, and between two critical sections a
  goroutine waits only for a lock held briefly or for a write that has a deadline.
  Handlers are left out of this run: each switches something off, which ends
  every obligation.  Every liveness property gives way when the connection goes
  down or a flag is switched off; nothing is assumed of AIS, the hook or the user.
- `hook`: weak fairness of poll, which DCS calls on every frame.
- `link`: weak fairness of the loop, of `Stop` and of the sends; a write to a hook that
  does not read never ends by itself, only by its deadline.
- `ais`: weak fairness of loops and refreshes; strong fairness of dialing, since the
  service, dialed again and again, answers in the end.  Nobody need send a message.
- `classify`: weak fairness of the cache's ticker (a save begins, a finished one clears
  `dirty`); strong fairness of opening and writing the file, since a disk that is tried
  every 30 s takes it in the end.  `ReachesDisk` gives way when the program ends.
- `install`: weak fairness of a launched script's next line and of the exit that follows
  the launch (`os.Exit` half a second later); nothing is assumed of the user, of the
  download or of requests.

### Results beside the runs

Checked with other constants or properties, and not kept as runs.  Each that is violated
contradicts a sentence of the source and is in the findings of `PROJECT.json`.

- `SendReturns` with two writers is violated: one clears the deadline the other
  waits under.  The safety properties of `DcsLink` were also checked with two writers
  and three connections, and are proved for any number.
- That `Start` returns after `Stop` (`server.go:58`) is violated: `Stop` between the
  second check and the publication finds nothing to close.
- `RefreshMatches` with two refreshers is violated: the older boxes may be started
  last.
- `Hook.ClearedIsDestroyed` (with 2 groups, 3 commands) is violated: the continuations of
  a chunked clear are put into the queue that poll overwrites at its end, so that only the
  first chunk is destroyed (`AISTrafficHook.lua:577`, `694`).
- `AisClient.ReadsWhatIsWanted` (2 theatres) is violated: a loop that is connecting during
  a restart goes on reading the old subscription beside the new loop (`client.go:77`).
- That ships are ordered only inside the box of the theatre is violated: the box is asked
  when an update arrives, and ships of the theatre before are ordered in the next
  (`coordinator.go:264`).
- That the cache's `Stop` leaves nothing unsaved is violated: what is learned between the
  copy and the clearing of `dirty` counts as saved (`cache.go:137`).  `ReachesDisk` excepts
  exactly these updates.
- `classify` was also checked with two servers and fewer lengths: what one learns of a
  vessel classifies it on the other.  That only installed models are ordered is violated: a
  ship entered before the hook's report keeps a model DCS lacks (`coordinator.go:334`).
- That a vessel gets the closest-sized model of its category is violated for cargo and
  passenger ships from 83 to 140 m, and for other ones from 181 to 217 m
  (`shipmatch.go:141`); `CutHalfWay` states where it holds.
- That `HookDeployed` is always the status of the folder is violated after `AddServer`,
  which looks before it deploys (`manager.go:163`); `FlagIsEarned` is the direction that
  holds.  Two servers may come to share a folder (`config.go:435`), and a removed server
  leaves its hook in a folder it had before (`manager.go:191`).
- `ScriptInstalls` and `HooksFollow` are violated for two updates at once, which share one
  script file (`updater.go:135`).
- That the program starts with tracking off (`README.md:49`) is violated: the flags are
  saved and loaded (`config.go:94`).

## 4. The proofs

`CoordinatorProofs` proves, for any finite set of vessels, any names, fixes,
theatres, caps and any number of handlers, the invariants and the action properties of
`Coordinator`.  The assumptions are those of the module: `MMSI` is finite, the "no"
values are none of the others, caps and speeds are natural numbers, and the
theatre unknown at first has an empty box.

The inductive invariant is

    IInv == TypeOK /\ SpawnedIffGrouped /\ BatchFitsTable /\ UpdatesNameTheirShip

`GroupsKnown` joins two of its parts into the property the run checks.

`BatchFitsTable` cannot be proved by itself.  That a batch of spawns stays under the cap
at its commit needs: at the plan, the ships counted as leaving are those that do
leave, which is so only if every spawned ship has a group name
(`SpawnedIffGrouped`, in `ChosenFit`); afterwards, that no step but the commit adds a
spawned ship (`BatchStaysFit`), and that a ship that is wiped or rejected is no
longer held (`ForgetStep`).  `UpdatesNameTheirShip` in turn needs that the ships
about to be committed as spawned are still pending.  There is one lemma per group
of actions, and `Inductive` joins them.  `CapHolds`, `GroupsAreFrozen` and
`DropsAreJustified` are action properties that follow from `IInv` step by step.

Its second part proves the refinement of `Fleet`: under the mapping of states to phases and of the
tick's cap to the limit, initial states map to initial states and each step to a step
of `Fleet` or a stutter.  The commit is the interesting one: it is an `Admit`, by
`BatchFitsTable`.

Its third part proves of `Ledger`, where the environment adds no fault (`Faults = {}`, the `ledger` run), that
table and DCS agree, for any vessels, names and handlers.  Within a tick they do not,
and

    LedgerInv == IInv /\ OneGroupEach /\ Agreement /\ DownIsEmpty
                 /\ OneAtWork /\ BatchStands /\ Disabled

says how far apart they are: between plan and write by the removals, between write and
commit by what the commit will do (`Agreement`).  `BatchAgrees` is the heart: written over
what stands, the batch gives what the commit will make of the table, because
removals name ships that have gone, spawns ships that are not there, and updates ships
under the group, and of the kind, they have (`BatchStands`).  The last needs that nobody
resets or rejects ships in between, which is what the faults would do; the table in section 2 and the
`disable` run say what they break.  `TableIsRight`, `OneGroup` and `DisabledMeansClear` follow.

Of the faults, a lost connection is the one that happens without anybody's doing, and the
last part is about `Ledger` with that fault alone (`Faults \subseteq {"link"}`): a batch or a clear
may be written in part, all that stands may stay when the connection goes, and groups under
an old name may then stand for ever.  Half of the agreement remains, `Seen`: what the table
counts as spawned between two ticks stands in DCS, under that name and as such an object
(`SpawnedAreSeen`).  Its invariant

    LinkInv == IInv /\ LedgerTypeOK /\ OneAtWork /\ BatchStands /\ Once(standing) /\ Shown

replaces `Agreement` by one direction of it (`Shown`), and `OneGroupEach` by "a vessel's
name is there once" (`Once`), which the parts of a batch keep too (`CutOnce`).  It says nothing while
the connection is down, which is what makes a batch that was cut short harmless: the next
connection resets all spawned ships before anything is planned.  TLC finds `LinkInv`'s
new parts kept for one vessel with two names, and `Seen` broken by each of the
other three faults.

`DcsLinkProofs` proves for any number of writers, with the inductive invariant

    LinkInv == LinkTypeOK /\ PublishedIsRead /\ ReadingIsFlagged
               /\ LoopHasOwn /\ WriterHasOwn /\ ForgottenIsClosed

that the published connection is the one that is read, that the flag is up while it is
read, and that nobody withdraws an open connection that is another's
(`ForgottenIsClosed` says that a send that withdraws a connection has closed it
before).

`HookProofs` proves order, barriers and that nothing is lost for any groups, budgets,
line cap, buffer and number of commands.  The invariant for the order is

    HookInv == Shape /\ InOrder /\ AllTimely /\ KeptIsOverBudget

A command passes through five sequences: written to a connection that waits, arrived,
read, being worked on, kept for the next poll.  In each the numbers rise and each is
ahead of those behind it (`InOrder`), and nothing in them is too late for what has run
(`AllTimely`).  The last conjunct is what the second loop of poll needs: a kept command
may be overtaken, but only by one of the other kind, since its own has no budget left.
With the types of the hook's tables (`HookTyped`) and "every command since the
connection was made is in one of the sequences or settled" (`NoneLost`) it gives
`NothingIsLost`.  `TrackedStays` rests on one fact about each handler (`Careful`): it leaves
every group but its own alone, and tracks its own only if it placed it or left it where it
was.  It is closed under composition, which is what the handlers that call others need.

`AisClientProofs` proves, for any number of starts and refreshes,

    ClientInv == AisTypeOK /\ HoldsNone /\ ChannelsInOrder /\ HasLoop

Channels are numbered by starts and closed in that order, so that the channel in use is
never one that an earlier `Stop` has closed, and the loop of the last start cannot have seen
its end.  The assumption of the module is that there are more sockets than starts:
`FreeSocket` shows by counting that a dialling loop always finds one, which is where the
model's finite set of sockets could have hidden a step.  `RestartsMatch` assumes one
refresher, and section 3 says what happens with two.

`ShipCacheProofs` describes the loop's save at each of its steps (`LoopSaves`): until
someone stops the program the loop is the only saver.  `CopiesAreOld` says that neither the
file nor a copy knows what the cache does not.  From both follow that what the file
lacks is flagged or was learned during a save (`UnsavedFlagged`), and that neither cache
nor file forgets (`CacheLearns`); `classify` checks these on one vessel, through
the properties that rest on them.

`InstallProofs` proves `ScriptInstalls` for any number of updates that do not cross: at
most one is in hand (`OneInHand`), the place of an Apply decides what lies in its staging
folder and in the script file (`ApplyStands`, `OwnScript`), and each line the script has
passed has had its effect, or a file was in use (`Progress`).  The module's assumption is
that the new version is not the old one (`InstallAssumption`).

Its second half is about the hooks.  For any number of requests at one time,

    FilesInv == FilesTyped /\ SharingKnown /\ CutKnown /\ FolderNamed /\ ReadBefore

says that a folder two servers share or that holds a file cut short is known to be
disturbed, and that a file a request is about to delete was the program's own when it was
read.  From it follows that no foreign file is deleted that was not copied there in between
(`ForeignFilesKept`).  That a server shown as deployed has the hook needs that
no two requests are for the same server (`OneEach`); any number may be served at one
time otherwise, and servers may share folders.  Then

    HooksInv == FilesInv /\ Served

where `Served` says, for each place of each request, what its server has in its folder
(`RequestStands`), and that every flag is earned except those of servers being changed
(`Earned`).  It gives `FlagsEarnedTogether` for the moments when no request is being served, and
`IdleFlagsAreEarned` for all moments, of the servers that no request is for; `FlagsAreEarned` is the
case of the run, one request at a time.  The theorems assume `OneEach` of the behaviour, not of the
constants: nothing in the code keeps two requests from one server.  With two, `FlagIsEarned`
is false: TLC shows a server that is removed and added again, without a folder, while its
hook is being written, and is then shown as deployed.  Nothing in the source claims
otherwise.

`RegistryProofs` proves the four invariants of `Registry` for any number of requests at one
time.  The inductive invariant is

    IInv == Typed /\ FileSound /\ Down /\ SliceSound /\ PointersLead
            /\ SavedOrSaving /\ RunsOrWill /\ Apart

Pointers are the difficulty: a slice that grows moves to a new array and leaves the old one
to whoever points there, and a removal moves entries under the pointers, so most pointers
can come to lead to another server's settings (the `alias` run).  `PointersLead` says only
that they lead to settings.  That the flags of a server which has run since the start
nevertheless agree with its entry is `Apart`: nothing else points to the copy its instance
was given, and its entry stands in front of whatever others point to (`InFront`), since
entries only move down; it is delisted only when it no longer runs (`OldApart`).
`SavedOrSaving` and `RunsOrWill` name the request that still owes the save, or the start, and
give `FileUpToDate` and `AllConfiguredRun` once none is being served.  The assumptions are
that the program starts from a file it has written (`SavedAssumption`) and that there is a
limit to set.  TLC found `IInv` kept on the instances of both `registry` and `alias`.

The last part of `RegistryProofs` is about `ConfigFile`, which it extends as well: the names of
the two modules are apart.  What an old file means is a constant of `ConfigFile`, since the run
writes it out by hand; the one hypothesis of `StartsMeant` is that the files have the meaning
`Load` gives them (`Understood`), which `config` checks.
A file that was cut is `Part` of what was being written: the first servers, and
of each some of its settings.  `PartLoads` says that such a file has nothing to migrate and
is read as some of what was written and otherwise as zeroes, and `WrittenIsRead` that one that
is whole is read as just that.  With them,

    FileInv == FileTyped /\ Parses /\ Opened /\ CutOff /\ InStep

is kept by every request and by a failure or the program's end at each point of a save:
whatever lies there can be started from or does not parse (`Parses`), a file that is not
whole is part of what it was to hold (`CutOff`), and the file of a program that runs means
what it runs with (`InStep`).  It gives `FileStaysCurrent` for any number of servers and
requests and any files of earlier versions (`OldFile`), and, with "what is read of a whole
file is what it was last made to say" (`Meant`), `StartsMeant`.  `MigrationIsRepeatable`
says of every old file that what its migration writes needs none.  TLC found `FileInv` and
`Meant` kept on the instance of `config`.

`ClassifyProofs` begins with the tables.  Each bracket offers a model, each category has a
bracket for every length, and so `pick` has something to choose from; `ModelIsInstalled`
says, for any length and any report of the hook, that what it chooses fits, and is one DCS
lacks only if DCS has nothing that fits.  (`ShipMatch` evaluates finitely many lengths and
installations, and states besides what is not proved: `BiggerIsNotSmaller` and `CutHalfWay`.)
The invariant of `Classify` is

    ClassifyInv == Proved!CacheInv /\ MetaKept /\ FeedInv

where `Proved` is `ShipCacheProofs` instantiated for one vessel with the two fields type and
length: the cache's theorems are used, not proved again.  `MetaKept` says that what cache,
file and copies hold of the vessel is a type and a length, `FeedInv` what the entry of each server says
of its model, of an order that is out and of what DCS was told (`EntryStands`).  It gives
the category, the fitting model, the agreement of table and DCS, and, with `CacheLearns`,
that what is known stays known (`KnownStays`), for any types, lengths, installations and
number of servers.

Only model-checked:

- the liveness properties of `live`, `hook`, `link`, `ais`, `classify` and `install`, which
  the proof system does not reach;
- that the migrations read each old form as it was meant: the theorems about `ConfigFile`
  take what they make of it for its meaning, and `config` writes the meaning out by hand;
- `ShipMatch`'s two formulas named above.

## 5. Findings

Two runs end in a violation, each of a sentence in the source: `disable` and `alias`.
`PROJECT.json` quotes these sentences and lists further disagreements met while
modelling, with the results of section 3.

## 6. What is not modelled

- `internal/geo`: floating-point arithmetic; boxes are sets of fixes.
- The dashboard's own state: it polls and displays, and what it can ask for is the set of
  requests of `Registry`, `HookFiles`, `ConfigFile` and `Coordinator`, in any order.
- Listing, status, folder browsing, the check for a release, the shortcut, the single
  instance: they read, or are I/O without interleavings of their own.
- JSON and TOML as text: messages and files are what they say, except that a file may be cut
  short, and that `isV1Format` looks for words.
- What the Go runtime and TCP promise (locks are fair enough, bytes arrive in order
  or not at all) is assumed.

## 7. Plan

1. `System`: `Coordinator`, the connection and `Hook` composed, so that rejections and
   theatre messages come from the hook's own queue instead of from anywhere; an
   abstract specification of "what is written is what DCS is asked for", of which
   `Ledger` is the other side.
2. After a lost connection groups under an old name may stay: which command, if any,
   repairs it.  Under the other faults neither half of `TableMatchesDcs` remains; what
   bounds the difference, and how many ticks it lasts.
