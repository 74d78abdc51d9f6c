------------------------------ MODULE Registry ------------------------------
(***************************************************************************)
(* The configured servers and the ones that run: config.Config             *)
(* (internal/config/config.go), servermgr.Manager (manager.go), and the    *)
(* requests of the dashboard that change them (internal/web/server.go).    *)
(* Each request is a goroutine; cfg's lock and the manager's are held for  *)
(* parts of it, and one is never waited for while the other is held by a   *)
(* goroutine waiting in turn, so a step below is a critical section.       *)
(*                                                                         *)
(* A coordinator keeps a POINTER to its settings.  Servers is a Go slice,  *)
(* so the arrays behind it are modelled: appending may move the settings   *)
(* to a larger array, removing moves them within it, and a pointer stays   *)
(* where it was.                                                           *)
(*                                                                         *)
(* Identifiers are numbers, a name's slug and its numbered variants; limit *)
(* stands for whatever a PATCH or the filters change.  The process may end *)
(* at any time and come back from the file.                                *)
(*                                                                         *)
(* An operator with an underscore in its name is a slip: its namesake as a *)
(* plausible mistake would leave it.                                       *)
(***************************************************************************)
EXTENDS Naturals, Sequences, FiniteSets

CONSTANTS
    Requests,      \* goroutines that may serve the dashboard at one time
    MaxServers,    \* bound on the number of servers
    MaxPort,       \* the first free port is 1, the last 65535
    MaxAsked,      \* bound on the requests of a run
    Limits,        \* values of limit
    Saved          \* what the file may hold at first

Ids == 1 .. MaxServers
Ports == 1 .. MaxPort

Settings == [id : Ids, port : Ports, tracking : BOOLEAN, spawn : BOOLEAN, limit : Limits]

Distinct(file) ==
    \A i, j \in DOMAIN file :
        i # j => file[i].id # file[j].id /\ file[i].port # file[j].port

ASSUME RegistryAssumption ==
    /\ {MaxServers, MaxPort, MaxAsked} \subseteq Nat \ {0}
    /\ Limits # {}

\* The program finds a file it has written itself, or none; what a user may have
\* edited it into is not followed.
ASSUME SavedAssumption ==
    \A file \in Saved :
        /\ file \in Seq(Settings) /\ Len(file) <= MaxServers /\ Distinct(file)
        /\ \A i \in DOMAIN file : file[i].spawn => file[i].tracking

VARIABLES
    heap,          \* arrays of settings; a pointer is <<array, index>>
    slice,         \* cfg.Servers: an array and a length
    instances,     \* m.instances: each with its coordinator's serverCfg
    private,       \* those StartAll has started
    disk,          \* config.toml
    requests,      \* for each request, what it is and how far it has come
    asked,         \* how many requests there have been
    frozen         \* a request has ended holding cfg's lock

vars == <<heap, slice, instances, private, disk, requests, asked, frozen>>

Blank == [id |-> 0]
NoPointer == <<0, 0>>

At(p) == heap[p[1]][p[2]]

Servers == SubSeq(heap[slice.arr], 1, slice.len)

ServerIDs == {Servers[i].id : i \in DOMAIN Servers}

\* ServerByID: the first entry that has the id.
Index(id) == CHOOSE i \in DOMAIN Servers :
                 /\ Servers[i].id = id
                 /\ \A j \in 1 .. (i - 1) : Servers[j].id # id

Idle == [op |-> "none", at |-> "idle"]

------------------------------------------------------------------------------
(* Load and StartAll.  The settings the instances get are copies.          *)

\* The decoder may leave room at the end of the array.
Loaded(file) ==
    /\ \E room \in 0 .. 1 :
          heap' = <<file \o [i \in 1 .. room |-> Blank], file>>
    /\ slice' = [arr |-> 1, len |-> Len(file)]
    /\ instances' = [id \in Ids |->
          IF \E i \in DOMAIN file : file[i].id = id
          THEN <<2, CHOOSE i \in DOMAIN file : file[i].id = id>>
          ELSE NoPointer]
    /\ private' = {file[i].id : i \in DOMAIN file}

Init ==
    /\ heap = <<>> /\ slice = [arr |-> 0, len |-> 0]
    /\ instances = [id \in Ids |-> NoPointer] /\ private = {}
    /\ disk \in Saved
    /\ requests = [q \in Requests |-> Idle]
    /\ asked = 0
    /\ frozen = FALSE

Up == heap # <<>>

\* The program starts, for the first time or again.
Boot ==
    /\ Loaded(disk)
    /\ requests' = [q \in Requests |-> Idle]
    /\ frozen' = FALSE
    /\ UNCHANGED <<disk, asked>>

------------------------------------------------------------------------------
Goes(q, where) == requests' = [requests EXCEPT ![q].at = where]
Ends(q) == requests' = [requests EXCEPT ![q] = Idle]
Is(q, op, where) == Up /\ requests[q].op = op /\ requests[q].at = where

Asked(q, r) ==
    /\ Up /\ requests[q] = Idle
    /\ asked < MaxAsked /\ asked' = asked + 1
    /\ requests' = [requests EXCEPT ![q] = r]

(* handleAddServer: the id and the port are chosen under the read lock.    *)

NextFreePort ==
    LET taken == {0} \cup {Servers[i].port : i \in DOMAIN Servers}
    IN  (CHOOSE p \in taken : \A o \in taken : o <= p) + 1

UniqueSlug ==
    CHOOSE id \in 1 .. (slice.len + 1) :
        id \notin ServerIDs /\ \A o \in 1 .. (id - 1) : o \in ServerIDs

Add(q) ==
    /\ slice.len < MaxServers
    /\ Asked(q, [op |-> "add", at |-> "append", id |-> UniqueSlug, port |-> NextFreePort])
    /\ UNCHANGED <<heap, slice, instances, private, disk, frozen>>

NewServer(r) ==
    [id |-> r.id, port |-> r.port, tracking |-> TRUE, spawn |-> TRUE,
     limit |-> CHOOSE l \in Limits : TRUE]

Rejected(r) ==
    \/ r.id \in ServerIDs
    \/ r.port \notin Ports
    \/ \E i \in DOMAIN Servers : Servers[i].port = r.port

\* Slips: what was unique when it was chosen is taken to be so still; the range
\* of the port is not looked at.
Accepted_AnyPort(r) ==
    r.id \notin ServerIDs /\ \A i \in DOMAIN Servers : Servers[i].port # r.port
Accepted_Unchecked(r) == r.port \in Ports

Accepted(r) == ~Rejected(r)

Extended(s) ==
    LET a == heap[slice.arr]
        larger == [i \in 1 .. (IF Len(a) = 0 THEN 1 ELSE 2 * Len(a)) |->
                      IF i <= Len(a) THEN a[i] ELSE IF i = Len(a) + 1 THEN s ELSE Blank]
    IN  IF slice.len < Len(a)
        THEN /\ heap' = [heap EXCEPT ![slice.arr][slice.len + 1] = s]
             /\ slice' = [slice EXCEPT !.len = @ + 1]
        ELSE /\ heap' = Append(heap, larger)
             /\ slice' = [arr |-> Len(heap) + 1, len |-> slice.len + 1]

\* Slip: the settings as they were before the change.
Written_Before == Servers

Written == Servers'

\* Config.AddServer: checked, appended and saved under the lock.
AddAppends(q) ==
    /\ Is(q, "add", "append") /\ ~frozen
    /\ \/ /\ Accepted(requests[q])
          /\ Extended(NewServer(requests[q]))
          /\ disk' = Written
          /\ requests' = [requests EXCEPT ![q] =
                [op |-> "add", at |-> "start", id |-> @.id,
                 pointer |-> <<slice'.arr, slice'.len>>]]
       \/ /\ ~Accepted(requests[q])
          /\ Ends(q)
          /\ UNCHANGED <<heap, slice, disk>>
    /\ UNCHANGED <<instances, private, frozen, asked>>

\* startInstance: the check, and what is done for it, are apart.
AddStarts(q) ==
    /\ Is(q, "add", "start")
    /\ IF instances[requests[q].id] # NoPointer
       THEN Ends(q)
       ELSE Goes(q, "register")
    /\ UNCHANGED <<heap, slice, instances, private, disk, frozen, asked>>

AddRegisters(q) ==
    /\ Is(q, "add", "register")
    /\ instances' = [instances EXCEPT ![requests[q].id] = requests[q].pointer]
    /\ private' = private \ {requests[q].id}
    /\ Ends(q)
    /\ UNCHANGED <<heap, slice, disk, frozen, asked>>

------------------------------------------------------------------------------
(* handleDeleteServer, Manager.RemoveServer: the instance goes first, then *)
(* the entry.                                                              *)

\* Slip: the entry goes first.
Removal_Reversed == <<"delist", "stop">>

Removal == <<"stop", "delist">>

Delete(q, id) ==
    /\ Asked(q, [op |-> "remove", at |-> Removal[1], id |-> id])
    /\ UNCHANGED <<heap, slice, instances, private, disk, frozen>>

Continue(q) ==
    IF requests[q].at = Removal[2] THEN Ends(q) ELSE Goes(q, Removal[2])

RemoveStops(q) ==
    /\ Is(q, "remove", "stop")
    /\ instances' = [instances EXCEPT ![requests[q].id] = NoPointer]
    /\ Continue(q)
    /\ UNCHANGED <<heap, slice, private, disk, frozen, asked>>

\* append(Servers[:i], Servers[i+1:]...): the later ones move down, and the last
\* cell keeps what it had.
RemoveDelists(q) ==
    /\ Is(q, "remove", "delist") /\ ~frozen
    /\ IF requests[q].id \in ServerIDs
       THEN LET i == Index(requests[q].id)
            IN  /\ heap' = [heap EXCEPT ![slice.arr] =
                      [j \in DOMAIN @ |-> IF j \in i .. (slice.len - 1) THEN @[j + 1] ELSE @[j]]]
                /\ slice' = [slice EXCEPT !.len = @ - 1]
                /\ disk' = Written
       ELSE UNCHANGED <<heap, slice, disk>>
    /\ Continue(q)
    /\ UNCHANGED <<instances, private, frozen, asked>>

------------------------------------------------------------------------------
(* handleServerToggle, ToggleTracking, ToggleSpawning.                     *)

\* Slip: tracking goes off without spawning.
Toggled_Alone(s, field, on) == [s EXCEPT ![field] = on]

\* Nothing is spawned without being tracked.
Toggled(s, field, on) ==
    CASE field = "tracking" -> [s EXCEPT !.tracking = on, !.spawn = on /\ @]
      [] field = "spawn"    -> [s EXCEPT !.spawn = on, !.tracking = on \/ @]

\* Slip: the entry is forgotten.
TouchedBy_Own(id, p) == {p}

TouchedBy(id, p) ==
    {p} \cup (IF id \in ServerIDs THEN {<<slice.arr, Index(id)>>} ELSE {})

Toggle(q, id, field, on) ==
    /\ instances[id] # NoPointer
    /\ Asked(q, [op |-> "toggle", at |-> "set", id |-> id, pointer |-> instances[id],
                 field |-> field, on |-> on])
    /\ UNCHANGED <<heap, slice, instances, private, disk, frozen>>

ToggleSets(q) ==
    /\ Is(q, "toggle", "set") /\ ~frozen
    /\ LET r == requests[q]
       IN  heap' = [a \in DOMAIN heap |-> [i \in DOMAIN heap[a] |->
                       IF <<a, i>> \in TouchedBy(r.id, r.pointer)
                       THEN Toggled(heap[a][i], r.field, r.on) ELSE heap[a][i]]]
    /\ Goes(q, "save")
    /\ UNCHANGED <<slice, instances, private, disk, frozen, asked>>

\* Config.Save, in a critical section of its own.
Saves(q) ==
    /\ Up /\ requests[q].at = "save"
    /\ disk' = Servers
    /\ IF requests[q].op = "toggle" THEN Goes(q, "answer") ELSE Ends(q)
    /\ UNCHANGED <<heap, slice, instances, private, frozen, asked>>

\* The answer is read from the entry.  If it has been removed since, the handler
\* panics with the read lock held, and who wants to write waits for ever; a
\* reader may or may not still get in.
ToggleAnswers(q) ==
    /\ Is(q, "toggle", "answer")
    /\ frozen' = (frozen \/ requests[q].id \notin ServerIDs)
    /\ Ends(q)
    /\ UNCHANGED <<heap, slice, instances, private, disk, asked>>

------------------------------------------------------------------------------
(* handleUpdateServer, handleServerFilters: of the entry alone.            *)

Edit(q, id, op, limit) ==
    /\ Asked(q, [op |-> op, at |-> "set", id |-> id, limit |-> limit])
    /\ UNCHANGED <<heap, slice, instances, private, disk, frozen>>

\* A PATCH is saved under the same lock, filters after it.
EditSets(q) ==
    /\ Up /\ requests[q].op \in {"patch", "filters"} /\ requests[q].at = "set" /\ ~frozen
    /\ UNCHANGED <<slice, instances, private, frozen, asked>>
    /\ LET r == requests[q]
       IN  \/ /\ r.id \in ServerIDs
              /\ heap' = [heap EXCEPT ![slice.arr][Index(r.id)].limit = r.limit]
              /\ \/ r.op = "patch" /\ disk' = Written /\ Ends(q)
                 \/ r.op = "filters" /\ UNCHANGED disk /\ Goes(q, "save")
           \/ /\ r.id \notin ServerIDs
              /\ Ends(q)
              /\ UNCHANGED <<heap, disk>>

------------------------------------------------------------------------------
Next ==
    \/ Boot
    \/ \E q \in Requests :
          \/ Add(q) \/ AddAppends(q) \/ AddStarts(q) \/ AddRegisters(q)
          \/ RemoveStops(q) \/ RemoveDelists(q)
          \/ ToggleSets(q) \/ Saves(q) \/ ToggleAnswers(q)
          \/ EditSets(q)
          \/ \E id \in Ids :
                \/ Delete(q, id)
                \/ \E field \in {"tracking", "spawn"}, on \in BOOLEAN : Toggle(q, id, field, on)
                \/ \E op \in {"patch", "filters"}, l \in Limits : Edit(q, id, op, l)

Spec == Init /\ [][Next]_vars

------------------------------------------------------------------------------
(* Properties.                                                             *)

RegistryTypeOK ==
    /\ slice.arr \in 0 .. Len(heap) /\ slice.len \in 0 .. MaxServers
    /\ Up => \A i \in DOMAIN Servers : Servers[i] \in Settings
    /\ disk \in Seq(Settings)
    /\ \A id \in Ids : instances[id] # NoPointer => At(instances[id]) \in Settings
    /\ private \subseteq Ids /\ frozen \in BOOLEAN

\* No two servers have one id or one port, in the program or in its file, though
\* both are chosen before the lock that adds them is taken.  (AddServer)
ServersAreDistinct == RegistryTypeOK /\ (Up => Distinct(Servers) /\ Distinct(disk))

Quiet == \A q \in Requests : requests[q] = Idle

\* Once no request is being served, the file holds what the program holds: a
\* restart changes nothing.  (Save, AddServer, RemoveServer, UpdateServer)
FileIsUpToDate == (Up /\ Quiet) => disk = Servers

\* The flags a server started with the program goes by are those the dashboard
\* shows and the file keeps, though they are kept twice; and in every copy
\* "disabling tracking also disables spawning (can't spawn without data)"
\* (coordinator.go:383).  (ToggleTracking, ToggleSpawning)
FlagsAgree ==
    \A id \in Ids : instances[id] # NoPointer =>
        LET s == At(instances[id]) IN
        /\ s.spawn => s.tracking
        /\ (Up /\ id \in private \cap ServerIDs) =>
              /\ s.tracking = Servers[Index(id)].tracking
              /\ s.spawn = Servers[Index(id)].spawn

\* Every configured server runs once no request is being served: however adding
\* and removing overlap, no server is left that nothing serves.  (AddServer,
\* RemoveServer)
ConfiguredRun ==
    (Up /\ Quiet) => \A id \in ServerIDs : instances[id] # NoPointer

\* "The config pointer must point into m.cfg.Servers" (manager.go:347-348): the
\* settings a coordinator reads are those of its own server.
OwnSettings == \A id \in Ids : instances[id] # NoPointer => At(instances[id]).id = id
=============================================================================
