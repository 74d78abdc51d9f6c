------------------------------ MODULE HookFiles ------------------------------
(***************************************************************************)
(* The hook files in the DCS installations' Saved Games folders            *)
(* (internal/hookdeploy/deployer.go), and what the manager and the         *)
(* dashboard's requests do with them (servermgr/manager.go, web/server.go):*)
(* a server is added, given another folder, deployed to, removed; the      *)
(* program ends at any time and starts again, as a new version of itself   *)
(* or not; the user copies, edits and deletes the file by hand.            *)
(*                                                                         *)
(* A server's port never changes and no two servers have the same: a port  *)
(* is told by its server.  The hash in a file's first line is a function   *)
(* of the port and of the program's version.  What becomes of the other    *)
(* settings is in Registry.                                                *)
(*                                                                         *)
(* An operator with an underscore in its name is a slip: its namesake as a *)
(* plausible mistake would leave it.                                       *)
(***************************************************************************)
EXTENDS Naturals, FiniteSets

CONSTANTS
    Servers,     \* server ids
    Paths,       \* Saved Games folders
    NoPath,      \* a server without one
    Requests,    \* goroutines that may serve the dashboard at one time
    MaxVersion,  \* bound on the versions of the program
    DiskFails    \* whether a folder may be missing or a write fail

ASSUME HookFilesAssumption ==
    NoPath \notin Paths /\ MaxVersion \in Nat /\ DiskFails \in BOOLEAN

VARIABLES
    version,     \* of the program that runs
    configured,  \* cfg.Servers
    path,        \* SavedGamesPath of each
    running,     \* m.instances
    flag,        \* HookDeployed of each instance
    file,        \* each folder's Scripts/Hooks/AISTrafficHook.lua
    req,         \* the step each request is at
    disturbed,   \* for the properties: folders the user has had his hands in, a
                 \* request failed to write in, or two servers have shared,
    unwritten    \* and those the program failed to write in when it started

vars == <<version, configured, path, running, flag, file, req, disturbed, unwritten>>

\* A managed file has our marker; one that was cut short while it was written
\* has the marker too, and possibly the port.
Managed(s, v) == [kind |-> "managed", port |-> s, version |-> v]
Cut(s, v) == [kind |-> "cut", port |-> s, version |-> v]
NoFile == [kind |-> "none", port |-> NoPath, version |-> 0]
Foreign == [kind |-> "foreign", port |-> NoPath, version |-> 0]
Ours(f) == f.kind \in {"managed", "cut"}

\* Slip: the hash in the marker is not compared.
IsDeployed_AnyVersion(p, s) == p # NoPath /\ Ours(file[p]) /\ file[p].port = s

\* IsDeployed: the marker, the port and the hash in the marker.
IsDeployed(p, s) ==
    p # NoPath /\ Ours(file[p]) /\ file[p].port = s /\ file[p].version = version

\* What a failing Deploy may leave: the file as it was (no folder), or cut before
\* the port or after it.
Botched(s) == {Cut(NoPath, version), Cut(s, version)}

Sharing(c, pa) == {p \in Paths : \E s, t \in c : s # t /\ pa[s] = p /\ pa[t] = p}

Idle == [op |-> "none", at |-> "idle"]
Request ==
    {Idle} \cup
    [op : {"add", "deploy", "patch", "remove"}, id : Servers, path : Paths \cup {NoPath},
     at : {"start", "write", "flag", "check", "set", "unhook", "delete", "forget"},
     ok : BOOLEAN]

Goes(q, where) == req' = [req EXCEPT ![q].at = where]
Ends(q) == req' = [req EXCEPT ![q] = Idle]
At(q, where) == req[q].at = where
Asks(q, op, s, p, where) ==
    /\ req[q] = Idle
    /\ req' = [req EXCEPT ![q] =
           [op |-> op, id |-> s, path |-> p, at |-> where, ok |-> FALSE]]

Init ==
    /\ version = 0
    /\ configured = {} /\ running = {}
    /\ path = [s \in Servers |-> NoPath]
    /\ flag = [s \in Servers |-> FALSE]
    /\ file \in [Paths -> {NoFile, Foreign}]
    /\ req = [q \in Requests |-> Idle]
    /\ disturbed = {} /\ unwritten = {}

------------------------------------------------------------------------------
(* main: DeployAllHooks, then StartAll.                                    *)

Users(p) == {s \in configured : path[s] = p}

\* Slip: a hook that is there is taken for up to date.
Redeployed_Missing(p, v) ==
    IF Users(p) = {} \/ Ours(file[p]) THEN {file[p]} ELSE {Managed(s, v) : s \in Users(p)}

\* The server that comes last in cfg.Servers is deployed over the others.
Redeployed(p, v) ==
    IF Users(p) = {} THEN {file[p]} ELSE {Managed(s, v) : s \in Users(p)}

\* A deployment that fails is logged.
Boot(v) ==
    /\ UNCHANGED <<configured, path>>
    /\ version' = v
    /\ unwritten' \in SUBSET {p \in Paths : DiskFails /\ Users(p) # {}}
    /\ LET Left(p) == IF p \in unwritten' THEN {file[p], Cut(NoPath, v)} ELSE Redeployed(p, v)
       IN  file' \in {f \in [Paths -> UNION {Left(p) : p \in Paths}] :
                         \A p \in Paths : f[p] \in Left(p)}
    /\ running' = configured
    /\ flag' = [s \in Servers |-> s \in configured /\ IsDeployed(path[s], s)']
    /\ req' = [q \in Requests |-> Idle]
    /\ disturbed' = Sharing(configured, path)
           \cup {p \in Paths : file'[p].kind = "cut"}
           \cup {p \in disturbed : file'[p] = file[p]}

------------------------------------------------------------------------------
(* Deploy and the requests that call it.                                   *)

\* Manager.AddServer.  Config.AddServer refuses a folder that is in use.
AddServer(q, s, p) ==
    /\ s \notin configured
    /\ p = NoPath \/ Users(p) = {}
    /\ Asks(q, "add", s, p, "start")
    /\ configured' = configured \cup {s}
    /\ path' = [path EXCEPT ![s] = p]
    /\ UNCHANGED <<version, running, flag, file, disturbed, unwritten>>

\* startInstance caches whether the hook is there.
StartInstance(q) ==
    /\ At(q, "start")
    /\ running' = running \cup {req[q].id}
    /\ flag' = [flag EXCEPT ![req[q].id] = IsDeployed(path[req[q].id], req[q].id)]
    /\ IF req[q].path = NoPath THEN Ends(q) ELSE Goes(q, "write")
    /\ UNCHANGED <<version, configured, path, file, disturbed, unwritten>>

\* DeployHook reads the settings.
DeployHook(q, s) ==
    /\ s \in configured /\ path[s] # NoPath
    /\ Asks(q, "deploy", s, path[s], "write")
    /\ UNCHANGED <<version, configured, path, running, flag, file, disturbed, unwritten>>

\* Deploy: whatever is there is overwritten.
Deploy(q) ==
    /\ At(q, "write")
    /\ file' = [file EXCEPT ![req[q].path] = Managed(req[q].id, version)]
    /\ IF req[q].op = "deploy" THEN Goes(q, "flag") ELSE Ends(q)
    /\ UNCHANGED <<version, configured, path, running, flag, disturbed, unwritten>>

\* The caller logs the error, or answers with it.
DeployFails(q) ==
    /\ DiskFails
    /\ At(q, "write")
    /\ \E f \in Botched(req[q].id) \cup {file[req[q].path]} :
          file' = [file EXCEPT ![req[q].path] = f]
    /\ disturbed' = disturbed \cup {req[q].path}
    /\ Ends(q)
    /\ UNCHANGED <<version, configured, path, running, flag, unwritten>>

MarkDeployed(q) ==
    /\ At(q, "flag")
    /\ flag' = [flag EXCEPT ![req[q].id] = @ \/ req[q].id \in running]
    /\ Ends(q)
    /\ UNCHANGED <<version, configured, path, running, file, disturbed, unwritten>>

------------------------------------------------------------------------------
(* handleUpdateServer: UpdateServer takes any folder, then the flag is     *)
(* refreshed.                                                              *)

UpdateServer(q, s, p) ==
    /\ s \in configured
    /\ path' = [path EXCEPT ![s] = p]
    /\ Asks(q, "patch", s, p, "check")
    /\ disturbed' = disturbed \cup Sharing(configured, path')
    /\ UNCHANGED <<version, configured, running, flag, file, unwritten>>

RefreshHookStatus(q) ==
    /\ At(q, "check")
    /\ req' = [req EXCEPT ![q].at = "set",
           ![q].ok = req[q].id \in configured /\ IsDeployed(path[req[q].id], req[q].id)]
    /\ UNCHANGED <<version, configured, path, running, flag, file, disturbed, unwritten>>

SetStatus(q) ==
    /\ At(q, "set")
    /\ flag' = [flag EXCEPT ![req[q].id] = IF req[q].id \in running THEN req[q].ok ELSE @]
    /\ Ends(q)
    /\ UNCHANGED <<version, configured, path, running, file, disturbed, unwritten>>

------------------------------------------------------------------------------
(* RemoveServer.                                                           *)

\* Slip: the instance stays in the map.
Without_Kept(s) == running

Without(s) == running \ {s}

RemoveServer(q, s) ==
    /\ s \in configured
    /\ Asks(q, "remove", s, NoPath, "unhook")
    /\ running' = Without(s)
    /\ flag' = [flag EXCEPT ![s] = FALSE]
    /\ UNCHANGED <<version, configured, path, file, disturbed, unwritten>>

\* Slip: whatever file is there is deleted.
Removable_Any(p) == p # NoPath /\ file[p].kind # "none"

Removable(p) == p # NoPath /\ Ours(file[p])

\* Remove reads the file.
FindHook(q) ==
    LET p == IF req[q].id \in configured THEN path[req[q].id] ELSE NoPath IN
    /\ At(q, "unhook")
    /\ req' = [req EXCEPT ![q].at = IF Removable(p) THEN "delete" ELSE "forget",
                          ![q].path = p]
    /\ UNCHANGED <<version, configured, path, running, flag, file, disturbed, unwritten>>

DeleteHook(q) ==
    /\ At(q, "delete")
    /\ file' = [file EXCEPT ![req[q].path] = NoFile]
    /\ Goes(q, "forget")
    /\ UNCHANGED <<version, configured, path, running, flag, disturbed, unwritten>>

DeleteFails(q) ==
    /\ DiskFails
    /\ At(q, "delete")
    /\ disturbed' = disturbed \cup {req[q].path}
    /\ Goes(q, "forget")
    /\ UNCHANGED <<version, configured, path, running, flag, file, unwritten>>

\* Config.RemoveServer.
ForgetServer(q) ==
    /\ At(q, "forget")
    /\ configured' = configured \ {req[q].id}
    /\ path' = [path EXCEPT ![req[q].id] = NoPath]
    /\ Ends(q)
    /\ UNCHANGED <<version, running, flag, file, disturbed, unwritten>>

------------------------------------------------------------------------------
\* The user copies the file from the archive, which has no marker, or deletes it.
UserTouches(p, f) ==
    /\ f \in {NoFile, Foreign} /\ f # file[p]
    /\ file' = [file EXCEPT ![p] = f]
    /\ disturbed' = disturbed \cup {p}
    /\ UNCHANGED <<version, configured, path, running, flag, req, unwritten>>

RequestNext(q) ==
    \/ \E s \in Servers, p \in Paths \cup {NoPath} : AddServer(q, s, p)
    \/ \E s \in Servers, p \in Paths : UpdateServer(q, s, p)
    \/ \E s \in Servers : DeployHook(q, s) \/ RemoveServer(q, s)
    \/ StartInstance(q) \/ Deploy(q) \/ DeployFails(q) \/ MarkDeployed(q)
    \/ RefreshHookStatus(q) \/ SetStatus(q)
    \/ FindHook(q) \/ DeleteHook(q) \/ DeleteFails(q) \/ ForgetServer(q)

Next ==
    \/ \E v \in {version, version + 1} \cap (0 .. MaxVersion) : Boot(v)
    \/ \E q \in Requests : RequestNext(q)
    \/ \E p \in Paths, f \in {NoFile, Foreign} : UserTouches(p, f)

Spec == Init /\ [][Next]_vars

------------------------------------------------------------------------------
(* Properties.                                                             *)

File == [kind : {"none", "foreign", "managed", "cut"}, port : Servers \cup {NoPath},
         version : 0 .. MaxVersion]

\* Types; an instance runs only for a configured server, and a folder that two
\* servers share is known to be disturbed.
HookFilesTypeOK ==
    /\ version \in 0 .. MaxVersion
    /\ configured \subseteq Servers /\ running \subseteq configured
    /\ path \in [Servers -> Paths \cup {NoPath}]
    /\ flag \in [Servers -> BOOLEAN]
    /\ file \in [Paths -> File]
    /\ req \in [Requests -> Request]
    /\ Sharing(configured, path) \subseteq disturbed /\ disturbed \subseteq Paths
    /\ unwritten \subseteq Paths

Quiet == \A q \in Requests : req[q] = Idle

\* When one request is served at a time, "Deployed" on the dashboard is true: the
\* folder the server has now holds the whole hook, for its port, of the version
\* that runs, whatever sequence of additions, removals, changes of folder and
\* restarts led there, unless somebody or something else was at the file: a new
\* folder may bring the hook of another server or version along.
\* (HookDeployed)
FlagIsEarned ==
    /\ HookFilesTypeOK
    /\ Quiet => \A s \in running :
          flag[s] => (path[s] \in disturbed \/ file[path[s]] = Managed(s, version))

\* "refusing to delete" (deployer.go:79): a file without our marker does not
\* vanish while a server is removed, although the file is read at one moment and
\* deleted at another, unless it was copied there in between.
ForeignIsKept ==
    [][\A p \in Paths :
        (file[p] = Foreign /\ file'[p] = NoFile) => p \in disturbed']_vars
=============================================================================
