---------------------------- MODULE InstallProofs ----------------------------
(***************************************************************************)
(* Proofs about the self-update and the hooks, for any number of updates,  *)
(* of servers and of folders: while updates do not cross, a script finds   *)
(* what it needs and installs the new program, although the program may be *)
(* closed, started by hand or fail between any two steps; no file of the   *)
(* user's is deleted; and "Deployed" is true.                              *)
(*                                                                         *)
(* The argument for the update: at most one is in hand, so the one script  *)
(* file is its own from the moment it is written until its last line       *)
(* deletes it (OwnScript), and its staging folder is there until it has    *)
(* copied.  The arguments for the hooks are further down.                  *)
(***************************************************************************)
EXTENDS Install, TLAPS

OneInHand == \A a, b \in Program!InHand : a = b

\* Where an Apply is, and what that says of the program and the script.
ApplyStands(a) ==
    /\ script[a] # "none" => apply[a] \in {"launched", "over"}
    /\ script[a] \notin {"none", "kill"} => apply[a] = "over"
    /\ apply[a] \notin {"none", "over"} => runs # Program!Down
    /\ Program!Staging(a) => a \in staged
    /\ apply[a] = "written" => bat = [of |-> a, whole |-> TRUE]

\* The script file is that of the script that is running.
OwnScript(a) ==
    /\ script[a] \in DOMAIN Program!NextLine => bat = [of |-> a, whole |-> TRUE]
    /\ script[a] \in {"kill", "copy"} => a \in staged

\* What a script has done by the line it has reached.
Progress(a) ==
    /\ script[a] \in {"tidy", "start", "clean", "delete", "ended"} => a \in busy \/ exe = "new"
    /\ script[a] \in {"start", "clean", "delete", "ended"} => ~luaDir

Alone ==
    crossed \/ (OneInHand /\ \A a \in Applies : ApplyStands(a) /\ OwnScript(a) /\ Progress(a))

ProgramInv == Program!UpdaterTypeOK /\ Alone

Lines == {"kill", "copy", "tidy", "start", "clean", "delete"}

------------------------------------------------------------------------------
\* The script's lines and their order.
LEMMA TheLines ==
    /\ DOMAIN Program!NextLine = Lines
    /\ \A l \in Lines : Program!NextLine[l] \in Lines \cup {"ended"}
    /\ Program!NextLine["kill"] = "copy" /\ Program!NextLine["copy"] = "tidy"
    /\ Program!NextLine["tidy"] = "start" /\ Program!NextLine["start"] = "clean"
    /\ Program!NextLine["clean"] = "delete" /\ Program!NextLine["delete"] = "ended"
BY DEF Program!NextLine, Lines

\* Before any update there is nothing to be found.
LEMMA ProgramInit == Program!Init => ProgramInv
<1> SUFFICES ASSUME Program!Init PROVE ProgramInv
  OBVIOUS
<1> USE DEF Program!Init, Program!Down
<1>1. Program!UpdaterTypeOK
  BY DEF Program!UpdaterTypeOK, Program!Versions, Program!NoBat
<1>2. OneInHand
  BY DEF OneInHand, Program!InHand
<1>3. \A a \in Applies : ApplyStands(a) /\ OwnScript(a) /\ Progress(a)
  BY TheLines DEF ApplyStands, OwnScript, Progress, Program!Staging, Lines
<1> QED
  BY <1>1, <1>2, <1>3 DEF ProgramInv, Alone

\* The program is started, or ends.
LEMMA UpAndDown ==
    ASSUME ProgramInv, Program!Start \/ Program!Stop
    PROVE  ProgramInv'
<1> USE DEF ProgramInv, Program!Start, Program!Stop, Program!Down, Program!Ended
<1>1. Program!UpdaterTypeOK'
  BY DEF Program!UpdaterTypeOK, Program!Versions
<1>2. OneInHand => OneInHand'
  BY DEF OneInHand, Program!InHand
<1>3. ASSUME NEW a \in Applies, ApplyStands(a), OwnScript(a), Progress(a)
      PROVE  ApplyStands(a)' /\ OwnScript(a)' /\ Progress(a)'
  BY <1>3 DEF ApplyStands, OwnScript, Progress, Program!Staging, Program!UpdaterTypeOK
<1> QED
  BY <1>1, <1>2, <1>3 DEF Alone

\* An Apply that comes while another is in hand is marked as crossing it.
LEMMA AskKeeps ==
    ASSUME ProgramInv, NEW a \in Applies, Program!Ask(a)
    PROVE  ProgramInv'
<1> USE DEF ProgramInv, Program!Ask, Program!Goes, Program!Down
<1>1. Program!UpdaterTypeOK'
  BY DEF Program!UpdaterTypeOK
<1>2. ASSUME ~crossed' PROVE OneInHand'
  BY <1>2 DEF OneInHand, Program!InHand, Program!UpdaterTypeOK
<1>3. ASSUME ~crossed', NEW b \in Applies
      PROVE  ApplyStands(b)' /\ OwnScript(b)' /\ Progress(b)'
  BY <1>3 DEF Alone, ApplyStands, OwnScript, Progress, Program!Staging, Program!UpdaterTypeOK
<1> QED
  BY <1>1, <1>2, <1>3 DEF Alone

\* The steps of an Apply after it was asked for: nobody else is in hand.
LEMMA ApplyKeeps ==
    ASSUME ProgramInv, NEW a \in Applies,
           Program!Stage(a) \/ Program!Fail(a) \/ Program!OpenScript(a)
               \/ Program!WriteScript(a) \/ Program!Launch(a) \/ Program!Exit(a)
    PROVE  ProgramInv'
<1> USE DEF ProgramInv, Program!Stage, Program!Fail, Program!OpenScript, Program!WriteScript,
            Program!Launch, Program!Exit, Program!Goes, Program!Down, Program!Ended,
            Program!Extracted
<1>1. Program!UpdaterTypeOK'
  <2> USE TheLines DEF Program!UpdaterTypeOK, Lines
  <2>1. runs' \in Program!Versions \cup {Program!Down} /\ exe' \in Program!Versions
    BY DEF Program!Versions
  <2>2. /\ luaDir' \in BOOLEAN /\ staged' \subseteq Applies
        /\ busy' \subseteq Applies /\ crossed' \in BOOLEAN
    OBVIOUS
  <2>3. apply' \in [Applies -> {"none", "download", "staged", "opened", "written",
                               "launched", "over"}]
    OBVIOUS
  <2>4. bat' \in [of : Applies \cup {NoApply}, whole : BOOLEAN]
    <3>1. bat' = bat \/ \E w \in BOOLEAN : bat' = [of |-> a, whole |-> w]
      OBVIOUS
    <3> QED
      BY <3>1
  <2>5. script' \in [Applies -> DOMAIN Program!NextLine \cup {"none", "ended"}]
    OBVIOUS
  <2> QED
    BY <2>1, <2>2, <2>3, <2>4, <2>5
<1>2. a \in Program!InHand /\ crossed' = crossed
  BY DEF Program!InHand, Program!UpdaterTypeOK
<1>3. Program!InHand' \subseteq Program!InHand
  BY <1>2 DEF Program!InHand, Program!UpdaterTypeOK
<1>4. ASSUME ~crossed, NEW b \in Applies
      PROVE  ApplyStands(b)' /\ OwnScript(b)' /\ Progress(b)'
  <2>1. b # a => b \notin Program!InHand
    BY <1>2, <1>4 DEF Alone, OneInHand
  <2>2. ApplyStands(b) /\ OwnScript(b) /\ Progress(b) /\ ApplyStands(a)
    BY <1>4 DEF Alone
  <2>3. b # a => apply[b] \in {"none", "over"} /\ script[b] \in {"none", "ended"}
    BY <2>1 DEF Program!InHand
  <2>4. ApplyStands(b)'
    BY <2>2, <2>3 DEF ApplyStands, Program!Staging, Program!UpdaterTypeOK
  <2>5. OwnScript(b)'
    BY <2>2, <2>3, TheLines DEF ApplyStands, OwnScript, Program!Staging, Program!UpdaterTypeOK, Lines
  <2>6. Progress(b)'
    BY <2>2, <2>3 DEF Progress, Program!UpdaterTypeOK
  <2> QED
    BY <2>4, <2>5, <2>6
<1> QED
  BY <1>1, <1>2, <1>3, <1>4 DEF Alone, OneInHand

\* The lines of a script.
LEMMA ScriptKeeps ==
    ASSUME ProgramInv, NEW a \in Applies, Program!ScriptNext(a)
    PROVE  ProgramInv'
<1> USE DEF ProgramInv, Program!ScriptNext, Program!Kill, Program!Copy, Program!Tidy,
            Program!Restart, Program!Clean, Program!Delete, Program!Breaks,
            Program!Reads, Program!Advances, Program!Down, Program!Ended
<1>1. Program!UpdaterTypeOK'
  <2> USE TheLines DEF Program!UpdaterTypeOK, Lines
  <2>1. runs' \in Program!Versions \cup {Program!Down} /\ exe' \in Program!Versions
    BY DEF Program!Versions
  <2>2. /\ luaDir' \in BOOLEAN /\ staged' \subseteq Applies
        /\ busy' \subseteq Applies /\ crossed' \in BOOLEAN
    OBVIOUS
  <2>3. apply' \in [Applies -> {"none", "download", "staged", "opened", "written",
                               "launched", "over"}]
    OBVIOUS
  <2>4. bat' \in [of : Applies \cup {NoApply}, whole : BOOLEAN]
    <3>1. CASE bat' = bat
      BY <3>1
    <3>2. CASE bat' = Program!NoBat
      <4> HIDE DEF Program!UpdaterTypeOK, ProgramInv, Program!ScriptNext
      <4> QED
        BY <3>2 DEF Program!NoBat
    <3> QED
      BY <3>1, <3>2
  <2>5. script' \in [Applies -> DOMAIN Program!NextLine \cup {"none", "ended"}]
    <3>1. script[a] \in Lines => Program!NextLine[script[a]] \in Lines \cup {"ended"}
      OBVIOUS
    <3>2. \E l \in Lines \cup {"ended"} : script' = [script EXCEPT ![a] = l]
      BY <3>1
    <3> QED
      BY <3>2
  <2> QED
    BY <2>1, <2>2, <2>3, <2>4, <2>5
<1>2. a \in Program!InHand /\ crossed' = crossed
  BY TheLines DEF Program!InHand, Lines
<1>3. Program!InHand' \subseteq Program!InHand
  BY <1>2 DEF Program!InHand, Program!UpdaterTypeOK
<1>4. ASSUME ~crossed, NEW b \in Applies
      PROVE  ApplyStands(b)' /\ OwnScript(b)' /\ Progress(b)'
  <2>1. b # a => apply[b] \in {"none", "over"} /\ script[b] \in {"none", "ended"}
    BY <1>2, <1>4 DEF Alone, OneInHand, Program!InHand
  <2>2. /\ ApplyStands(a) /\ OwnScript(a) /\ Progress(a)
        /\ ApplyStands(b) /\ OwnScript(b) /\ Progress(b)
    BY <1>4 DEF Alone
  <2>3. script[a] \in Lines /\ bat = [of |-> a, whole |-> TRUE]
    BY <2>2, TheLines DEF OwnScript, Lines
  <2>4. ApplyStands(b)'
    BY <2>1, <2>2, <2>3, TheLines DEF ApplyStands, Program!Staging, Program!UpdaterTypeOK, Lines
  <2>5. OwnScript(b)'
    BY <2>1, <2>2, <2>3, TheLines DEF OwnScript, Program!UpdaterTypeOK, Lines
  <2>6. Progress(b)'
    BY <2>1, <2>2, <2>3, TheLines DEF OwnScript, Progress, Program!UpdaterTypeOK, Lines
  <2> QED
    BY <2>4, <2>5, <2>6
<1> QED
  BY <1>1, <1>2, <1>3, <1>4 DEF Alone, OneInHand

\* A step that leaves the updater's variables alone keeps its invariant.
LEMMA NothingHappens == ProgramInv /\ UNCHANGED programVars => ProgramInv'
BY DEF ProgramInv, programVars, Program!UpdaterTypeOK, Alone, OneInHand, Program!InHand,
       ApplyStands, OwnScript, Progress, Program!Staging

------------------------------------------------------------------------------
\* Whatever the requests, the user and failing steps do in between, the invariant
\* of the update holds.
THEOREM ProgramInvariance == InstallSpec => []ProgramInv
<1>1. InstallInit => ProgramInv
  BY ProgramInit DEF InstallInit
<1>2. ProgramInv /\ [InstallNext]_allVars => ProgramInv'
  BY UpAndDown, AskKeeps, ApplyKeeps, ScriptKeeps, NothingHappens
     DEF InstallNext, ProgramNext, Program!ApplyNext, allVars
<1> QED
  BY <1>1, <1>2, PTL DEF InstallSpec

\* Of updates that do not cross, every script finds itself whole and its new exe in
\* place, and has installed the new program when it ends.  (Apply, the batch script)
THEOREM ScriptsInstall == InstallSpec => []ScriptInstalls
<1>1. ProgramInv => ScriptInstalls
  BY TheLines DEF ProgramInv, Alone, ApplyStands, OwnScript, Progress, ScriptInstalls,
     Program!ScriptInstalls, Program!Staging, Lines
<1> QED
  BY ProgramInvariance, <1>1, PTL

------------------------------------------------------------------------------
(* The hook files.  The argument for the flag: of a server that runs, it   *)
(* was set from a file that was whole, and nobody writes that file but a   *)
(* request for a server with the same folder (the two share it) or a step  *)
(* that is known to disturb it.  While the folder is changed the flag is   *)
(* stale, until SetStatus (Stale).                                         *)

\* What holds of the steps of any number of requests.
FilesTyped ==
    /\ version \in 0 .. MaxVersion
    /\ configured \subseteq Servers /\ running \subseteq Servers
    /\ path \in [Servers -> Paths \cup {NoPath}]
    /\ flag \in [Servers -> BOOLEAN]
    /\ file \in [Paths -> File]
    /\ req \in [Requests -> Request]
    /\ disturbed \subseteq Paths /\ unwritten \subseteq Paths

SharingKnown == Sharing(configured, path) \subseteq disturbed
CutKnown == \A p \in Paths : file[p].kind = "cut" => p \in disturbed
FolderNamed == \A q \in Requests : req[q].at \in {"write", "flag", "delete"} => req[q].path \in Paths

\* A file that is going to be deleted was the program's own.
ReadBefore ==
    \A q \in Requests : At(q, "delete") => file[req[q].path] # Foreign \/ req[q].path \in disturbed

FilesInv == FilesTyped /\ SharingKnown /\ CutKnown /\ FolderNamed /\ ReadBefore

\* One request is served at a time; no two requests are for the same server.
OneAtATime == \A q, r \in Requests : q = r
OneEach ==
    \A q, r \in Requests : q # r /\ req[q] # Idle /\ req[r] # Idle => req[q].id # req[r].id

\* What holds besides when no two requests are for the same server.
Has(s) ==
    /\ path[s] \in Paths
    /\ path[s] \in disturbed \/ file[path[s]] = Managed(s, version)

\* Where a request is, and what that says of its server.
RequestStands(q) ==
    /\ req[q] # Idle => req[q].id \in configured
    /\ req[q].at \in {"start", "write", "flag"} => path[req[q].id] = req[q].path
    /\ req[q].at = "flag" => Has(req[q].id)
    /\ req[q].at = "set" /\ req[q].ok => Has(req[q].id)
    /\ req[q].at \in {"unhook", "delete", "forget"} => req[q].id \notin running
    /\ req[q].at = "delete" => path[req[q].id] = req[q].path

Stale(s) == \E q \in Requests : req[q].at \in {"check", "set"} /\ req[q].id = s

Earned == \A s \in running : flag[s] => Stale(s) \/ Has(s)

Served == running \subseteq configured /\ (\A q \in Requests : RequestStands(q)) /\ Earned

HooksInv == FilesInv /\ Served

Places == {"start", "write", "flag", "check", "set", "unhook", "delete", "forget"}

Asking ==
    [op : {"add", "deploy", "patch", "remove"}, id : Servers, path : Paths \cup {NoPath},
     at : Places, ok : BOOLEAN]

\* A request is idle or has all its fields; `at' tells which.
LEMMA RequestForm ==
    /\ Request = {Idle} \cup Asking
    /\ Idle.at = "idle"
    /\ \A r \in Request : r.at \in Places \cup {"idle"}
    /\ \A r \in Request : r # Idle <=> r.at # "idle"
    /\ \A r \in Request : r # Idle => r \in Asking
BY DEF Request, Idle, Asking, Places

\* A step of a request moves that one only.
LEMMA RequestAsks ==
    ASSUME FilesTyped, NEW q \in Requests, NEW o \in {"add", "deploy", "patch", "remove"},
           NEW s \in Servers, NEW p \in Paths \cup {NoPath}, NEW w \in Places,
           Asks(q, o, s, p, w)
    PROVE  /\ req' \in [Requests -> Request]
           /\ req[q] = Idle
           /\ req'[q] # Idle
           /\ req'[q].op = o /\ req'[q].id = s /\ req'[q].path = p /\ req'[q].at = w
           /\ ~req'[q].ok
           /\ \A r \in Requests \ {q} : req'[r] = req[r]
<1> DEFINE new == [op |-> o, id |-> s, path |-> p, at |-> w, ok |-> FALSE]
<1>1. new \in Asking /\ new # Idle
  <2>1. new \in Asking
    BY DEF Asking
  <2>2. new.at # "idle"
    BY DEF Places
  <2> QED
    BY <2>1, <2>2, RequestForm
<1>2. req[q] = Idle /\ req' = [req EXCEPT ![q] = new]
  BY DEF Asks
<1>3. new.op = o /\ new.id = s /\ new.path = p /\ new.at = w /\ ~new.ok
  OBVIOUS
<1> HIDE DEF new
<1> QED
  BY <1>1, <1>2, <1>3, RequestForm DEF FilesTyped

\* A request goes on to its next step and keeps all it knows.
LEMMA RequestGoes ==
    ASSUME FilesTyped, NEW q \in Requests, req[q].at # "idle", NEW w \in Places, Goes(q, w)
    PROVE  /\ req' \in [Requests -> Request]
           /\ req[q] # Idle /\ req'[q] # Idle
           /\ req'[q].op = req[q].op /\ req'[q].id = req[q].id /\ req'[q].path = req[q].path
           /\ req'[q].at = w /\ req'[q].ok = req[q].ok
           /\ \A r \in Requests \ {q} : req'[r] = req[r]
<1>1. req[q] \in Asking /\ req[q] # Idle
  BY RequestForm DEF FilesTyped
<1> DEFINE new == [req[q] EXCEPT !.at = w]
<1>2. /\ new \in Asking
      /\ new.op = req[q].op /\ new.id = req[q].id /\ new.path = req[q].path
      /\ new.at = w /\ new.ok = req[q].ok
  BY <1>1 DEF Asking
<1>3. new # Idle
  BY <1>2, RequestForm DEF Places
<1>4. req' = [req EXCEPT ![q] = new]
  BY DEF Goes
<1> HIDE DEF new
<1> QED
  BY <1>1, <1>2, <1>3, <1>4, RequestForm DEF FilesTyped

\* A request that ends is idle.
LEMMA RequestEnds ==
    ASSUME FilesTyped, NEW q \in Requests, Ends(q)
    PROVE  /\ req' \in [Requests -> Request]
           /\ req'[q] = Idle /\ req'[q].at = "idle"
           /\ \A r \in Requests \ {q} : req'[r] = req[r]
BY RequestForm DEF FilesTyped, Ends

\* The two steps that write down what they have read.
LEMMA RequestReads ==
    ASSUME FilesTyped, NEW q \in Requests, RefreshHookStatus(q) \/ FindHook(q)
    PROVE  /\ req' \in [Requests -> Request]
           /\ req[q] # Idle /\ req'[q] # Idle
           /\ req'[q].id = req[q].id
           /\ \A r \in Requests \ {q} : req'[r] = req[r]
           /\ req'[q].at \in Places
           /\ RefreshHookStatus(q) => 
                /\ req'[q].at = "set"
                /\ req'[q].ok = (req[q].id \in configured /\ IsDeployed(path[req[q].id], req[q].id))
           /\ FindHook(q) => LET p == IF req[q].id \in configured THEN path[req[q].id] ELSE NoPath IN
                /\ req'[q].path = p
                /\ req'[q].at = IF Removable(p) THEN "delete" ELSE "forget"
<1>1. req[q] \in Asking /\ req[q] # Idle /\ req[q].id \in Servers
  <2>1. req[q].at # "idle"
    BY DEF RefreshHookStatus, FindHook, At
  <2> QED
    BY <2>1, RequestForm DEF FilesTyped, Asking
<1>2. CASE RefreshHookStatus(q)
  <2> DEFINE isOn == req[q].id \in configured /\ IsDeployed(path[req[q].id], req[q].id)
             new == [req[q] EXCEPT !.at = "set", !.ok = isOn]
  <2>1. isOn \in BOOLEAN
    OBVIOUS
  <2>2. req' = [req EXCEPT ![q] = new] /\ ~FindHook(q)
    BY <1>2 DEF RefreshHookStatus, FindHook, At
  <2> HIDE DEF isOn
  <2>3. new \in Asking /\ new.id = req[q].id /\ new.at = "set" /\ new.ok = isOn
    BY <1>1, <2>1 DEF Asking, Places
  <2>4. new # Idle
    BY <2>3, RequestForm
  <2> HIDE DEF new
  <2>5. req' \in [Requests -> Request] /\ req'[q] = new /\ \A r \in Requests \ {q} : req'[r] = req[r]
    BY <2>2, <2>3, RequestForm DEF FilesTyped
  <2> QED
    BY <1>1, <2>2, <2>3, <2>4, <2>5 DEF isOn, Places
<1>3. CASE FindHook(q)
  <2> DEFINE p == IF req[q].id \in configured THEN path[req[q].id] ELSE NoPath
             w == IF Removable(p) THEN "delete" ELSE "forget"
             new == [req[q] EXCEPT !.at = w, !.path = p]
  <2>1. p \in Paths \cup {NoPath} /\ w \in Places
    BY <1>1 DEF FilesTyped, Places
  <2>2. req' = [req EXCEPT ![q] = new] /\ ~RefreshHookStatus(q)
    BY <1>3 DEF RefreshHookStatus, FindHook, At
  <2> HIDE DEF p, w
  <2>3. new \in Asking /\ new.id = req[q].id /\ new.at = w /\ new.path = p
    BY <1>1, <2>1 DEF Asking
  <2>4. new # Idle
    BY <2>1, <2>3, RequestForm DEF Places
  <2> HIDE DEF new
  <2>5. req' \in [Requests -> Request] /\ req'[q] = new /\ \A r \in Requests \ {q} : req'[r] = req[r]
    BY <2>2, <2>3, RequestForm DEF FilesTyped
  <2> QED
    BY <1>1, <2>1, <2>2, <2>3, <2>4, <2>5 DEF p, w
<1> QED
  BY <1>2, <1>3

\* The steps that only look at the files.
Looks(q) ==
    \/ \E s \in Servers : DeployHook(q, s) \/ RemoveServer(q, s)
    \/ StartInstance(q) \/ MarkDeployed(q)
    \/ RefreshHookStatus(q) \/ SetStatus(q) \/ FindHook(q)

\* A request that looks finds a folder to write in, or a file of ours to delete.
LEMMA LooksKeepFiles ==
    ASSUME FilesInv, NEW q \in Requests, Looks(q)
    PROVE  FilesInv'
<1> USE DEF FilesInv
<1>1. UNCHANGED <<version, configured, path, file, disturbed, unwritten>>
  BY DEF Looks, DeployHook, RemoveServer, StartInstance, MarkDeployed, RefreshHookStatus,
         SetStatus, FindHook
<1>2. /\ req' \in [Requests -> Request]
      /\ \A r \in Requests \ {q} : req'[r] = req[r]
      /\ req'[q].at \in {"write", "flag", "delete"} => req'[q].path \in Paths
      /\ req'[q].at = "delete" => Ours(file[req'[q].path])
      /\ running' \subseteq Servers /\ flag' \in [Servers -> BOOLEAN]
  <2>0. req[q].at # "idle" => req[q] # Idle /\ req[q].id \in Servers /\ req[q].path \in Paths \cup {NoPath}
    BY RequestForm DEF FilesTyped, Asking
  <2>1. ASSUME NEW s \in Servers, DeployHook(q, s) PROVE <1>2
    <3>1. path[s] \in Paths /\ Asks(q, "deploy", s, path[s], "write")
      BY <2>1 DEF DeployHook, FilesTyped
    <3> QED
      BY <2>1, <3>1, RequestAsks DEF DeployHook, FilesTyped, Places
  <2>2. ASSUME NEW s \in Servers, RemoveServer(q, s) PROVE <1>2
    <3>1. Asks(q, "remove", s, NoPath, "unhook")
      BY <2>2 DEF RemoveServer
    <3> QED
      BY <2>2, <3>1, RequestAsks DEF RemoveServer, FilesTyped, Places, Without
  <2>3. CASE StartInstance(q)
    <3>1. At(q, "start") /\ req[q].at # "idle"
      BY <2>3 DEF StartInstance, At
    <3>2. /\ running' \subseteq Servers
          /\ flag' \in [Servers -> BOOLEAN]
      <4>1. IsDeployed(path[req[q].id], req[q].id) \in BOOLEAN
        BY DEF IsDeployed
      <4> QED
        BY <2>0, <2>3, <3>1, <4>1 DEF StartInstance, FilesTyped
    <3>3. CASE req[q].path = NoPath
      BY <2>3, <3>2, <3>3, RequestEnds DEF StartInstance
    <3>4. CASE req[q].path # NoPath
      BY <2>0, <2>3, <3>1, <3>2, <3>4, RequestGoes DEF StartInstance, Places
    <3> QED
      BY <3>3, <3>4
  <2>4. CASE MarkDeployed(q)
    <3>1. Ends(q) /\ running' = running /\ req[q].at = "flag"
      BY <2>4 DEF MarkDeployed, At
    <3>2. flag' \in [Servers -> BOOLEAN]
      BY <2>4, <2>0, <3>1 DEF MarkDeployed, FilesTyped
    <3> QED
      BY <3>1, <3>2, RequestEnds DEF FilesTyped
  <2>5. CASE RefreshHookStatus(q)
    BY <2>5, RequestReads DEF RefreshHookStatus, FilesTyped
  <2>6. CASE SetStatus(q)
    <3>1. Ends(q) /\ running' = running /\ req[q].at = "set"
      BY <2>6 DEF SetStatus, At
    <3>2. flag' \in [Servers -> BOOLEAN]
      <4>1. req[q].ok \in BOOLEAN
        BY <3>1, <2>0, RequestForm DEF FilesTyped, Asking
      <4> QED
        BY <2>6, <2>0, <3>1, <4>1 DEF SetStatus, FilesTyped
    <3> QED
      BY <3>1, <3>2, RequestEnds DEF FilesTyped
  <2>7. CASE FindHook(q)
    <3> DEFINE p == IF req[q].id \in configured THEN path[req[q].id] ELSE NoPath
    <3>1. At(q, "unhook") /\ UNCHANGED <<running, flag>>
      BY <2>7 DEF FindHook
    <3>2. p \in Paths \cup {NoPath}
      BY <2>0, <3>1 DEF FilesTyped, At
    <3>3. /\ req'[q].path = p /\ req'[q].at = (IF Removable(p) THEN "delete" ELSE "forget")
          /\ req' \in [Requests -> Request]
          /\ \A r \in Requests \ {q} : req'[r] = req[r]
      BY <2>7, RequestReads
    <3> HIDE DEF p
    <3> QED
      BY <3>1, <3>2, <3>3 DEF Removable, FilesTyped
  <2> QED
    BY <2>1, <2>2, <2>3, <2>4, <2>5, <2>6, <2>7 DEF Looks
<1>3. FilesTyped'
  BY <1>1, <1>2 DEF FilesTyped
<1>4. SharingKnown' /\ CutKnown'
  BY <1>1 DEF SharingKnown, CutKnown, Sharing
<1>5. FolderNamed'
  BY <1>2 DEF FolderNamed
<1>6. ReadBefore'
  BY <1>1, <1>2 DEF ReadBefore, At, Ours, Foreign
<1> QED
  BY <1>3, <1>4, <1>5, <1>6

\* The steps that change what is configured.
LEMMA ConfigKeepsFiles ==
    ASSUME FilesInv, NEW q \in Requests,
           \/ \E s \in Servers, p \in Paths \cup {NoPath} : AddServer(q, s, p)
           \/ \E s \in Servers, p \in Paths : UpdateServer(q, s, p)
           \/ ForgetServer(q)
    PROVE  FilesInv'
<1> USE DEF FilesInv
<1>1. UNCHANGED <<version, file, unwritten>> /\ disturbed \subseteq disturbed'
      /\ flag' \in [Servers -> BOOLEAN] /\ running' \subseteq Servers
  BY DEF AddServer, UpdateServer, ForgetServer, FilesTyped
<1>2. /\ req' \in [Requests -> Request]
      /\ \A r \in Requests \ {q} : req'[r] = req[r]
      /\ req'[q].at \notin {"write", "flag", "delete"}
      /\ configured' \subseteq Servers /\ path' \in [Servers -> Paths \cup {NoPath}]
      /\ disturbed' \subseteq Paths
      /\ Sharing(configured', path') \subseteq disturbed'
  <2>1. ASSUME NEW s \in Servers, NEW p \in Paths \cup {NoPath}, AddServer(q, s, p) PROVE <1>2
    <3>1. Asks(q, "add", s, p, "start") /\ disturbed' = disturbed
          /\ configured' = configured \cup {s} /\ path' = [path EXCEPT ![s] = p]
          /\ s \notin configured /\ (p = NoPath \/ Users(p) = {})
      BY <2>1 DEF AddServer
    <3>2. Sharing(configured', path') \subseteq Sharing(configured, path)
      BY <3>1, HookFilesAssumption DEF Sharing, Users, FilesTyped
    <3>3. configured' \subseteq Servers /\ path' \in [Servers -> Paths \cup {NoPath}]
      BY <3>1 DEF FilesTyped
    <3> QED
      BY <3>1, <3>2, <3>3, RequestAsks DEF FilesTyped, Places, SharingKnown
  <2>2. ASSUME NEW s \in Servers, NEW p \in Paths, UpdateServer(q, s, p) PROVE <1>2
    <3>1. Asks(q, "patch", s, p, "check") /\ configured' = configured /\ path' = [path EXCEPT ![s] = p]
          /\ disturbed' = disturbed \cup Sharing(configured, path')
      BY <2>2 DEF UpdateServer
    <3>2. disturbed' \subseteq Paths
      BY <3>1 DEF Sharing, FilesTyped
    <3> QED
      BY <3>1, <3>2, RequestAsks DEF FilesTyped, Places
  <2>3. CASE ForgetServer(q)
    <3>1. Ends(q) /\ configured' = configured \ {req[q].id} /\ disturbed' = disturbed
          /\ path' = [path EXCEPT ![req[q].id] = NoPath] /\ req[q].at = "forget"
      BY <2>3 DEF ForgetServer, At
    <3>2. req[q].id \in Servers
      BY <3>1, RequestForm DEF FilesTyped, Asking
    <3>3. Sharing(configured', path') \subseteq Sharing(configured, path)
      BY <3>1, <3>2 DEF Sharing, FilesTyped
    <3> QED
      BY <3>1, <3>2, <3>3, RequestEnds DEF FilesTyped, SharingKnown
  <2> QED
    BY <2>1, <2>2, <2>3
<1>3. FilesTyped'
  BY <1>1, <1>2 DEF FilesTyped
<1>4. SharingKnown'
  BY <1>2 DEF SharingKnown
<1>5. CutKnown'
  BY <1>1 DEF CutKnown
<1>6. FolderNamed'
  BY <1>2 DEF FolderNamed
<1>7. ReadBefore'
  BY <1>1, <1>2 DEF ReadBefore, At
<1> QED
  BY <1>3, <1>4, <1>5, <1>6, <1>7

\* The files the program and the user write, and how they differ.
LEMMA FileForms ==
    ASSUME NEW v \in 0 .. MaxVersion, NEW s \in Servers
    PROVE  /\ Managed(s, v) \in File /\ Cut(s, v) \in File /\ Cut(NoPath, v) \in File
           /\ NoFile \in File /\ Foreign \in File
           /\ Managed(s, v).kind = "managed"
           /\ Managed(s, v) # Foreign /\ Cut(s, v) # Foreign /\ Cut(NoPath, v) # Foreign
           /\ NoFile # Foreign /\ NoFile.kind = "none" /\ Foreign.kind = "foreign"
<1>1. 0 \in 0 .. MaxVersion
  BY HookFilesAssumption
<1>2. /\ Managed(s, v) \in File /\ Cut(s, v) \in File /\ Cut(NoPath, v) \in File
  BY DEF Managed, Cut, File
<1>3. NoFile \in File /\ Foreign \in File
  BY <1>1 DEF NoFile, Foreign, File
<1>4. /\ Managed(s, v).kind = "managed" /\ Foreign.kind = "foreign" /\ NoFile.kind = "none"
      /\ Cut(s, v).kind = "cut" /\ Cut(NoPath, v).kind = "cut"
  BY DEF Managed, Cut, NoFile, Foreign
<1> QED
  BY <1>2, <1>3, <1>4

\* One file is written or deleted: it is not a copy from the archive then, or its
\* folder is disturbed.
LEMMA OneFileKeepsFiles ==
    ASSUME FilesInv, NEW p \in Paths, NEW f \in File,
           UNCHANGED <<version, configured, path, unwritten>>,
           running' \subseteq Servers, flag' \in [Servers -> BOOLEAN],
           file' = [file EXCEPT ![p] = f],
           disturbed' \in {disturbed, disturbed \cup {p}},
           f.kind = "cut" \/ f = Foreign => p \in disturbed',
           req' \in [Requests -> Request],
           \A r \in Requests : req'[r].at \in {"write", "flag", "delete"} =>
               /\ req'[r].path = req[r].path
               /\ req[r].at \in {"write", "flag", "delete"}
               /\ req'[r].at = "delete" => req[r].at = "delete"
    PROVE  FilesInv'
<1> USE DEF FilesInv
<1>1. FilesTyped'
  BY DEF FilesTyped
<1>2. SharingKnown'
  BY DEF SharingKnown, FilesTyped
<1>3. CutKnown'
  BY DEF CutKnown, FilesTyped
<1>4. FolderNamed'
  BY DEF FolderNamed
<1>5. ReadBefore'
  BY DEF ReadBefore, At, FolderNamed, FilesTyped
<1> QED
  BY <1>1, <1>2, <1>3, <1>4, <1>5

\* Deploy and Remove, when they succeed and when they fail.
LEMMA WritesKeepFiles ==
    ASSUME FilesInv, NEW q \in Requests,
           Deploy(q) \/ DeployFails(q) \/ DeleteHook(q) \/ DeleteFails(q)
    PROVE  FilesInv'
<1> USE DEF FilesInv
<1>1. /\ UNCHANGED <<version, configured, path, unwritten, running, flag>>
      /\ req[q].at \in {"write", "delete"}
  BY DEF Deploy, DeployFails, DeleteHook, DeleteFails, At
<1>2. req[q].path \in Paths /\ req[q].id \in Servers /\ running \subseteq Servers
      /\ flag \in [Servers -> BOOLEAN] /\ version \in 0 .. MaxVersion /\ file \in [Paths -> File]
  BY <1>1, RequestForm DEF FolderNamed, FilesTyped, Asking
<1>3. CASE Deploy(q)
  <2>1. /\ req' \in [Requests -> Request]
        /\ \A r \in Requests \ {q} : req'[r] = req[r]
        /\ req'[q].at \notin {"write", "delete"}
        /\ req'[q].at = "flag" => req'[q].path = req[q].path
    BY <1>1, <1>3, RequestGoes, RequestEnds DEF Deploy, Places
  <2> DEFINE f == Managed(req[q].id, version)
  <2>2. f \in File /\ f.kind # "cut" /\ f # Foreign
    BY <1>2, FileForms
  <2>3. file' = [file EXCEPT ![req[q].path] = f] /\ disturbed' = disturbed
    BY <1>3 DEF Deploy
  <2> HIDE DEF f
  <2>4. \A r \in Requests : req'[r].at \in {"write", "flag", "delete"} =>
               /\ req'[r].path = req[r].path
               /\ req[r].at \in {"write", "flag", "delete"}
               /\ req'[r].at = "delete" => req[r].at = "delete"
    BY <1>1, <2>1
  <2> QED
    BY <1>1, <1>2, <2>1, <2>2, <2>3, <2>4, OneFileKeepsFiles
<1>4. CASE DeployFails(q)
  <2>1. /\ req' \in [Requests -> Request]
        /\ \A r \in Requests \ {q} : req'[r] = req[r]
        /\ req'[q].at = "idle"
    BY <1>4, RequestEnds DEF DeployFails
  <2>2. PICK f \in Botched(req[q].id) \cup {file[req[q].path]} :
            file' = [file EXCEPT ![req[q].path] = f]
    BY <1>4 DEF DeployFails
  <2>3. f \in File
    BY <1>2, <2>2, FileForms DEF Botched
  <2>4. disturbed' = disturbed \cup {req[q].path}
    BY <1>4 DEF DeployFails
  <2>5. \A r \in Requests : req'[r].at \in {"write", "flag", "delete"} =>
               /\ req'[r].path = req[r].path
               /\ req[r].at \in {"write", "flag", "delete"}
               /\ req'[r].at = "delete" => req[r].at = "delete"
    BY <1>1, <2>1
  <2> QED
    BY <1>1, <1>2, <2>1, <2>2, <2>3, <2>4, <2>5, OneFileKeepsFiles
<1>5. CASE DeleteHook(q) \/ DeleteFails(q)
  <2>1. /\ req' \in [Requests -> Request]
        /\ \A r \in Requests \ {q} : req'[r] = req[r]
        /\ req'[q].at = "forget"
    BY <1>1, <1>5, RequestGoes DEF DeleteHook, DeleteFails, Places
  <2>2. PICK f \in {NoFile, file[req[q].path]} :
          /\ file' = [file EXCEPT ![req[q].path] = f]
          /\ disturbed' \in {disturbed, disturbed \cup {req[q].path}}
          /\ f # NoFile => disturbed' = disturbed \cup {req[q].path}
    BY <1>2, <1>5 DEF DeleteHook, DeleteFails
  <2>3. f \in File /\ (f = NoFile => f.kind # "cut" /\ f # Foreign)
    BY <1>2, <2>2, FileForms
  <2>4. \A r \in Requests : req'[r].at \in {"write", "flag", "delete"} =>
               /\ req'[r].path = req[r].path
               /\ req[r].at \in {"write", "flag", "delete"}
               /\ req'[r].at = "delete" => req[r].at = "delete"
    BY <1>1, <2>1
  <2> QED
    BY <1>1, <1>2, <2>1, <2>2, <2>3, <2>4, OneFileKeepsFiles
<1> QED
  BY <1>3, <1>4, <1>5

\* What the user does to a file is known.
LEMMA UserKeepsFiles ==
    ASSUME FilesInv, NEW p \in Paths, NEW f \in {NoFile, Foreign}, UserTouches(p, f)
    PROVE  FilesInv'
<1> USE DEF FilesInv
<1>1. f \in File
  <2>1. 0 \in 0 .. MaxVersion
    BY HookFilesAssumption
  <2> QED
    BY <2>1 DEF File, NoFile, Foreign
<1>2. /\ UNCHANGED <<version, configured, path, unwritten, running, flag, req>>
      /\ file' = [file EXCEPT ![p] = f] /\ disturbed' = disturbed \cup {p}
  BY DEF UserTouches
<1>3. /\ running \subseteq Servers /\ flag \in [Servers -> BOOLEAN]
      /\ req \in [Requests -> Request]
  BY DEF FilesTyped
<1> QED
  BY <1>1, <1>2, <1>3, OneFileKeepsFiles

\* What main leaves in a folder: what was there, cut short, or the hook of one of
\* the servers that have it.
LEMMA BootLeaves ==
    ASSUME FilesInv, NEW v \in 0 .. MaxVersion, Boot(v)
    PROVE  /\ file' \in [Paths -> File]
           /\ \A p \in Paths : file'[p] = Foreign => file[p] = Foreign
           /\ \A p \in Paths : file'[p] = NoFile => file[p] = NoFile
<1> USE DEF FilesInv
<1> DEFINE Left(p) == IF p \in unwritten' THEN {file[p], Cut(NoPath, v)} ELSE Redeployed(p, v)
<1>1. file' \in [Paths -> UNION {Left(p) : p \in Paths}] /\ \A p \in Paths : file'[p] \in Left(p)
  BY DEF Boot
<1>2. ASSUME NEW p \in Paths
      PROVE  \A f \in Left(p) : f \in File /\ (f = file[p] \/ f = Cut(NoPath, v)
                                               \/ \E s \in Servers : f = Managed(s, v))
  <2>1. file[p] \in File /\ configured \subseteq Servers
    BY DEF FilesTyped
  <2>2. Cut(NoPath, v) \in File
    BY DEF Cut, File
  <2>3. \A s \in Servers : Managed(s, v) \in File
    BY FileForms
  <2> QED
    BY <2>1, <2>2, <2>3 DEF Redeployed, Users
<1>3. ASSUME NEW p \in Paths
      PROVE  /\ file'[p] \in File
             /\ file'[p] \in {NoFile, Foreign} => file'[p] = file[p]
  <2>1. file'[p] \in Left(p)
    BY <1>1
  <2>2. Cut(NoPath, v) \notin {NoFile, Foreign}
    BY DEF Cut, NoFile, Foreign
  <2>3. \A s \in Servers : Managed(s, v) \notin {NoFile, Foreign}
    BY DEF Managed, NoFile, Foreign
  <2> HIDE DEF Left
  <2> QED
    BY <1>2, <2>1, <2>2, <2>3
<1>4. DOMAIN file' = Paths /\ file' = [p \in Paths |-> file'[p]]
  BY <1>1
<1> HIDE DEF Left
<1> QED
  BY <1>3, <1>4

\* After a start what is shared or cut short is known anew.
LEMMA BootKeepsFiles ==
    ASSUME FilesInv, NEW v \in 0 .. MaxVersion, Boot(v)
    PROVE  FilesInv'
<1> USE DEF FilesInv
<1>1. /\ UNCHANGED <<configured, path>> /\ version' = v /\ running' = configured
      /\ unwritten' \subseteq Paths
      /\ flag' = [s \in Servers |-> s \in configured /\ IsDeployed(path[s], s)']
      /\ req' = [q \in Requests |-> Idle]
      /\ disturbed' = Sharing(configured, path) \cup {p \in Paths : file'[p].kind = "cut"}
                           \cup {p \in disturbed : file'[p] = file[p]}
  BY DEF Boot
<1>2. file' \in [Paths -> File]
  BY BootLeaves
<1>3. FilesTyped'
  <2>1. disturbed' \subseteq Paths
    BY <1>1 DEF FilesTyped, Sharing
  <2>2. req' \in [Requests -> Request]
    BY <1>1, RequestForm
  <2>3. flag' \in [Servers -> BOOLEAN]
    BY <1>1
  <2> QED
    BY <1>1, <1>2, <2>1, <2>2, <2>3 DEF FilesTyped
<1>4. SharingKnown' /\ CutKnown'
  BY <1>1 DEF SharingKnown, CutKnown, Sharing
<1>5. FolderNamed' /\ ReadBefore'
  BY <1>1, RequestForm DEF FolderNamed, ReadBefore, At
<1> QED
  BY <1>3, <1>4, <1>5

\* Every step of the program, the requests and the user.
LEMMA FilesStep ==
    ASSUME FilesInv,
           \/ \E v \in 0 .. MaxVersion : Boot(v)
           \/ \E q \in Requests : RequestNext(q)
           \/ \E p \in Paths, f \in {NoFile, Foreign} : UserTouches(p, f)
           \/ UNCHANGED vars
    PROVE  FilesInv'
<1>1. ASSUME NEW q \in Requests, RequestNext(q)
      PROVE  FilesInv'
  BY <1>1, LooksKeepFiles, ConfigKeepsFiles, WritesKeepFiles DEF RequestNext, Looks
<1>2. CASE UNCHANGED vars
  BY <1>2 DEF vars, FilesInv, FilesTyped, SharingKnown, CutKnown, FolderNamed, ReadBefore,
              Sharing, At
<1> QED
  BY <1>1, <1>2, BootKeepsFiles, UserKeepsFiles

\* At first no server is configured, and no file is ours.
LEMMA FilesInit == Init => FilesInv
<1> SUFFICES ASSUME Init PROVE FilesInv
  OBVIOUS
<1>1. 0 \in 0 .. MaxVersion /\ {NoFile, Foreign} \subseteq File
  <2>1. 0 \in 0 .. MaxVersion
    BY HookFilesAssumption
  <2> QED
    BY <2>1 DEF File, NoFile, Foreign
<1>2. FilesTyped
  BY <1>1, RequestForm DEF Init, FilesTyped
<1>3. SharingKnown /\ CutKnown
  <2>1. \A p \in Paths : file[p].kind # "cut"
    BY DEF Init, NoFile, Foreign
  <2> QED
    BY <2>1 DEF Init, SharingKnown, CutKnown, Sharing
<1>4. FolderNamed /\ ReadBefore
  BY RequestForm DEF Init, FolderNamed, ReadBefore, At
<1> QED
  BY <1>2, <1>3, <1>4 DEF FilesInv

\* A file that is not ours vanishes under the user's hands only.
LEMMA ForeignStep ==
    ASSUME FilesInv,
           \/ \E v \in 0 .. MaxVersion : Boot(v)
           \/ \E q \in Requests : RequestNext(q)
           \/ \E p \in Paths, f \in {NoFile, Foreign} : UserTouches(p, f)
           \/ UNCHANGED vars,
           NEW p \in Paths, file[p] = Foreign, file'[p] = NoFile
    PROVE  p \in disturbed'
<1> USE DEF FilesInv
<1>0. NoFile # Foreign /\ file \in [Paths -> File]
  BY DEF NoFile, Foreign, FilesTyped
<1>1. ASSUME NEW v \in 0 .. MaxVersion, Boot(v) PROVE FALSE
  BY <1>0, <1>1, BootLeaves
<1>2. ASSUME NEW q \in Requests, RequestNext(q) PROVE p \in disturbed'
  <2>0. file' # file
    BY <1>0
  <2>1. Deploy(q) \/ DeployFails(q) \/ DeleteHook(q)
    BY <1>2, <2>0 DEF RequestNext, AddServer, UpdateServer, DeployHook, RemoveServer, StartInstance,
       MarkDeployed, RefreshHookStatus, SetStatus, FindHook, DeleteFails, ForgetServer
  <2>2. CASE Deploy(q)
    <3>1. Managed(req[q].id, version) # NoFile
      BY DEF Managed, NoFile
    <3> QED
      BY <1>0, <2>2, <3>1 DEF Deploy
  <2>3. CASE DeployFails(q)
    <3>1. p = req[q].path
      BY <1>0, <2>3 DEF DeployFails
    <3> QED
      BY <2>3, <3>1 DEF DeployFails
  <2>4. CASE DeleteHook(q)
    <3>1. p = req[q].path /\ At(q, "delete") /\ disturbed' = disturbed
      BY <1>0, <2>4 DEF DeleteHook
    <3> QED
      BY <3>1 DEF ReadBefore
  <2> QED
    BY <2>1, <2>2, <2>3, <2>4
<1>3. ASSUME NEW r \in Paths, NEW f \in {NoFile, Foreign}, UserTouches(r, f)
      PROVE  p \in disturbed'
  BY <1>0, <1>3 DEF UserTouches
<1>4. CASE UNCHANGED vars
  BY <1>0, <1>4 DEF vars
<1> QED
  BY <1>1, <1>2, <1>3, <1>4

------------------------------------------------------------------------------
\* The installed program has two versions.
LEMMA InstallStep ==
    ASSUME InstallNext \/ UNCHANGED allVars
    PROVE  \/ \E v \in 0 .. MaxVersion : Boot(v)
           \/ \E q \in Requests : RequestNext(q)
           \/ \E p \in Paths, f \in {NoFile, Foreign} : UserTouches(p, f)
           \/ UNCHANGED vars
<1>1. \A w : Number(w) \in 0 .. MaxVersion
  BY HookFilesAssumption, InstallAssumption DEF Number
<1>2. Boots => (\E v \in 0 .. MaxVersion : Boot(v)) \/ UNCHANGED vars
  BY <1>1 DEF Boots
<1> QED
  BY <1>2 DEF InstallNext, allVars

\* However many requests are served at a time, a folder that two servers share, and
\* a file that was cut short, are known to be disturbed, and a file about to be
\* deleted was the program's own when it was read.
THEOREM FilesInvariance == InstallSpec => []FilesInv
<1>1. InstallInit => FilesInv
  BY FilesInit DEF InstallInit
<1>2. FilesInv /\ [InstallNext]_allVars => FilesInv'
  BY InstallStep, FilesStep
<1> QED
  BY <1>1, <1>2, PTL DEF InstallSpec

\* However many requests are served at a time, removing a server deletes no file
\* without our marker that was not put there in between.  (Remove)
THEOREM ForeignFilesKept == InstallSpec => ForeignIsKept
<1>1. FilesInv /\ [InstallNext]_allVars
        => [\A p \in Paths : (file[p] = Foreign /\ file'[p] = NoFile) => p \in disturbed']_vars
  BY InstallStep, ForeignStep
<1> QED
  BY <1>1, FilesInvariance, PTL DEF InstallSpec, ForeignIsKept

------------------------------------------------------------------------------
(* One request for a server at a time.                                     *)

\* What IsDeployed reads is the whole hook, or the folder is disturbed.
LEMMA DeployedMeans ==
    ASSUME FilesInv, NEW s \in Servers, IsDeployed(path[s], s)
    PROVE  Has(s)
<1> USE DEF FilesInv
<1> DEFINE f == file[path[s]]
<1>1. path[s] \in Paths /\ f \in File
  BY DEF IsDeployed, FilesTyped
<1>2. f.kind \in {"managed", "cut"} /\ f.port = s /\ f.version = version
  BY DEF IsDeployed, Ours
<1>3. CASE f.kind = "cut"
  BY <1>1, <1>3 DEF Has, CutKnown
<1>4. CASE f.kind = "managed"
  <2> HIDE DEF f
  <2>1. f = [kind |-> "managed", port |-> s, version |-> version]
    BY <1>1, <1>2, <1>4 DEF File
  <2> QED
    BY <1>1, <2>1 DEF Has, Managed, f
<1> QED
  BY <1>2, <1>3, <1>4

\* The hook a server has stays when its folder's file does, or somebody is known
\* to be at it.
LEMMA HasStays ==
    ASSUME NEW s, Has(s), path'[s] = path[s], version' = version, disturbed \subseteq disturbed',
           file'[path[s]] = file[path[s]] \/ path[s] \in disturbed'
    PROVE  Has(s)'
BY DEF Has

\* A request that writes or deletes the file of its server's folder does so to
\* other servers with that folder only when they share it.
LEMMA OthersAreSharing ==
    ASSUME FilesInv, NEW s \in configured, NEW t \in configured, s # t,
           path[s] = path[t], path[t] \in Paths
    PROVE  path[t] \in disturbed
BY DEF FilesInv, SharingKnown, Sharing

\* A step of q for the server id leaves all other servers and requests alone.
Spares(q, id) ==
    /\ \A r \in Requests \ {q} : req'[r] = req[r] /\ (req[r] # Idle => req[r].id # id)
    /\ req[q].at \in {"check", "set"} => req[q].id = id
    /\ \A s \in Servers \ {id} :
          /\ path'[s] = path[s] /\ flag'[s] = flag[s]
          /\ s \in configured => s \in configured'
          /\ s \in running' => s \in running
          /\ s \in configured /\ Has(s) => Has(s)'

\* Such a step keeps what is said of the others.
LEMMA SparesServed ==
    ASSUME HooksInv, running' \subseteq Servers, NEW q \in Requests, NEW id, Spares(q, id),
           RequestStands(q)',
           id \in running' => id \in configured',
           id \in running' /\ flag'[id] => Stale(id)' \/ Has(id)'
    PROVE  Served'
<1> USE DEF HooksInv
<1>1. running \subseteq configured /\ configured \subseteq Servers
  BY DEF Served, FilesInv, FilesTyped
<1>2. ASSUME NEW r \in Requests \ {q} PROVE RequestStands(r)'
  <2>1. req'[r] = req[r] /\ RequestStands(r)
    BY DEF Spares, Served
  <2>2. CASE req[r] = Idle
    BY <2>1, <2>2, RequestForm DEF RequestStands
  <2>3. CASE req[r] # Idle
    <3>1. req[r].id \in configured /\ req[r].id \in Servers \ {id}
      BY <1>1, <2>1, <2>3 DEF RequestStands, Spares
    <3> QED
      BY <2>1, <2>3, <3>1 DEF RequestStands, Spares
  <2> QED
    BY <2>2, <2>3
<1>3. running' \subseteq configured'
  BY <1>1 DEF Spares
<1>4. ASSUME NEW s \in running', flag'[s], s # id PROVE Stale(s)' \/ Has(s)'
  <2>1. s \in Servers \ {id} /\ s \in running /\ flag[s]
    BY <1>4 DEF Spares
  <2>2. CASE Has(s)
    BY <1>1, <2>1, <2>2 DEF Spares
  <2>3. CASE ~Has(s)
    <3>1. PICK r \in Requests : req[r].at \in {"check", "set"} /\ req[r].id = s
      BY <2>1, <2>3 DEF Served, Earned, Stale
    <3>2. req'[r] = req[r]
      BY <1>4, <3>1 DEF Spares
    <3> QED
      BY <3>1, <3>2 DEF Stale
  <2> QED
    BY <2>2, <2>3
<1> QED
  BY <1>2, <1>3, <1>4 DEF Served, Earned

\* A request at work is for a server that is configured, and alone with it.
LEMMA AtWork ==
    ASSUME HooksInv, OneEach, NEW q \in Requests, req[q].at # "idle"
    PROVE  /\ req[q] # Idle /\ req[q].id \in configured /\ req[q].id \in Servers
           /\ req[q].path \in Paths \cup {NoPath} /\ req[q].ok \in BOOLEAN
           /\ \A r \in Requests \ {q} : req[r] # Idle => req[r].id # req[q].id
<1>1. req[q] \in Request /\ RequestStands(q) /\ configured \subseteq Servers
  BY DEF HooksInv, Served, FilesInv, FilesTyped
<1>2. req[q] # Idle
  BY RequestForm
<1>3. req[q] \in Asking
  BY <1>1, <1>2, RequestForm
<1> QED
  BY <1>1, <1>2, <1>3 DEF Asking, RequestStands, OneEach

\* A request that is made is alone with its server.
LEMMA AskedAlone ==
    ASSUME HooksInv, OneEach', NEW q \in Requests,
           NEW o \in {"add", "deploy", "patch", "remove"}, NEW id \in Servers,
           NEW p \in Paths \cup {NoPath}, NEW w \in Places, Asks(q, o, id, p, w)
    PROVE  /\ req[q].at = "idle"
           /\ \A r \in Requests \ {q} : req'[r] = req[r] /\ (req[r] # Idle => req[r].id # id)
<1>1. /\ req[q] = Idle /\ req'[q] # Idle /\ req'[q].id = id
      /\ \A r \in Requests \ {q} : req'[r] = req[r]
  BY RequestAsks DEF HooksInv, FilesInv
<1> QED
  BY <1>1, RequestForm DEF OneEach

\* Steps that only look set the flag from what they or the request have seen.
LEMMA LooksKeepServed ==
    ASSUME HooksInv, OneEach, OneEach', NEW q \in Requests, Looks(q), running' \subseteq Servers
    PROVE  Served'
<1>0. FilesInv
  BY DEF HooksInv
<1>1. UNCHANGED <<version, configured, path, file, disturbed, unwritten>>
  BY DEF Looks, DeployHook, RemoveServer, StartInstance, MarkDeployed, RefreshHookStatus,
         SetStatus, FindHook
<1>2. \A s : Has(s)' <=> Has(s)
  BY <1>1 DEF Has
<1>3. /\ running \subseteq configured /\ RequestStands(q) /\ configured \subseteq Servers
      /\ flag \in [Servers -> BOOLEAN] /\ path \in [Servers -> Paths \cup {NoPath}] /\ Earned
      /\ FilesTyped
  BY DEF HooksInv, Served, FilesInv, FilesTyped
<1>4. {"write", "unhook"} \subseteq Places /\ NoPath \in Paths \cup {NoPath}
      /\ {"deploy", "remove"} \subseteq {"add", "deploy", "patch", "remove"}
  BY DEF Places
<1>5. ASSUME NEW s \in Servers, DeployHook(q, s) PROVE Served'
  <2>1. path[s] \in Paths /\ Asks(q, "deploy", s, path[s], "write") /\ s \in configured
        /\ UNCHANGED <<running, flag>>
    BY <1>3, <1>5 DEF DeployHook
  <2>2. /\ req'[q].id = s /\ req'[q].path = path[s] /\ req'[q].at = "write"
        /\ req[q].at = "idle"
        /\ \A r \in Requests \ {q} : req'[r] = req[r] /\ (req[r] # Idle => req[r].id # s)
    BY <1>3, <1>4, <2>1, RequestAsks, AskedAlone
  <2>3. Spares(q, s)
    BY <1>1, <1>2, <2>1, <2>2 DEF Spares
  <2>4. RequestStands(q)'
    BY <1>1, <2>1, <2>2 DEF RequestStands
  <2>5. s \in running' /\ flag'[s] => Stale(s)' \/ Has(s)'
    <3>1. SUFFICES ASSUME s \in running, flag[s] PROVE Has(s)
      BY <1>2, <2>1
    <3> QED
      BY <1>3, <2>2, <3>1, RequestForm DEF Earned, Stale
  <2> QED
    BY <1>1, <2>1, <2>3, <2>4, <2>5, SparesServed
<1>6. ASSUME NEW s \in Servers, RemoveServer(q, s) PROVE Served'
  <2>1. Asks(q, "remove", s, NoPath, "unhook") /\ s \in configured
        /\ running' = running \ {s} /\ flag' = [flag EXCEPT ![s] = FALSE]
    BY <1>6 DEF RemoveServer, Without
  <2>2. /\ req'[q].id = s /\ req'[q].at = "unhook" /\ req[q].at = "idle"
        /\ \A r \in Requests \ {q} : req'[r] = req[r] /\ (req[r] # Idle => req[r].id # s)
    <3>1. req'[q].id = s /\ req'[q].at = "unhook"
      BY <1>3, <1>4, <2>1, RequestAsks
    <3> QED
      BY <1>4, <2>1, <3>1, AskedAlone
  <2>3. Spares(q, s)
    BY <1>1, <1>2, <1>3, <2>1, <2>2 DEF Spares
  <2>4. RequestStands(q)'
    BY <1>1, <2>1, <2>2 DEF RequestStands
  <2> QED
    BY <2>1, <2>3, <2>4, SparesServed
<1>7. ASSUME req[q].at # "idle",
             StartInstance(q) \/ MarkDeployed(q) \/ RefreshHookStatus(q) \/ SetStatus(q) \/ FindHook(q)
      PROVE  Served'
  <2>0. PICK id \in Servers : id = req[q].id
    BY <1>7, AtWork
  <2>1. /\ req[q] # Idle /\ id \in configured
        /\ req[q].path \in Paths \cup {NoPath} /\ req[q].ok \in BOOLEAN
        /\ \A r \in Requests \ {q} : req[r] # Idle => req[r].id # id
    BY <1>7, <2>0, AtWork
  <2>2. /\ \A r \in Requests \ {q} : req'[r] = req[r]
        /\ \A s \in Servers \ {id} : flag'[s] = flag[s] /\ (s \in running' <=> s \in running)
    <3>1. Ends(q) \/ Goes(q, "write") \/ RefreshHookStatus(q) \/ FindHook(q)
      BY <1>7 DEF StartInstance, MarkDeployed, SetStatus
    <3>2. \A r \in Requests \ {q} : req'[r] = req[r]
      BY <1>3, <1>4, <1>7, <3>1, RequestEnds, RequestGoes, RequestReads
    <3>3. \A s \in Servers \ {id} : flag'[s] = flag[s] /\ (s \in running' <=> s \in running)
      BY <1>3, <1>7, <2>0, <2>1 DEF StartInstance, MarkDeployed, RefreshHookStatus, SetStatus, FindHook
    <3> QED
      BY <3>2, <3>3
  <2>3. Spares(q, id)
    BY <1>1, <1>2, <2>0, <2>1, <2>2 DEF Spares
  <2>4. SUFFICES /\ RequestStands(q)'
                 /\ id \in running' /\ flag'[id] => Stale(id)' \/ Has(id)'
    BY <1>1, <2>0, <2>1, <2>3, SparesServed
  <2>5. CASE StartInstance(q)
    <3>1. /\ req[q].at = "start" /\ flag'[id] = IsDeployed(path[id], id)
          /\ IF req[q].path = NoPath THEN Ends(q) ELSE Goes(q, "write")
      BY <1>3, <2>0, <2>1, <2>5 DEF StartInstance, At
    <3>2. RequestStands(q)'
      <4>1. CASE req[q].path = NoPath
        BY <1>3, <2>0, <3>1, <4>1, RequestEnds DEF RequestStands
      <4>2. CASE req[q].path # NoPath
        <5>1. req'[q].id = id /\ req'[q].path = req[q].path /\ req'[q].at = "write"
          BY <1>3, <1>4, <2>0, <3>1, <4>2, RequestGoes
        <5> QED
          BY <1>1, <1>3, <2>0, <2>1, <3>1, <5>1 DEF RequestStands
      <4> QED
        BY <4>1, <4>2
    <3>3. flag'[id] => Has(id)'
      BY <1>0, <1>2, <2>0, <2>1, <3>1, DeployedMeans
    <3> QED
      BY <3>2, <3>3
  <2>6. CASE MarkDeployed(q)
    <3>1. req[q].at = "flag" /\ Ends(q)
      BY <2>6 DEF MarkDeployed, At
    <3>2. RequestStands(q)'
      BY <1>3, <2>0, <3>1, RequestEnds DEF RequestStands
    <3>3. Has(id)'
      BY <1>2, <1>3, <2>0, <3>1 DEF RequestStands
    <3> QED
      BY <3>2, <3>3
  <2>7. CASE RefreshHookStatus(q)
    <3>1. /\ req[q].at = "check" /\ req'[q].at = "set" /\ req'[q].id = id
          /\ req'[q].ok = (id \in configured /\ IsDeployed(path[id], id))
      <4>1. /\ req[q].at = "check" /\ req'[q].at = "set" /\ req'[q].id = req[q].id
            /\ req'[q].ok = (req[q].id \in configured /\ IsDeployed(path[req[q].id], req[q].id))
        BY <1>3, <2>7, RequestReads DEF RefreshHookStatus, At
      <4> QED
        BY <2>0, <4>1, Zenon
    <3>2. req'[q].ok => Has(id)'
      BY <1>0, <1>2, <2>0, <2>1, <3>1, DeployedMeans
    <3>3. RequestStands(q)'
      BY <1>1, <2>0, <2>1, <3>1, <3>2 DEF RequestStands
    <3>4. Stale(id)'
      BY <3>1 DEF Stale
    <3> QED
      BY <3>3, <3>4
  <2>8. CASE SetStatus(q)
    <3>1. /\ req[q].at = "set" /\ running' = running /\ Ends(q)
          /\ id \in running => flag'[id] = req[q].ok
      BY <1>3, <2>0, <2>1, <2>8 DEF SetStatus, At
    <3>2. RequestStands(q)'
      BY <1>3, <2>0, <3>1, RequestEnds DEF RequestStands
    <3>3. id \in running' /\ flag'[id] => Has(id)'
      BY <1>2, <1>3, <2>0, <3>1 DEF RequestStands
    <3> QED
      BY <3>2, <3>3
  <2>9. CASE FindHook(q)
    <3>1. /\ req[q].at = "unhook" /\ running' = running
          /\ req'[q].id = id /\ req'[q].path = path[id] /\ req'[q].at \in {"delete", "forget"}
      <4>1. req[q].at = "unhook" /\ running' = running
        BY <2>9 DEF FindHook, At
      <4>2. /\ req'[q].id = req[q].id
            /\ req[q].id \in configured => req'[q].path = path[req[q].id]
            /\ req'[q].at \in {"delete", "forget"}
        BY <1>3, <2>9, RequestReads
      <4> QED
        BY <2>0, <2>1, <4>1, <4>2
    <3>2. id \notin running
      BY <1>3, <2>0, <3>1 DEF RequestStands
    <3>3. RequestStands(q)'
      BY <1>1, <2>0, <2>1, <3>1, <3>2 DEF RequestStands
    <3> QED
      BY <3>1, <3>2, <3>3
  <2> QED
    BY <1>7, <2>5, <2>6, <2>7, <2>8, <2>9
<1> QED
  BY <1>5, <1>6, <1>7 DEF Looks, StartInstance, MarkDeployed, RefreshHookStatus, SetStatus,
     FindHook, At

\* While a folder is changed only that server's flag is stale.
LEMMA ConfigKeepsServed ==
    ASSUME HooksInv, OneEach, OneEach', NEW q \in Requests,
           \/ \E s \in Servers, p \in Paths \cup {NoPath} : AddServer(q, s, p)
           \/ \E s \in Servers, p \in Paths : UpdateServer(q, s, p)
           \/ ForgetServer(q)
    PROVE  Served'
<1>1. UNCHANGED <<version, running, flag, file>> /\ disturbed \subseteq disturbed'
  BY DEF AddServer, UpdateServer, ForgetServer
<1>2. /\ running \subseteq configured /\ RequestStands(q) /\ configured \subseteq Servers
      /\ path \in [Servers -> Paths \cup {NoPath}] /\ FilesTyped /\ running' \subseteq Servers
  BY <1>1 DEF HooksInv, Served, FilesInv, FilesTyped
<1>3. ASSUME NEW s, path'[s] = path[s] PROVE Has(s) => Has(s)'
  BY <1>1, <1>3, HasStays DEF Has
<1>4. {"start", "check"} \subseteq Places /\ Paths \subseteq Paths \cup {NoPath}
      /\ {"add", "patch"} \subseteq {"add", "deploy", "patch", "remove"}
  BY DEF Places
<1>5. ASSUME NEW s \in Servers, NEW p \in Paths \cup {NoPath}, AddServer(q, s, p) PROVE Served'
  <2>1. Asks(q, "add", s, p, "start") /\ s \notin configured
        /\ configured' = configured \cup {s} /\ path' = [path EXCEPT ![s] = p]
    BY <1>5 DEF AddServer
  <2>2. /\ req'[q].at = "start" /\ req'[q].id = s /\ req'[q].path = p /\ req[q].at = "idle"
        /\ \A r \in Requests \ {q} : req'[r] = req[r] /\ (req[r] # Idle => req[r].id # s)
    BY <1>2, <1>4, <2>1, RequestAsks, AskedAlone
  <2>3. Spares(q, s)
    BY <1>1, <1>2, <1>3, <2>1, <2>2 DEF Spares
  <2>4. RequestStands(q)'
    BY <1>2, <2>1, <2>2 DEF RequestStands
  <2> QED
    BY <1>1, <1>2, <2>1, <2>3, <2>4, SparesServed
<1>6. ASSUME NEW s \in Servers, NEW p \in Paths, UpdateServer(q, s, p) PROVE Served'
  <2>1. Asks(q, "patch", s, p, "check") /\ s \in configured
        /\ configured' = configured /\ path' = [path EXCEPT ![s] = p]
    BY <1>6 DEF UpdateServer
  <2>2. /\ req'[q].at = "check" /\ req'[q].id = s /\ req[q].at = "idle"
        /\ \A r \in Requests \ {q} : req'[r] = req[r] /\ (req[r] # Idle => req[r].id # s)
    BY <1>2, <1>4, <2>1, RequestAsks, AskedAlone
  <2>3. Spares(q, s)
    BY <1>1, <1>2, <1>3, <2>1, <2>2 DEF Spares
  <2>4. RequestStands(q)' /\ Stale(s)'
    BY <2>1, <2>2 DEF RequestStands, Stale
  <2> QED
    BY <1>1, <1>2, <2>1, <2>3, <2>4, SparesServed
<1>7. CASE ForgetServer(q)
  <2>0. PICK id \in Servers : id = req[q].id /\ req[q].at = "forget"
    BY <1>7, AtWork DEF ForgetServer, At
  <2>1. req[q].at = "forget" /\ configured' = configured \ {id} /\ Ends(q)
        /\ path' = [path EXCEPT ![id] = NoPath]
    BY <1>7, <2>0 DEF ForgetServer, At
  <2>2. id \notin running
    BY <1>2, <2>0, <2>1 DEF RequestStands
  <2>3. /\ \A r \in Requests \ {q} : req'[r] = req[r] /\ (req[r] # Idle => req[r].id # id)
        /\ RequestStands(q)'
    BY <1>2, <2>0, <2>1, RequestEnds, AtWork DEF RequestStands
  <2>4. Spares(q, id)
    BY <1>1, <1>2, <1>3, <2>0, <2>1, <2>3 DEF Spares
  <2> QED
    BY <1>1, <1>2, <2>2, <2>3, <2>4, SparesServed
<1> QED
  BY <1>5, <1>6, <1>7

\* A request writes where its server is configured to be.
LEMMA WritesKeepServed ==
    ASSUME HooksInv, OneEach, OneEach', NEW q \in Requests,
           Deploy(q) \/ DeployFails(q) \/ DeleteHook(q) \/ DeleteFails(q)
    PROVE  Served'
<1> DEFINE p == req[q].path
<1>0. FilesInv
  BY DEF HooksInv
<1>1. /\ UNCHANGED <<version, configured, path, running, flag>> /\ disturbed \subseteq disturbed'
      /\ req[q].at \in {"write", "delete"}
  BY DEF Deploy, DeployFails, DeleteHook, DeleteFails, At
<1>2. /\ running \subseteq configured /\ RequestStands(q) /\ configured \subseteq Servers
      /\ file \in [Paths -> File] /\ FilesTyped /\ running' \subseteq Servers /\ Earned
  BY <1>1 DEF HooksInv, Served, FilesInv, FilesTyped
<1>id. PICK id \in Servers : id = req[q].id
  BY <1>1, AtWork
<1>3. /\ id \in configured /\ p \in Paths /\ path[id] = p
      /\ \A r \in Requests \ {q} : req[r] # Idle => req[r].id # id
  BY <1>0, <1>1, <1>2, <1>id, AtWork DEF RequestStands, FilesInv, FolderNamed
<1>4. \A r \in Paths \ {p} : file'[r] = file[r]
  BY <1>2, <1>3, <1>id DEF Deploy, DeployFails, DeleteHook, DeleteFails
<1>5. {"flag", "forget"} \subseteq Places
  BY DEF Places
<1>6. \A r \in Requests \ {q} : req'[r] = req[r]
  <2>1. Goes(q, "flag") \/ Goes(q, "forget") \/ Ends(q)
    BY DEF Deploy, DeployFails, DeleteHook, DeleteFails
  <2> QED
    BY <1>1, <1>2, <1>5, <2>1, RequestGoes, RequestEnds
<1>7. Spares(q, id)
  <2>1. ASSUME NEW s \in configured, s # id, Has(s) PROVE Has(s)'
    <3>1. path[s] = p => p \in disturbed
      BY <1>0, <1>2, <1>3, <2>1, OthersAreSharing
    <3> QED
      BY <1>1, <1>4, <2>1, <3>1, HasStays DEF Has
  <2> QED
    BY <1>1, <1>3, <1>6, <1>id, <2>1 DEF Spares
<1>8. SUFFICES /\ RequestStands(q)'
               /\ id \in running' /\ flag'[id] => Has(id)'
  BY <1>1, <1>2, <1>3, <1>7, SparesServed
<1>9. CASE Deploy(q)
  <2>1. req[q].at = "write" /\ file' = [file EXCEPT ![p] = Managed(id, version)]
        /\ IF req[q].op = "deploy" THEN Goes(q, "flag") ELSE Ends(q)
    BY <1>9, <1>id DEF Deploy, At
  <2>2. Has(id)'
    BY <1>1, <1>2, <1>3, <2>1 DEF Has
  <2>3. CASE req[q].op = "deploy"
    <3>1. req'[q].id = id /\ req'[q].path = p /\ req'[q].at = "flag"
      BY <1>2, <1>5, <2>1, <2>3, <1>id, RequestGoes
    <3> QED
      BY <1>1, <1>3, <2>2, <3>1 DEF RequestStands
  <2>4. CASE req[q].op # "deploy"
    BY <1>2, <2>1, <2>2, <2>4, RequestEnds DEF RequestStands
  <2> QED
    BY <2>3, <2>4
<1>10. CASE DeployFails(q)
  <2>1. p \in disturbed' /\ Ends(q)
    BY <1>10 DEF DeployFails
  <2>2. Has(id)'
    BY <1>1, <1>3, <2>1 DEF Has
  <2>3. RequestStands(q)'
    BY <1>2, <2>1, RequestEnds DEF RequestStands
  <2> QED
    BY <2>2, <2>3
<1>11. CASE DeleteHook(q) \/ DeleteFails(q)
  <2>1. req[q].at = "delete" /\ Goes(q, "forget")
    BY <1>11 DEF DeleteHook, DeleteFails, At
  <2>2. req'[q].id = id /\ req'[q].at = "forget"
    BY <1>2, <1>5, <2>1, <1>id, RequestGoes
  <2>3. id \notin running
    BY <1>2, <1>id, <2>1 DEF RequestStands
  <2> QED
    BY <1>1, <1>3, <2>2, <2>3 DEF RequestStands
<1> QED
  BY <1>9, <1>10, <1>11

\* The user may spoil any hook, but is known to.
LEMMA UserKeepsServed ==
    ASSUME HooksInv, NEW p \in Paths, NEW f \in {NoFile, Foreign}, UserTouches(p, f)
    PROVE  Served'
<1> USE DEF HooksInv, FilesInv
<1>1. /\ UNCHANGED <<version, configured, path, running, flag, req>>
      /\ file' = [file EXCEPT ![p] = f] /\ disturbed' = disturbed \cup {p}
      /\ file \in [Paths -> File]
  BY DEF UserTouches, FilesTyped
<1>2. ASSUME NEW t, Has(t) PROVE Has(t)'
  <2>1. file'[path[t]] = file[path[t]] \/ path[t] \in disturbed'
    BY <1>1, <1>2 DEF Has
  <2> QED
    BY <1>1, <1>2, <2>1, HasStays
<1>3. ASSUME NEW q \in Requests PROVE RequestStands(q)'
  <2>1. RequestStands(q)
    BY DEF Served
  <2> QED
    BY <1>1, <1>2, <2>1 DEF RequestStands
<1>4. \A t : Stale(t)' <=> Stale(t)
  BY <1>1 DEF Stale
<1>5. Earned'
  BY <1>1, <1>2, <1>4 DEF Earned, Served
<1> QED
  BY <1>1, <1>3, <1>5 DEF Served

\* A start refreshes all flags.
LEMMA BootKeepsServed ==
    ASSUME HooksInv, NEW v \in 0 .. MaxVersion, Boot(v)
    PROVE  Served'
<1> USE DEF HooksInv
<1>1. /\ running' = configured /\ configured' = configured /\ configured \subseteq Servers
      /\ flag' = [s \in Servers |-> s \in configured /\ IsDeployed(path[s], s)']
      /\ req' = [q \in Requests |-> Idle]
  BY DEF Boot, FilesInv, FilesTyped
<1>2. FilesInv'
  BY BootKeepsFiles
<1>3. ASSUME NEW s \in Servers, IsDeployed(path[s], s)' PROVE Has(s)'
  BY <1>2, <1>3, DeployedMeans, PTL
<1>4. Earned'
  BY <1>1, <1>3 DEF Earned
<1>5. \A q \in Requests : RequestStands(q)'
  BY <1>1, RequestForm DEF RequestStands
<1> QED
  BY <1>1, <1>4, <1>5 DEF Served

\* Every step of the program, the requests and the user.
LEMMA HooksStep ==
    ASSUME HooksInv, OneEach, OneEach',
           \/ \E v \in 0 .. MaxVersion : Boot(v)
           \/ \E q \in Requests : RequestNext(q)
           \/ \E p \in Paths, f \in {NoFile, Foreign} : UserTouches(p, f)
           \/ UNCHANGED vars
    PROVE  HooksInv'
<1>1. FilesInv'
  BY FilesStep DEF HooksInv
<1>2. ASSUME NEW q \in Requests, RequestNext(q)
      PROVE  Served'
  <2>1. running' \subseteq Servers
    BY <1>1 DEF FilesInv, FilesTyped
  <2> QED
    BY <1>2, <2>1, LooksKeepServed, ConfigKeepsServed, WritesKeepServed DEF RequestNext, Looks
<1>3. ASSUME UNCHANGED vars PROVE Served'
  <2>1. UNCHANGED <<version, configured, path, running, flag, file, req, disturbed>>
    BY <1>3 DEF vars
  <2>2. \A s : (Has(s)' <=> Has(s)) /\ (Stale(s)' <=> Stale(s))
    BY <2>1 DEF Has, Stale
  <2>3. \A q \in Requests : RequestStands(q) => RequestStands(q)'
    BY <2>1, <2>2 DEF RequestStands
  <2> QED
    BY <2>1, <2>2, <2>3 DEF HooksInv, Served, Earned
<1>4. ASSUME NEW v \in 0 .. MaxVersion, Boot(v) PROVE Served'
  BY <1>4, BootKeepsServed
<1>5. ASSUME NEW p \in Paths, NEW f \in {NoFile, Foreign}, UserTouches(p, f) PROVE Served'
  BY <1>5, UserKeepsServed
<1>6. Served'
  BY <1>2, <1>3, <1>4, <1>5
<1> QED
  BY <1>1, <1>6 DEF HooksInv

\* While no two requests are for the same server, besides: where a request is says what
\* its server has, and no flag but that of a server under change is stale.
THEOREM HooksInvariance == InstallSpec /\ []OneEach => []HooksInv
<1>1. InstallInit => HooksInv
  <2>1. Init => Served
    BY RequestForm DEF Init, Served, RequestStands, Earned
  <2> QED
    BY <2>1, FilesInit DEF InstallInit, HooksInv
<1>2. HooksInv /\ OneEach /\ OneEach' /\ [InstallNext]_allVars => HooksInv'
  BY InstallStep, HooksStep
<1> QED
  BY <1>1, <1>2, PTL DEF InstallSpec

\* While no two requests are for the same server, one that no request is for, and that is
\* shown as deployed, has the whole hook of the program that runs in its folder, for its
\* port, whatever requests for other servers are being served.  (HookDeployed)
FlagOfIdleIsEarned ==
    \A s \in running :
        flag[s] /\ (\A q \in Requests : req[q] # Idle => req[q].id # s) => Has(s)

\* No matter which other servers are being added, changed or removed, FlagOfIdleIsEarned
\* holds of those that are not.
THEOREM IdleFlagsAreEarned == InstallSpec /\ []OneEach => []FlagOfIdleIsEarned
<1>1. HooksInv => FlagOfIdleIsEarned
  BY RequestForm DEF HooksInv, Served, Earned, Stale, FlagOfIdleIsEarned
<1> QED
  BY <1>1, HooksInvariance, PTL

\* With that, a server that is shown as deployed has its hook once no request is being
\* served, for any number of servers, folders, updates and restarts.  (HookDeployed)
THEOREM FlagsEarnedTogether == InstallSpec /\ []OneEach => []FlagIsEarned
<1>1. HooksInv => FlagIsEarned
  <2> SUFFICES ASSUME HooksInv PROVE FlagIsEarned
    OBVIOUS
  <2>1. HookFilesTypeOK
    BY DEF HooksInv, FilesInv, FilesTyped, SharingKnown, Served, HookFilesTypeOK
  <2>2. ASSUME Quiet, NEW s \in running, flag[s]
        PROVE  path[s] \in disturbed \/ file[path[s]] = Managed(s, version)
    <3>1. ~Stale(s)
      BY <2>2, RequestForm DEF Quiet, Stale
    <3> QED
      BY <2>2, <3>1 DEF HooksInv, Served, Earned, Has
  <2> QED
    BY <2>1, <2>2 DEF FlagIsEarned
<1> QED
  BY <1>1, HooksInvariance, PTL

\* In particular when one request is served at a time, as in the run.  (HookDeployed)
THEOREM FlagsAreEarned ==
    ASSUME OneAtATime
    PROVE  InstallSpec => []FlagIsEarned
<1>1. OneEach
  BY DEF OneAtATime, OneEach
<1> QED
  BY <1>1, FlagsEarnedTogether, PTL
=============================================================================
