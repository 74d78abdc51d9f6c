------------------------------- MODULE Install -------------------------------
(***************************************************************************)
(* The installed program and the hooks it has deployed: Updater replaces   *)
(* the one, and every start of the program, by the user or by the script,  *)
(* brings the others up to date (HookFiles' Boot, from main.go).  Requests *)
(* are served while the program runs; one that is cut off when it ends     *)
(* leaves what it had done.                                                *)
(***************************************************************************)
EXTENDS HookFiles

CONSTANTS Applies, NoApply      \* Updater's

\* The old program's hooks and the new one's are told apart.
ASSUME InstallAssumption == MaxVersion >= 1

VARIABLES runs, exe, luaDir, apply, staged, bat, script, busy, crossed  \* Updater's

Program == INSTANCE Updater

programVars == <<runs, exe, luaDir, apply, staged, bat, script, busy, crossed>>
allVars == <<vars, programVars>>

InstallInit == Init /\ Program!Init

Number(v) == IF v = "new" THEN 1 ELSE 0

\* main deploys the hooks to all configured servers before it serves anything.
Boots ==
    IF runs = Program!Down /\ runs' # Program!Down THEN Boot(Number(runs'))
                                                   ELSE UNCHANGED vars

ScriptStep(a) == Program!ScriptNext(a) /\ Boots
Exits(a) == Program!Exit(a) /\ Boots

ProgramNext ==
    \/ Program!Start \/ Program!Stop
    \/ \E a \in Applies : Program!ApplyNext(a) \/ Program!ScriptNext(a)

InstallNext ==
    \/ ProgramNext /\ Boots
    \/ /\ \/ runs # Program!Down /\ \E q \in Requests : RequestNext(q)
          \/ \E p \in Paths, f \in {NoFile, Foreign} : UserTouches(p, f)
       /\ UNCHANGED programVars

\* A script that is launched goes on, as does an Apply that has launched one.
InstallSpec ==
    /\ InstallInit /\ [][InstallNext]_allVars
    /\ \A a \in Applies : WF_allVars(ScriptStep(a)) /\ WF_allVars(Exits(a))

------------------------------------------------------------------------------
(* Properties.                                                             *)

ScriptInstalls == Program!UpdaterTypeOK /\ Program!ScriptInstalls

\* Every folder in use has the new version's hook, for a server that is
\* configured with it.
InSync ==
    \A p \in Paths \ (disturbed \cup unwritten) :
        Users(p) # {} => \E s \in Users(p) : file[p] = Managed(s, 1)

\* "it'll download the new release, swap the exe, and restart" (README.md:118),
\* and "Deploy hooks to all configured servers on startup (keeps Lua in sync with
\* binary version after self-update)" (main.go:49): when an update has gone as
\* far as its script, the new program comes to run, with its hooks in every
\* folder in use, although the program is closed and started by hand between any
\* two lines of the script, unless that was under the very hands of its copy.
HooksFollow ==
    \A a \in Applies :
        script[a] = "kill" ~> (runs = "new" /\ InSync) \/ a \in busy \/ crossed
=============================================================================
