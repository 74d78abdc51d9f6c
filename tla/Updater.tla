------------------------------- MODULE Updater -------------------------------
(***************************************************************************)
(* The program replaces itself (internal/updater/updater.go, and           *)
(* handleUpdateApply in internal/web/server.go).  Apply stages the new exe *)
(* in a folder of its own, writes a batch script, launches it and exits;   *)
(* the script kills whatever still runs under the program's name, copies   *)
(* the new exe over the old, starts it, and clears up, itself included.    *)
(*                                                                         *)
(* Every Apply writes the script under the SAME name, and cmd.exe reads a  *)
(* script line by line from the file as it then is.  The waits between the *)
(* lines are not modelled: steps may come in any order they allow.         *)
(*                                                                         *)
(* An operator with an underscore in its name is a slip: its namesake as a *)
(* plausible mistake would leave it.                                       *)
(***************************************************************************)
CONSTANTS
    Applies,    \* requests to apply an update
    NoApply     \* none of them

VARIABLES
    runs,       \* the version of the program that serves the dashboard, or none
    exe,        \* the installed one
    luaDir,     \* the lua folder of older versions is there
    apply,      \* the step each Apply is at
    staged,     \* staging folders, each holding a new exe
    bat,        \* the script: the Apply whose folder it names, or none, and
                \* whether it is written to its end
    script,     \* the line each launched script is at
    busy,       \* for the properties: Applies whose copy found the exe in use,
    crossed     \* and whether one has come while another was in hand

vars == <<runs, exe, luaDir, apply, staged, bat, script, busy, crossed>>

Versions == {"old", "new"}
Down == "none"

NoBat == [of |-> NoApply, whole |-> FALSE]

Init ==
    /\ runs = Down /\ exe = "old"
    /\ luaDir = TRUE
    /\ apply = [a \in Applies |-> "none"]
    /\ staged = {}
    /\ bat = NoBat
    /\ script = [a \in Applies |-> "none"]
    /\ busy = {} /\ crossed = FALSE

Goes(a, where) == apply' = [apply EXCEPT ![a] = where]

\* The goroutines of the program end with it.
Ended == [a \in Applies |-> IF apply[a] = "none" THEN "none" ELSE "over"]
InHand == {a \in Applies : apply[a] \notin {"none", "over"} \/ script[a] \notin {"none", "ended"}}

------------------------------------------------------------------------------
(* The program.                                                            *)

\* The user, or a scheduled task, starts the program.
Start ==
    /\ runs = Down
    /\ runs' = exe
    /\ UNCHANGED <<exe, luaDir, apply, staged, bat, script, busy, crossed>>

\* It is closed, or fails.
Stop ==
    /\ runs # Down
    /\ runs' = Down
    /\ apply' = Ended
    /\ UNCHANGED <<exe, luaDir, staged, bat, script, busy, crossed>>

\* handleUpdateApply, whatever the version GitHub names is.
Ask(a) ==
    /\ runs # Down
    /\ apply[a] = "none"
    /\ Goes(a, "download")
    /\ crossed' = (crossed \/ InHand # {})
    /\ UNCHANGED <<runs, exe, luaDir, staged, bat, script, busy>>

\* Slip: nobody looks whether the exe was in the zip.
Extracted_Unchecked(a) == staged

Extracted(a) == staged \cup {a}

\* The zip is downloaded to a file of its own and extracted; the new exe is in it.
Stage(a) ==
    /\ apply[a] = "download"
    /\ staged' = Extracted(a)
    /\ Goes(a, "staged")
    /\ UNCHANGED <<runs, exe, luaDir, bat, script, busy, crossed>>

\* Every failure ends Apply; a staging folder that was made stays.
Fail(a) ==
    /\ apply[a] \in {"download", "staged", "opened", "written"}
    /\ Goes(a, "over")
    /\ UNCHANGED <<runs, exe, luaDir, staged, bat, script, busy, crossed>>

\* WriteFile empties the script and writes it.
OpenScript(a) ==
    /\ apply[a] = "staged"
    /\ bat' = [of |-> a, whole |-> FALSE]
    /\ Goes(a, "opened")
    /\ UNCHANGED <<runs, exe, luaDir, staged, script, busy, crossed>>

WriteScript(a) ==
    /\ apply[a] = "opened"
    /\ bat' = [of |-> a, whole |-> TRUE]
    /\ Goes(a, "written")
    /\ UNCHANGED <<runs, exe, luaDir, staged, script, busy, crossed>>

Launch(a) ==
    /\ apply[a] = "written"
    /\ script' = [script EXCEPT ![a] = "kill"]
    /\ Goes(a, "launched")
    /\ UNCHANGED <<runs, exe, luaDir, staged, bat, busy, crossed>>

\* os.Exit, half a second later.
Exit(a) ==
    /\ apply[a] = "launched"
    /\ runs' = Down
    /\ apply' = Ended
    /\ UNCHANGED <<exe, luaDir, staged, bat, script, busy, crossed>>

------------------------------------------------------------------------------
(* The script.                                                             *)

\* Slips: the script clears up too early; it leaves the lua folder; it does not
\* start the program.
NextLine_CleanFirst ==
    [kill |-> "clean", clean |-> "copy", copy |-> "tidy", tidy |-> "start",
     start |-> "delete", delete |-> "ended"]
NextLine_NoTidy ==
    [kill |-> "copy", copy |-> "start", tidy |-> "start", start |-> "clean",
     clean |-> "delete", delete |-> "ended"]
NextLine_NoStart ==
    [kill |-> "copy", copy |-> "tidy", tidy |-> "clean", start |-> "clean",
     clean |-> "delete", delete |-> "ended"]

NextLine ==
    [kill |-> "copy", copy |-> "tidy", tidy |-> "start", start |-> "clean",
     clean |-> "delete", delete |-> "ended"]

\* A line is read from the file as it is now.
Reads(a, line) == script[a] = line /\ bat.whole
Advances(a) == script' = [script EXCEPT ![a] = NextLine[@]]

\* The file is gone or cut short: cmd.exe gives up.
Breaks(a) ==
    /\ script[a] \in DOMAIN NextLine /\ ~bat.whole
    /\ script' = [script EXCEPT ![a] = "ended"]
    /\ UNCHANGED <<runs, exe, luaDir, apply, staged, bat, busy, crossed>>

Kill(a) ==
    /\ Reads(a, "kill")
    /\ runs' = Down
    /\ apply' = Ended
    /\ Advances(a)
    /\ UNCHANGED <<exe, luaDir, staged, bat, busy, crossed>>

\* copy /y: nothing tests whether it succeeds.
Copy(a) ==
    /\ Reads(a, "copy")
    /\ exe' = IF runs = Down /\ bat.of \in staged THEN "new" ELSE exe
    /\ busy' = IF runs = Down THEN busy ELSE busy \cup {a}
    /\ Advances(a)
    /\ UNCHANGED <<runs, luaDir, apply, staged, bat, crossed>>

Tidy(a) ==
    /\ Reads(a, "tidy")
    /\ luaDir' = FALSE
    /\ Advances(a)
    /\ UNCHANGED <<runs, exe, apply, staged, bat, busy, crossed>>

\* A second instance cannot listen and ends.
Restart(a) ==
    /\ Reads(a, "start")
    /\ runs' = IF runs = Down THEN exe ELSE runs
    /\ Advances(a)
    /\ UNCHANGED <<exe, luaDir, apply, staged, bat, busy, crossed>>

Clean(a) ==
    /\ Reads(a, "clean")
    /\ staged' = staged \ {bat.of}
    /\ Advances(a)
    /\ UNCHANGED <<runs, exe, luaDir, apply, bat, busy, crossed>>

\* del "%~f0"
Delete(a) ==
    /\ Reads(a, "delete")
    /\ bat' = NoBat
    /\ Advances(a)
    /\ UNCHANGED <<runs, exe, luaDir, apply, staged, busy, crossed>>

ScriptNext(a) ==
    Kill(a) \/ Copy(a) \/ Tidy(a) \/ Restart(a) \/ Clean(a) \/ Delete(a) \/ Breaks(a)

ApplyNext(a) ==
    \/ Ask(a) \/ Stage(a) \/ Fail(a)
    \/ OpenScript(a) \/ WriteScript(a) \/ Launch(a) \/ Exit(a)

Next == Start \/ Stop \/ \E a \in Applies : ApplyNext(a) \/ ScriptNext(a)

Spec == Init /\ [][Next]_vars

------------------------------------------------------------------------------
(* Properties, of updates that are applied one after the other.  Two at    *)
(* once share the script: the first to end deletes it, or the second       *)
(* rewrites it, under the other's hands (Breaks).                          *)

Staging(a) == apply[a] \in {"staged", "opened", "written", "launched"}

UpdaterTypeOK ==
    /\ runs \in Versions \cup {Down} /\ exe \in Versions
    /\ luaDir \in BOOLEAN
    /\ apply \in [Applies -> {"none", "download", "staged", "opened", "written",
                              "launched", "over"}]
    /\ staged \subseteq Applies
    /\ bat \in [of : Applies \cup {NoApply}, whole : BOOLEAN]
    /\ script \in [Applies -> DOMAIN NextLine \cup {"none", "ended"}]
    /\ busy \subseteq Applies /\ crossed \in BOOLEAN

\* Before it copies, a script finds itself whole and its new exe in place,
\* wherever the program was closed, failed or gave up an update before; when it
\* has come to its end it has installed the new exe, unless the program had been
\* started again under its hands, and nothing of the older versions is left.
\* (Apply, the batch script)
ScriptInstalls ==
    crossed \/ \A a \in Applies :
        /\ Staging(a) => runs # Down /\ a \in staged
        /\ script[a] \in {"kill", "copy"} => bat = [of |-> a, whole |-> TRUE] /\ a \in staged
        /\ script[a] = "ended" => (a \in busy \/ exe = "new") /\ ~luaDir
=============================================================================
