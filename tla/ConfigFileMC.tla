---------------------------- MODULE ConfigFileMC ----------------------------
(* Instances of ConfigFile for TLC: a file of each form, with what it means. *)
EXTENDS ConfigFile, TLC

S(id, port, on, limit, filters) ==
    [k \in Keys |-> CASE k = "id" -> id
                      [] k = "hook-port" -> port
                      [] k = "enabled" -> 0
                      [] k = "max-ships" -> limit
                      [] k = "filters" -> filters
                      [] OTHER -> on]

Config(key, servers) == [key |-> key, servers |-> servers]

\* No file: the defaults.
None == [file |-> Absent, means |-> Config(0, <<>>)]

\* Version 1 was on; all its filters were off, and stay so.  No limit: the default.
V1Off ==
    [file |-> File("text", "api-key" :> 1 @@ "enabled" :> 1 @@ "[dcs]" :> 0
                           @@ "hook-port" :> 2 @@ "[filters]" :> 0, <<>>),
     means |-> Config(1, <<S(1, 2, 0, 1, 0)>>)]

\* One without a section for the filters: all on.
V1Bare ==
    [file |-> File("text", "api-key" :> 1 @@ "max-ships" :> 2 @@ "[dcs]" :> 0, <<>>),
     means |-> Config(1, <<S(1, 1, 0, 2, 2)>>)]

\* Two servers from before the split, the second enabled.
Unsplit2 ==
    [file |-> File("text", "api-key" :> 0,
                   <<"id" :> 1 @@ "hook-port" :> 1 @@ "max-ships" :> 1 @@ "filters" :> 1,
                     "id" :> 2 @@ "hook-port" :> 2 @@ "enabled" :> 1 @@ "max-ships" :> 2
                     @@ "filters" :> 2>>),
     means |-> Config(0, <<S(1, 1, 0, 1, 1), S(2, 2, 1, 2, 2)>>)]

MCOld == {None, V1Off, V1Bare, Unsplit2}
=============================================================================
