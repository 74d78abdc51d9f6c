-------------------------------- MODULE Hook --------------------------------
(***************************************************************************)
(* The Lua hook inside DCS (src/lua/AISTrafficHook.lua): it accepts one    *)
(* client, reads command lines, queues them, and runs a few of them each   *)
(* time the simulation calls poll.  Lua runs one callback at a time, so    *)
(* poll is a sequence of steps, one per queued command, that only the      *)
(* network and DCS itself see the middle of; lines arrive between polls,   *)
(* where their arrival makes a difference.                                 *)
(*                                                                         *)
(* DCS is external: world is what its Group and StaticObject tables hold,  *)
(* which are separate name spaces, as AIS_Destroy assumes.  Every call     *)
(* into it may fail when Failures is TRUE; any spawn may be on land.       *)
(* Commands carry the number under which they were written, which nothing  *)
(* but the properties reads.                                               *)
(*                                                                         *)
(* An operator with an underscore in its name is a slip: its namesake as a *)
(* plausible mistake would leave it.  Nothing uses it; the properties find *)
(* the mistake when it takes its namesake's place.                         *)
(***************************************************************************)
EXTENDS Integers, Sequences, SequencesExt, FiniteSets

CONSTANTS
    Groups,                  \* group names
    Kinds,                   \* what the program may write, of the kinds below
    CHUNK, MAX_CMDS_PER_POLL, MAX_REROUTES_PER_POLL, MAX_LINES, MAX_BUFFER,
    Failures,                \* whether calls into DCS and sends may fail
    MaxSent                  \* bound on the commands written in a run

ASSUME HookAssumption ==
    /\ IsFiniteSet(Groups)
    /\ Kinds \subseteq {"spawn", "spawnStatic", "remove", "move", "reroute", "clear"}
    /\ CHUNK \in Nat \ {0} /\ MAX_CMDS_PER_POLL \in Nat \ {0}
    /\ MAX_REROUTES_PER_POLL \in Nat \ {0} /\ MAX_LINES \in Nat \ {0}
    /\ MAX_BUFFER \in Nat /\ MaxSent \in Nat /\ Failures \in BOOLEAN

VARIABLES
    listener,       \* AIS.listener is bound
    waiting, early, \* a connection to be accepted, and the lines written to it
    connected,      \* AIS.connected
    sock,           \* lines written to the client connection and not yet read
    peerClosed,     \* the program has closed it
    buf,            \* AIS.recvBuffer: lines read, not yet taken
    queue,          \* AIS.cmdQueue
    polling, todo, kept, costly, reroutes,   \* poll and its local variables
    tracked,        \* AIS.trackedGroups
    helpers,        \* AIS.helpersInstalled
    theatre,        \* AIS.theatre is known
    world,          \* what DCS holds
    sent, since, loaded, ran     \* for the properties: commands written so far,
                    \* before this connection, before the last mission load; run

conn == <<waiting, early, connected, sock, peerClosed, buf>>
poll == <<polling, todo, kept, costly, reroutes>>
dcs == <<tracked, helpers, world>>
history == <<sent, since, loaded, ran>>
vars == <<listener, conn, queue, poll, dcs, theatre, history>>

Untracked == [g \in Groups |-> "none"]

Init ==
    /\ listener \in BOOLEAN
    /\ waiting = FALSE /\ early = <<>>
    /\ connected = FALSE /\ sock = <<>> /\ peerClosed = FALSE
    /\ buf = <<>>
    /\ queue = <<>>
    /\ polling = FALSE /\ todo = <<>> /\ kept = <<>> /\ costly = 0 /\ reroutes = 0
    /\ tracked = Untracked /\ helpers = FALSE /\ world = {}
    /\ theatre = FALSE
    /\ sent = 0 /\ since = 0 /\ loaded = 0 /\ ran = {}

Command(kind, g) ==
    [cmd |-> IF kind = "spawnStatic" THEN "spawn" ELSE kind,
     static |-> kind = "spawnStatic", id |-> sent + 1,
     groups |-> IF kind = "clear" THEN {} ELSE {g}]

------------------------------------------------------------------------------
(* The program at the other end, and DCS.                                  *)

Connect ==
    /\ listener /\ ~waiting /\ ~polling
    /\ ~connected \/ peerClosed
    /\ waiting' = TRUE /\ early' = <<>>
    /\ since' = sent
    /\ UNCHANGED <<listener, connected, sock, peerClosed, buf, queue, poll,
                   dcs, theatre, sent, loaded, ran>>

Write(kind, g) ==
    /\ sent < MaxSent /\ ~polling
    /\ \/ /\ waiting
          /\ early' = Append(early, Command(kind, g))
          /\ UNCHANGED sock
       \/ /\ ~waiting /\ connected /\ ~peerClosed
          /\ sock' = Append(sock, Command(kind, g))
          /\ UNCHANGED early
    /\ sent' = sent + 1
    /\ UNCHANGED <<listener, waiting, connected, peerClosed, buf, queue,
                   poll, dcs, theatre, since, loaded, ran>>

PeerClose ==
    /\ connected /\ ~peerClosed /\ ~polling
    /\ peerClosed' = TRUE
    /\ UNCHANGED <<listener, waiting, early, connected, sock, buf, queue,
                   poll, dcs, theatre, history>>

\* A ship is destroyed in the simulation.
Sink(e) ==
    /\ e \in world /\ ~polling
    /\ world' = world \ {e}
    /\ UNCHANGED <<listener, conn, queue, poll, tracked, helpers, theatre, history>>

------------------------------------------------------------------------------
(* tcpDisconnect, tcpSend.                                                 *)

\* The client is gone with all it wrote; the queue is not touched.
Disconnect ==
    /\ connected' = FALSE /\ sock' = <<>> /\ peerClosed' = FALSE
    /\ buf' = <<>>
    /\ since' = IF waiting THEN since ELSE sent
    /\ UNCHANGED <<waiting, early>>

\* Messages are sent, or the send fails, which disconnects.  What the program
\* makes of them is in Coordinator, for any messages.
Say(msgs) ==
    \/ UNCHANGED <<conn, since>>
    \/ Failures /\ connected /\ msgs # {} /\ Disconnect

------------------------------------------------------------------------------
(* The handlers.  Each maps what the hook and DCS hold to the states it    *)
(* may leave behind, with the messages it sends.                           *)

Now == [tracked |-> tracked, world |-> world, helpers |-> helpers, say |-> {}]

IfFailures(S) == IF Failures THEN S ELSE {}

\* installHelpers: the helpers are there, can be installed, or cannot.
Ready(o) == [o EXCEPT !.helpers = TRUE]
NotReady(o) == IF o.helpers THEN {} ELSE IfFailures({o})

Forget(o, g) == [o EXCEPT !.tracked[g] = "none"]

Placed(o, g, kind) ==
    [o EXCEPT !.tracked[g] = kind, !.world = @ \cup {<<g, kind>>}]

Kind(c) == IF c.static THEN "static" ELSE "group"

Told(o, type, g) == [o EXCEPT !.say = @ \cup {[type |-> type, group |-> g]}]

handleSpawn(o, c, g) ==
    NotReady(o) \cup
    {Placed(Ready(o), g, Kind(c)), Told(Ready(o), "reject", g)} \cup
    IfFailures({Told(Ready(o), "error", g)})

\* AIS_Destroy and AIS_DestroyBatch look for a group of each name first, and
\* for a static object only when there is none.
DestroyAll(W, names) ==
    LET moving == {g \in names : <<g, "group">> \in W}
    IN  W \ ((moving \X {"group"}) \cup ((names \ moving) \X {"static"}))

Destroyed(W, g) == DestroyAll(W, {g})

\* An error is logged, and the group is no longer tracked all the same.
handleRemove(o, c, g) ==
    NotReady(o) \cup
    {[Forget(Ready(o), g) EXCEPT !.world = Destroyed(@, g)]} \cup
    IfFailures({Forget(Ready(o), g)})

handleMove(o, c, g) ==
    LET cleared == IF o.tracked[g] = "none" THEN {o}
                   ELSE {[Forget(Ready(o), g) EXCEPT !.world = Destroyed(@, g)]}
                        \cup IfFailures({Forget(Ready(o), g), Forget(o, g)})
    IN  UNION {handleSpawn(p, c, g) : p \in cleared}

\* A ship the hook or DCS does not know is spawned; a route DCS refuses becomes
\* a move.
handleReroute(o, c, g) ==
    LET r == Ready(o)
    IN  NotReady(o) \cup
        CASE o.tracked[g] = "none"   -> handleSpawn(r, c, g)
          [] o.tracked[g] = "static" -> {r}
          [] <<g, "group">> \in o.world -> {r} \cup IfFailures(handleMove(r, c, g))
          [] OTHER -> handleSpawn(Forget(r, g), c, g) \cup IfFailures({r})

\* The continuation of a clear: the groups of one chunk.
batchDestroy(o, c) ==
    {[o EXCEPT !.world = DestroyAll(@, c.groups)]} \cup IfFailures({o})

\* dispatchCommand, for all but clear.
Outcomes(c) ==
    CASE c.cmd = "spawn"   -> UNION {handleSpawn(Now, c, g) : g \in c.groups}
      [] c.cmd = "remove"  -> UNION {handleRemove(Now, c, g) : g \in c.groups}
      [] c.cmd = "move"    -> UNION {handleMove(Now, c, g) : g \in c.groups}
      [] c.cmd = "reroute" -> UNION {handleReroute(Now, c, g) : g \in c.groups}
      [] OTHER             -> batchDestroy(Now, c)

Dispatch(c) ==
    /\ \E o \in Outcomes(c) :
          /\ tracked' = o.tracked /\ world' = o.world /\ helpers' = o.helpers
          /\ Say(o.say)
    /\ ran' = ran \cup {[id |-> c.id, cmd |-> c.cmd]}

------------------------------------------------------------------------------
(* poll.                                                                   *)

\* The port was busy: tcpListen is tried again from time to time.
PollListen ==
    /\ ~listener /\ ~polling
    /\ listener' = TRUE
    /\ UNCHANGED <<conn, queue, poll, dcs, theatre, history>>

\* tcpAccept: theatre and models are the first things sent.
PollAccept ==
    /\ listener /\ ~connected /\ waiting /\ ~polling
    /\ waiting' = FALSE /\ early' = <<>>
    /\ connected' = TRUE /\ sock' = early /\ peerClosed' = FALSE
    /\ buf' = <<>>
    /\ helpers' = FALSE
    /\ theatre' \in IF Failures THEN {theatre, TRUE} ELSE {TRUE}
    /\ UNCHANGED <<listener, queue, poll, tracked, world, history>>

\* A message cannot be sent, the theatre or, if it is unknown, the models: the
\* client is dropped again.
PollAcceptFails ==
    /\ Failures
    /\ listener /\ ~connected /\ waiting /\ ~polling
    /\ waiting' = FALSE /\ early' = <<>>
    /\ helpers' = FALSE
    /\ theatre' \in {theatre, TRUE}
    /\ since' = sent
    /\ UNCHANGED <<listener, connected, sock, peerClosed, buf, queue, poll, tracked,
                   world, sent, loaded, ran>>

StartLoop(q) ==
    /\ queue' = q
    /\ polling' = TRUE /\ todo' = q /\ kept' = <<>> /\ costly' = 0 /\ reroutes' = 0

Lines == buf \o sock
Overflow == Len(Lines) > MAX_BUFFER

Take(n) == SubSeq(Lines, 1, n)

\* Slip: the offset is moved over one line too many.
Rest_OffByOne(n) == SubSeq(Lines, n + 2, Len(Lines))

Rest(n) == SubSeq(Lines, n + 1, Len(Lines))

\* tcpReadLines: all that has arrived is read, MAX_LINES of it are taken.
PollRead ==
    /\ listener /\ connected /\ ~polling
    /\ ~peerClosed /\ ~Overflow
    /\ LET n == IF Len(Lines) < MAX_LINES THEN Len(Lines) ELSE MAX_LINES
       IN  /\ StartLoop(queue \o Take(n))
           /\ buf' = Rest(n)
    /\ sock' = <<>>
    /\ UNCHANGED <<listener, waiting, early, connected, peerClosed, dcs,
                   theatre, history>>

\* The end of the stream, or too much of it, is found while reading: what was
\* read before it goes with the buffer.  The queue is worked on all the same.
PollReadClosed ==
    /\ listener /\ connected /\ ~polling
    /\ peerClosed \/ Overflow
    /\ Disconnect
    /\ StartLoop(queue)
    /\ UNCHANGED <<listener, dcs, theatre, sent, loaded, ran>>

Advance == todo' = Tail(todo) /\ UNCHANGED polling

IsReroute(c) == c.cmd = "reroute"
IsCostly(c) == c.cmd \notin {"reroute", "clear"}

\* Slips: one command too many, one too few.
CostlyLeft_OneMore == costly <= MAX_CMDS_PER_POLL
ReroutesLeft_OneLess == reroutes + 1 < MAX_REROUTES_PER_POLL

CostlyLeft == costly < MAX_CMDS_PER_POLL
ReroutesLeft == reroutes < MAX_REROUTES_PER_POLL

PollReroute ==
    /\ polling /\ todo # <<>> /\ IsReroute(Head(todo))
    /\ ReroutesLeft
    /\ Dispatch(Head(todo))
    /\ reroutes' = reroutes + 1
    /\ Advance
    /\ UNCHANGED <<listener, queue, kept, costly, theatre, sent, loaded>>

PollCostly ==
    /\ polling /\ todo # <<>> /\ IsCostly(Head(todo))
    /\ CostlyLeft
    /\ Dispatch(Head(todo))
    /\ costly' = costly + 1
    /\ Advance
    /\ UNCHANGED <<listener, queue, kept, reroutes, theatre, sent, loaded>>

\* Slip: the last one first.
Deferred_Reversed == <<Head(todo)>> \o kept

Deferred == Append(kept, Head(todo))

\* Over budget: the command is kept for the next poll.
PollDefer ==
    /\ polling /\ todo # <<>>
    /\ \/ IsReroute(Head(todo)) /\ ~ReroutesLeft
       \/ IsCostly(Head(todo)) /\ ~CostlyLeft
    /\ kept' = Deferred
    /\ Advance
    /\ UNCHANGED <<listener, conn, queue, costly, reroutes, dcs, theatre, history>>

\* The names in some order, cut into chunks.
Chunk(names, i) ==
    {names[j] : j \in {k \in DOMAIN names : (k - 1) \div CHUNK = i - 1}}

Chunks(names) == (Len(names) + CHUNK - 1) \div CHUNK

BatchDestroy(names) ==
    [i \in 1 .. (Chunks(names) - 1) |->
        [cmd |-> "_batch_destroy", static |-> FALSE,
         groups |-> Chunk(names, i + 1), id |-> 0]]

\* Slip: what is over budget survives the clear.
KeptAfterClear_All == kept

KeptAfterClear == <<>>

\* handleClear: nothing is tracked or queued any more; the first chunk of the
\* groups is destroyed, the others are put into the new queue.  poll then
\* forgets what it had kept.
PollClear ==
    /\ polling /\ todo # <<>> /\ Head(todo).cmd = "clear"
    /\ tracked' = Untracked
    /\ \E names \in SetToSeqs({g \in Groups : tracked[g] # "none"}) :
          \/ /\ names # <<>>
             /\ queue' = BatchDestroy(names)
             /\ world' \in {DestroyAll(world, Chunk(names, 1))}
                           \cup IfFailures({world})
             /\ helpers' = TRUE
          \/ /\ names = <<>> \/ (Failures /\ ~helpers)
             /\ queue' = <<>>
             /\ UNCHANGED <<world, helpers>>
    /\ ran' = ran \cup {[id |-> Head(todo).id, cmd |-> "clear"]}
    /\ kept' = KeptAfterClear
    /\ Advance
    /\ UNCHANGED <<listener, conn, costly, reroutes, theatre, sent, since, loaded>>

\* Slip: the continuations of a clear go first, with no thought for what was
\* spawned since.
Remaining_ChunksFirst ==
    SelectSeq(queue, LAMBDA c : c.cmd = "_batch_destroy") \o kept

Remaining == kept

\* AIS.cmdQueue = remaining
PollEnd ==
    /\ polling /\ todo = <<>>
    /\ queue' = Remaining
    /\ polling' = FALSE /\ kept' = <<>> /\ costly' = 0 /\ reroutes' = 0
    /\ UNCHANGED <<listener, conn, todo, dcs, theatre, history>>

------------------------------------------------------------------------------
(* The mission callbacks.                                                  *)

\* Slip: the queue is left alone.
QueueAfterClose_Kept == queue

QueueAfterClose == <<>>

\* Every connection goes with the listener, the ones not accepted too.
CloseAll ==
    /\ waiting' = FALSE /\ early' = <<>>
    /\ connected' = FALSE /\ sock' = <<>> /\ peerClosed' = FALSE
    /\ buf' = <<>>
    /\ queue' = QueueAfterClose
    /\ tracked' = Untracked /\ helpers' = FALSE
    /\ since' = sent

onMissionLoadEnd ==
    /\ ~polling
    /\ CloseAll
    /\ theatre' = TRUE
    /\ listener' \in IF Failures THEN BOOLEAN ELSE {TRUE}
    /\ world' = {}
    /\ loaded' = sent
    /\ UNCHANGED <<poll, sent, ran>>

\* destroyAllTracked, then everything is closed until a mission is loaded.
onSimulationStop ==
    /\ ~polling
    /\ CloseAll
    /\ theatre' = FALSE
    /\ listener' = FALSE
    /\ LET names == {g \in Groups : tracked[g] # "none"}
       IN  world' \in {DestroyAll(world, names)}
                      \cup IfFailures({world, {e \in world : e[1] \notin names}})
    /\ UNCHANGED <<poll, sent, loaded, ran>>

------------------------------------------------------------------------------
PollStep ==
    \/ PollListen \/ PollAccept \/ PollAcceptFails
    \/ PollRead \/ PollReadClosed
    \/ PollReroute \/ PollCostly \/ PollDefer \/ PollClear \/ PollEnd

Outside ==
    \/ Connect \/ PeerClose
    \/ \E kind \in Kinds, g \in Groups : Write(kind, g)
    \/ \E e \in world : Sink(e)
    \/ onMissionLoadEnd \/ onSimulationStop

Next == PollStep \/ Outside

Spec == Init /\ [][Next]_vars

\* The simulation calls back on every frame while a mission runs.
FairSpec == Spec /\ WF_vars(PollStep)

------------------------------------------------------------------------------
(* Properties.                                                             *)

Commands == [cmd : {"spawn", "remove", "move", "reroute", "clear"},
             static : BOOLEAN, groups : SUBSET Groups, id : 1 .. MaxSent]

BatchCommands == [cmd : {"_batch_destroy"}, static : {FALSE},
                  groups : SUBSET Groups, id : {0}]

TypeOK ==
    /\ {listener, waiting, connected, peerClosed, polling, helpers, theatre}
          \subseteq BOOLEAN
    /\ {early, sock, buf, todo, kept} \subseteq Seq(Commands)
    /\ queue \in Seq(Commands \cup BatchCommands)
    /\ costly \in 0 .. MAX_CMDS_PER_POLL /\ reroutes \in 0 .. MAX_REROUTES_PER_POLL
    /\ tracked \in [Groups -> {"none", "group", "static"}]
    /\ world \subseteq Groups \X {"group", "static"}
    /\ {sent, since, loaded} \subseteq 0 .. MaxSent
    /\ \A c \in ran : c.id \in 1 .. sent

Running == ran' \ ran

\* Spawns, removals and moves run in the order they were written, and reroutes
\* in theirs, whatever is kept from poll to poll and over reconnections.  (The
\* two kinds overtake each other.)  (poll, 657-694)
RunsInOrder ==
    [][\A c \in Running, d \in ran :
           (IsCostly(c) /\ IsCostly(d)) \/ (IsReroute(c) /\ IsReroute(d))
               => d.id < c.id]_vars

\* Nothing written before a clear runs after it: over-budget commands "belong to
\* the pre-clear state and must not be restored afterwards" (comment in poll).
\* Nothing written for a mission runs in the next one.  (onMissionLoadEnd)
ClearAndMissionAreBarriers ==
    [][\A c \in Running :
           /\ \A d \in ran : d.cmd = "clear" => d.id < c.id
           /\ c.id > loaded]_vars

InFlight == (UNION {{q[i].id : i \in DOMAIN q} : q \in {early, sock, buf, todo, kept}})
            \cup (IF polling THEN {} ELSE {queue[i].id : i \in DOMAIN queue})

Cleared(n) == \E d \in ran : d.cmd = "clear" /\ d.id >= n

\* While its connection lasts, a command that has not run is still on its way,
\* unless a later clear has done away with it: no budget, line cap or buffer
\* loses one.  (tcpReadLines, poll)
NothingIsLost ==
    /\ TypeOK
    /\ \A n \in (since + 1) .. sent :
          n \in InFlight \/ Cleared(n) \/ \E c \in ran : c.id = n

\* A group the hook tracks and DCS has is not destroyed behind its back: it
\* goes from DCS only as it goes from the table, or by itself.  (handlers)
TrackedIsKept ==
    [][polling => \A g \in Groups :
           (tracked'[g] = tracked[g] /\ <<g, tracked[g]>> \in world)
               => <<g, tracked[g]>> \in world']_vars

\* What is queued is run or cleared in the end while the client stays and has
\* nothing more to say: each poll runs the first of each kind, so the budgets
\* starve none.  (poll)
QueueDrains == (queue # <<>>) ~> (~connected \/ (~polling /\ queue = <<>>))

\* "First chunk runs now, remaining chunks are queued and processed
\* one-per-poll via budget" (lines 577-578): between polls DCS holds only what
\* is tracked, or what a queued continuation will destroy.
ClearedIsDestroyed ==
    ~polling => \A e \in world :
        \/ tracked[e[1]] = e[2]
        \/ \E i \in DOMAIN queue : queue[i].cmd = "_batch_destroy" /\ e[1] \in queue[i].groups
=============================================================================
