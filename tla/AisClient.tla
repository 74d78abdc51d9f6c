----------------------------- MODULE AisClient -----------------------------
(***************************************************************************)
(* ais.Client (internal/ais/client.go), the subscription to the AIS        *)
(* stream, and the part of servermgr.Manager that restarts it whenever the *)
(* theatres of interest change.                                            *)
(*                                                                         *)
(* Start runs loop in a goroutine of its own; Stop does not wait for it.   *)
(* The loop, wherever it looks for the end, looks at the stopCh the client *)
(* has then.  c.mu is held by Start, by Stop and for single uses of c.conn.*)
(*                                                                         *)
(* What the stream says is in Coordinator, where any update may come.  The *)
(* AIS service is external: it takes a connection or refuses it, and ends  *)
(* it when it likes.  That no key is set is as if no theatre were wanted.  *)
(*                                                                         *)
(* An operator with an underscore in its name is a slip: its namesake as a *)
(* plausible mistake would leave it.                                       *)
(***************************************************************************)
EXTENDS Naturals, FiniteSets

CONSTANTS
    Theatres,      \* those the program has bounds for
    Sockets,       \* one nobody refers to can be opened anew
    Refreshers,    \* goroutines that may be in RefreshAIS at one time
    MaxStarts      \* bound on the calls of Start that start something

ASSUME AisAssumption ==
    /\ MaxStarts \in Nat \ {0}
    /\ IsFiniteSet(Sockets) /\ Cardinality(Sockets) > MaxStarts /\ 0 \notin Sockets

\* A loop has the number of its Start, and so has its stopCh.
Starts == 1 .. MaxStarts
None == 0

VARIABLES
    running,       \* c.running
    stopCh,        \* c.stopCh: the number of the last Start
    closed,        \* the stop channels that are closed
    conn,          \* c.conn
    boxes,         \* c.boxes
    connected,     \* c.connected
    loops,         \* loop: where it is; the channel it waits on; the socket it reads
    open,          \* sockets neither end has closed
    sub,           \* what each socket is subscribed to
    wanted,        \* theatres of servers that track
    due,           \* the debounce timer of scheduleRefreshAIS is set
    refreshers     \* RefreshAIS: where it is, and its boxes

client == <<running, stopCh, closed, conn, boxes>>
manager == <<wanted, due, refreshers>>
stream == <<open, sub>>
vars == <<client, connected, loops, stream, manager>>

NotStarted == [at |-> "none", on |-> None, own |-> None]

Init ==
    /\ running = FALSE /\ stopCh = None /\ closed = {}
    /\ conn = None /\ boxes = {}
    /\ connected = FALSE
    /\ loops = [l \in Starts |-> NotStarted]
    /\ open = {} /\ sub = [s \in Sockets |-> {}]
    /\ wanted \in SUBSET Theatres
    /\ due = TRUE    \* main's first refresh
    /\ refreshers = [r \in Refreshers |-> [at |-> "idle", boxes |-> {}]]

------------------------------------------------------------------------------
(* loop, connect, readLoop.                                                *)

Goes(l, where) == loops' = [loops EXCEPT ![l].at = where]

\* Slip: only the loop's own channel counts, which it is not given again.
Stopped_Never(l) == FALSE

Stopped(l) == stopCh \in closed

LoopCheck(l) ==
    /\ loops[l].at = "top"
    /\ Goes(l, IF Stopped(l) THEN "done" ELSE "dial")
    /\ UNCHANGED <<client, connected, stream, manager>>

Referenced == {conn} \cup {loops[k].own : k \in Starts}

\* The subscription is for what c.boxes is once the connection is there.  (Which
\* name it gets does not matter; those nobody refers to are collected.)
Dial(l) ==
    /\ loops[l].at = "dial"
    /\ LET s == CHOOSE s \in Sockets : s \notin Referenced
       IN  /\ open' = (open \cap Referenced) \cup {s}
           /\ sub' = [t \in Sockets |->
                          IF t = s THEN boxes ELSE IF t \in Referenced THEN sub[t] ELSE {}]
           /\ loops' = [loops EXCEPT ![l].at = "store", ![l].own = s]
    /\ UNCHANGED <<client, connected, manager>>

DialFails(l) ==
    /\ loops[l].at = "dial"
    /\ connected' = FALSE
    /\ loops' = [loops EXCEPT ![l].at = "backoff", ![l].on = stopCh]
    /\ UNCHANGED <<client, stream, manager>>

\* Slip: the loop does not come back from a failure.
AfterBackoff_Done == "done"

AfterBackoff == "top"

BackoffEnds(l) ==
    /\ loops[l].at = "backoff"
    /\ \E where \in {AfterBackoff} \cup (IF loops[l].on \in closed THEN {"done"} ELSE {}) :
          loops' = [loops EXCEPT ![l].at = where, ![l].on = None]
    /\ UNCHANGED <<client, connected, stream, manager>>

Store(l) ==
    /\ loops[l].at = "store"
    /\ conn' = loops[l].own
    /\ Goes(l, "flag")
    /\ UNCHANGED <<running, stopCh, closed, boxes, connected, stream, manager>>

Flag(l) ==
    /\ loops[l].at = "flag"
    /\ connected' = TRUE
    /\ Goes(l, "capture")
    /\ UNCHANGED <<client, stream, manager>>

\* Slip: a connection that Stop has taken away is read.
Captured_Unchecked == "check"

Captured == IF conn = None THEN "lost" ELSE "check"

\* What c.conn is by now, which need not be what was stored.
Capture(l) ==
    /\ loops[l].at = "capture"
    /\ loops' = [loops EXCEPT ![l].at = Captured, ![l].own = conn]
    /\ UNCHANGED <<client, connected, stream, manager>>

\* The channel is looked at before each message, which goes to the coordinators.
CheckRead(l) ==
    /\ loops[l].at = "check"
    /\ Goes(l, IF stopCh \in closed THEN "lost" ELSE "read")
    /\ UNCHANGED <<client, connected, stream, manager>>

Message(l) ==
    /\ loops[l].at = "read" /\ loops[l].own \in open
    /\ Goes(l, "check")
    /\ UNCHANGED <<client, connected, stream, manager>>

ReadFails(l) ==
    /\ loops[l].at = "read" /\ loops[l].own \notin open
    /\ Goes(l, "lost")
    /\ UNCHANGED <<client, connected, stream, manager>>

FlagAfterLoss == FALSE

Lost(l) ==
    /\ loops[l].at = "lost"
    /\ connected' = FlagAfterLoss
    /\ loops' = [loops EXCEPT ![l].at = "top", ![l].own = None]
    /\ UNCHANGED <<client, stream, manager>>

\* The service closes a socket.
Drop(s) ==
    /\ s \in open \cap Referenced
    /\ open' = open \ {s}
    /\ UNCHANGED <<client, connected, loops, sub, manager>>

------------------------------------------------------------------------------
(* Start, Stop.                                                            *)

\* Slip: the channel of the first Start serves all.
FreshChannel_First == 1

FreshChannel == stopCh + 1

Begin(bs) ==
    IF running
    THEN UNCHANGED <<client, loops>>
    ELSE /\ stopCh < MaxStarts
         /\ running' = TRUE
         /\ stopCh' = FreshChannel
         /\ boxes' = bs
         /\ loops' = [loops EXCEPT ![stopCh + 1].at = "top"]
         /\ UNCHANGED <<closed, conn>>

\* Slip: a restart leaves a running client alone.
Halt_Kept == UNCHANGED <<client, connected, open>>

Halt ==
    IF ~running
    THEN UNCHANGED <<client, connected, open>>
    ELSE /\ running' = FALSE
         /\ closed' = closed \cup {stopCh}
         /\ connected' = FALSE
         /\ open' = open \ {conn}
         /\ conn' = None
         /\ UNCHANGED <<stopCh, boxes>>

------------------------------------------------------------------------------
(* Manager: RefreshAIS, activeBoxes, scheduleRefreshAIS.                   *)

\* A theatre becomes known, or a server is removed: scheduleRefreshAIS.
\* Tracking or the key is changed in the dashboard: RefreshAIS.
Change(r, W) ==
    /\ W # wanted
    /\ wanted' = W
    /\ \/ /\ due' = TRUE
          /\ UNCHANGED refreshers
       \/ /\ refreshers[r].at = "idle"
          /\ refreshers' = [refreshers EXCEPT ![r].at = "compute"]
          /\ UNCHANGED due
    /\ UNCHANGED <<client, connected, loops, stream>>

TimerFires(r) ==
    /\ due /\ refreshers[r].at = "idle"
    /\ due' = FALSE
    /\ refreshers' = [refreshers EXCEPT ![r].at = "compute"]
    /\ UNCHANGED <<client, connected, loops, stream, wanted>>

activeBoxes == wanted

Compute(r) ==
    /\ refreshers[r].at = "compute"
    /\ refreshers' = [refreshers EXCEPT ![r] = [at |-> "stop", boxes |-> activeBoxes]]
    /\ UNCHANGED <<client, connected, loops, stream, wanted, due>>

RefreshStops(r) ==
    /\ refreshers[r].at = "stop"
    /\ Halt
    /\ refreshers' = [refreshers EXCEPT
                         ![r].at = IF refreshers[r].boxes = {} THEN "idle" ELSE "start"]
    /\ UNCHANGED <<loops, sub, wanted, due>>

RefreshStarts(r) ==
    /\ refreshers[r].at = "start"
    /\ Begin(refreshers[r].boxes)
    /\ refreshers' = [refreshers EXCEPT ![r] = [at |-> "idle", boxes |-> {}]]
    /\ UNCHANGED <<connected, stream, wanted, due>>

------------------------------------------------------------------------------
Loop(l) ==
    \/ LoopCheck(l) \/ DialFails(l) \/ BackoffEnds(l)
    \/ Store(l) \/ Flag(l) \/ Capture(l)
    \/ CheckRead(l) \/ ReadFails(l) \/ Lost(l)

Refresh(r) == TimerFires(r) \/ Compute(r) \/ RefreshStops(r) \/ RefreshStarts(r)

Next ==
    \/ \E l \in Starts : Loop(l) \/ Message(l) \/ Dial(l)
    \/ \E s \in Sockets : Drop(s)
    \/ \E r \in Refreshers : Refresh(r) \/ \E W \in SUBSET Theatres : Change(r, W)

Spec == Init /\ [][Next]_vars

\* Goroutines that can run do run, timers expire, and a service that is dialed
\* again and again answers in the end.  Nobody has to send a message.
Fairness ==
    /\ \A l \in Starts : WF_vars(Loop(l)) /\ SF_vars(Dial(l))
    /\ \A r \in Refreshers : WF_vars(Refresh(r))

FairSpec == Spec /\ Fairness

------------------------------------------------------------------------------
(* Properties.                                                             *)

AisTypeOK ==
    /\ running \in BOOLEAN /\ connected \in BOOLEAN /\ due \in BOOLEAN
    /\ stopCh \in Starts \cup {None} /\ closed \subseteq Starts
    /\ conn \in Sockets \cup {None} /\ open \subseteq Sockets
    /\ loops \in [Starts ->
          [at : {"none", "top", "dial", "backoff", "store", "flag", "capture",
                 "check", "read", "lost", "done"},
           on : Starts \cup {None}, own : Sockets \cup {None}]]
    /\ \A l \in Starts : loops[l].at \in {"store", "check", "read"} => loops[l].own # None
    /\ sub \in [Sockets -> SUBSET Theatres] /\ boxes \subseteq Theatres
    /\ wanted \subseteq Theatres
    /\ refreshers \in [Refreshers ->
          [at : {"idle", "compute", "stop", "start"}, boxes : SUBSET Theatres]]

\* A client that is running has its own loop at work: the loop of the last Start
\* does not end before the Stop, whatever older loops and channels do.  (Start,
\* loop)
RunningHasLoop == AisTypeOK /\ (running => loops[stopCh].at \notin {"none", "done"})

Quiet == ~due /\ \A r \in Refreshers : refreshers[r].at = "idle"

\* When changes have been dealt with, the client runs if and only if there is
\* something to subscribe to, and has been given just that: with one refresh at
\* a time.  (RefreshAIS, scheduleRefreshAIS)
RefreshMatches ==
    Quiet =>
        /\ running <=> activeBoxes # {}
        /\ running => boxes = activeBoxes

\* The client keeps dialing until it is connected or stopped.  (loop)
KeepsTrying == running ~> (connected \/ ~running)

Waits(l) == loops[l].at = "read" /\ loops[l].own \in open

\* After Stop the flag goes down and every loop ends, all but one that
\* waits for a message of a socket that is no longer the client's.  (loop,
\* readLoop)
StopEnds ==
    ~running ~>
        \/ running
        \/ /\ ~connected
           /\ \A l \in Starts : loops[l].at \in {"none", "done"} \/ Waits(l)

\* RefreshAIS "rebuilds the AIS bounding box list from all active theatres and
\* restarts the AIS client" (manager.go:266-267), and Stop "terminates the read
\* loop" (client.go:77): then nothing reads another subscription.
ReadsWhatIsWanted ==
    Quiet => \A l \in Starts : Waits(l) => sub[loops[l].own] = activeBoxes
=============================================================================
