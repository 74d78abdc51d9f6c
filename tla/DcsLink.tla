------------------------------ MODULE DcsLink ------------------------------
(***************************************************************************)
(* dcscomm.Server (internal/dcscomm/server.go): the connection from the    *)
(* program to the hook.  One goroutine runs Start, which dials, publishes  *)
(* the connection and reads it until it ends, again and again; others, the *)
(* writers, are in Send or SendBatch; another may call Stop.  s.mu is held *)
(* only for single reads and writes of s.conn, so each step below is what  *)
(* happens between two points where another goroutine can run.             *)
(*                                                                         *)
(* What is written and read is in Hook and Coordinator; here a connection  *)
(* is a name, closed by the program or not, held by the hook or not.  The  *)
(* hook may accept or not, drop a connection, or stop reading.             *)
(*                                                                         *)
(* An operator with an underscore in its name is a slip: its namesake as a *)
(* plausible mistake would leave it.                                       *)
(***************************************************************************)
EXTENDS Naturals, FiniteSets

CONSTANTS
    Writers,      \* goroutines that send
    Conns,        \* connections; one nobody refers to can be dialed anew
    NoConn

\* The loop's own, the writers' and one more.
ASSUME LinkAssumption ==
    /\ NoConn \notin Conns
    /\ IsFiniteSet(Writers) /\ IsFiniteSet(Conns)
    /\ Cardinality(Conns) > Cardinality(Writers)

VARIABLES
    conn,         \* s.conn
    connected,    \* s.connected
    stopCh,       \* s.stopCh is closed
    stop,         \* how far Stop has come
    loop,         \* Start: where it is, and its variable conn
    writers,      \* the same of each Send
    open,         \* connections the program has not closed
    deadline,     \* those that have a write deadline
    live,         \* those the hook holds
    accepting     \* the hook listens

published == <<conn, connected>>
stopping == <<stopCh, stop>>
hook == <<live, accepting>>
vars == <<published, stopping, loop, writers, open, deadline, hook>>

At(where) == [at |-> where, own |-> NoConn]

Init ==
    /\ conn = NoConn /\ connected = FALSE
    /\ stopCh = FALSE /\ stop = "none"
    /\ loop = At("check")
    /\ writers = [w \in Writers |-> At("idle")]
    /\ open = {} /\ deadline = {} /\ live = {}
    /\ accepting \in BOOLEAN

Referenced == {conn, loop.own} \cup {writers[w].own : w \in Writers}

\* A closed connection, and one the hook has dropped, fail to be read or written.
Over(c) == c \notin open \/ c \notin live

------------------------------------------------------------------------------
(* Start.                                                                  *)

LoopCheck ==
    /\ loop.at = "check"
    /\ loop' = At(IF stopCh THEN "done" ELSE "dial")
    /\ UNCHANGED <<published, stopping, writers, open, deadline, hook>>

Dial(c) ==
    /\ loop.at = "dial" /\ accepting
    /\ c \in Conns \ Referenced
    /\ loop' = [at |-> "dialed", own |-> c]
    /\ open' = open \cup {c} /\ live' = live \cup {c}
    /\ deadline' = deadline \ {c}
    /\ UNCHANGED <<published, stopping, writers, accepting>>

\* Slip: a failed dial ends the loop.
DialFailed_Done == At("done")

DialFailed == At("pause")

DialFails ==
    /\ loop.at = "dial" /\ ~accepting
    /\ loop' = DialFailed
    /\ UNCHANGED <<published, stopping, writers, open, deadline, hook>>

\* Stop may have been called while the dial was under way.
CheckAgain ==
    /\ loop.at = "dialed"
    /\ \/ /\ stopCh
          /\ loop' = At("done")
          /\ open' = open \ {loop.own}
       \/ /\ ~stopCh
          /\ loop' = [loop EXCEPT !.at = "publish"]
          /\ UNCHANGED open
    /\ UNCHANGED <<published, stopping, writers, deadline, hook>>

Publish ==
    /\ loop.at = "publish"
    /\ open' = open \ {conn}
    /\ conn' = loop.own
    /\ loop' = [loop EXCEPT !.at = "flag"]
    /\ UNCHANGED <<connected, stopping, writers, deadline, hook>>

Flag ==
    /\ loop.at = "flag"
    /\ connected' = TRUE
    /\ loop' = [loop EXCEPT !.at = "read"]
    /\ UNCHANGED <<conn, stopping, writers, open, deadline, hook>>

\* readLoop returns when the connection ends.
ReadEnds ==
    /\ loop.at = "read" /\ Over(loop.own)
    /\ loop' = [loop EXCEPT !.at = "forget"]
    /\ UNCHANGED <<published, stopping, writers, open, deadline, hook>>

\* It returns too when a line is longer than its buffer.
ReadGivesUp ==
    /\ loop.at = "read" /\ ~Over(loop.own)
    /\ loop' = [loop EXCEPT !.at = "forget"]
    /\ UNCHANGED <<published, stopping, writers, open, deadline, hook>>

\* s.conn, when a connection is given up: only if it is still that one.
\* Slips: whichever it is; none at all.
Without_Any(own) == NoConn
Without_None(own) == conn

Without(own) == IF conn = own THEN NoConn ELSE conn

\* Slip: the flag is cleared in any case.
FlagWithout_Any(own) == FALSE

FlagWithout(own) == IF conn = own THEN FALSE ELSE connected

Forget(own) == conn' = Without(own) /\ connected' = FlagWithout(own)

\* The connection is not closed, only forgotten.
LoopForgets ==
    /\ loop.at = "forget"
    /\ Forget(loop.own)
    /\ loop' = At("pause")
    /\ UNCHANGED <<stopping, writers, open, deadline, hook>>

\* The timer and stopCh, if both are ready, are equally good.
PauseEnds ==
    /\ loop.at = "pause"
    /\ loop' \in {At("check")} \cup (IF stopCh THEN {At("done")} ELSE {})
    /\ UNCHANGED <<published, stopping, writers, open, deadline, hook>>

------------------------------------------------------------------------------
(* Send, SendBatch.                                                        *)

Goes(w, where) == writers' = [writers EXCEPT ![w].at = where]

\* With no connection, an error is all there is.
Take(w) ==
    /\ writers[w].at = "idle" /\ conn # NoConn
    /\ writers' = [writers EXCEPT ![w] = [at |-> "arm", own |-> conn]]
    /\ UNCHANGED <<published, stopping, loop, open, deadline, hook>>

\* Slips: no deadline is set; it is set on what s.conn has become.
Armed_Never(own) == deadline
Armed_Reread(own) == deadline \cup {conn}

Armed(own) == deadline \cup {own}

Arm(w) ==
    /\ writers[w].at = "arm"
    /\ deadline' = Armed(writers[w].own)
    /\ Goes(w, "wait")
    /\ UNCHANGED <<published, stopping, loop, open, hook>>

\* One write at a time on a connection: the others wait, their deadline too.
Turn(w) ==
    /\ writers[w].at = "wait" /\ writers[w].own \in open
    /\ \A v \in Writers : writers[v].own = writers[w].own => writers[v].at # "write"
    /\ Goes(w, "write")
    /\ UNCHANGED <<published, stopping, loop, open, deadline, hook>>

WriteDone(w) ==
    /\ writers[w].at = "write" /\ writers[w].own \in open
    /\ Goes(w, "disarm")
    /\ UNCHANGED <<published, stopping, loop, open, deadline, hook>>

WriteFails(w) ==
    /\ \/ /\ writers[w].at = "write"
          /\ Over(writers[w].own) \/ writers[w].own \in deadline
       \/ /\ writers[w].at = "wait"
          /\ writers[w].own \notin open
    /\ Goes(w, "disarmFailed")
    /\ UNCHANGED <<published, stopping, loop, open, deadline, hook>>

\* The deadline is the connection's: another writer's is cleared with it.
Disarm(w) ==
    /\ writers[w].at \in {"disarm", "disarmFailed"}
    /\ deadline' = deadline \ {writers[w].own}
    /\ IF writers[w].at = "disarm"
       THEN writers' = [writers EXCEPT ![w] = At("idle")]
       ELSE Goes(w, "close")
    /\ UNCHANGED <<published, stopping, loop, open, hook>>

Close(w) ==
    /\ writers[w].at = "close"
    /\ open' = open \ {writers[w].own}
    /\ Goes(w, "forget")
    /\ UNCHANGED <<published, stopping, loop, deadline, hook>>

WriterForgets(w) ==
    /\ writers[w].at = "forget"
    /\ Forget(writers[w].own)
    /\ writers' = [writers EXCEPT ![w] = At("idle")]
    /\ UNCHANGED <<stopping, loop, open, deadline, hook>>

------------------------------------------------------------------------------
(* Stop.                                                                   *)

StopBegins ==
    /\ stop = "none"
    /\ stopCh' = TRUE /\ stop' = "close"
    /\ UNCHANGED <<published, loop, writers, open, deadline, hook>>

StopCloses ==
    /\ stop = "close"
    /\ open' = open \ {conn}
    /\ conn' = NoConn
    /\ stop' = "flag"
    /\ UNCHANGED <<connected, stopCh, loop, writers, deadline, hook>>

StopFlags ==
    /\ stop = "flag"
    /\ connected' = FALSE
    /\ stop' = "done"
    /\ UNCHANGED <<conn, stopCh, loop, writers, open, deadline, hook>>

------------------------------------------------------------------------------
(* The hook: a mission begins or ends; a connection is dropped.            *)

Listen ==
    /\ accepting' = ~accepting
    /\ UNCHANGED <<published, stopping, loop, writers, open, deadline, live>>

Drop(c) ==
    /\ c \in live
    /\ live' = live \ {c}
    /\ UNCHANGED <<published, stopping, loop, writers, open, deadline, accepting>>

------------------------------------------------------------------------------
Start ==
    \/ LoopCheck \/ DialFails \/ CheckAgain \/ Publish \/ Flag
    \/ ReadEnds \/ LoopForgets \/ PauseEnds
    \/ \E c \in Conns : Dial(c)

Stop == StopCloses \/ StopFlags

\* What a Send does by itself, whether the hook reads or not.
Send(w) ==
    Arm(w) \/ Turn(w) \/ WriteFails(w) \/ Disarm(w) \/ Close(w) \/ WriterForgets(w)

Next ==
    \/ Start \/ ReadGivesUp
    \/ StopBegins \/ Stop
    \/ \E w \in Writers : Take(w) \/ Send(w) \/ WriteDone(w)
    \/ Listen \/ \E c \in Conns : Drop(c)

Spec == Init /\ [][Next]_vars

\* Goroutines that can run do run, and timers and deadlines expire.
Fairness == WF_vars(Start) /\ WF_vars(Stop) /\ \A w \in Writers : WF_vars(Send(w))

FairSpec == Spec /\ Fairness

------------------------------------------------------------------------------
(* Properties.                                                             *)

Places == {"check", "dial", "dialed", "publish", "flag", "read", "forget", "pause", "done"}
Stages == {"idle", "arm", "wait", "write", "disarm", "disarmFailed", "close", "forget"}

LinkTypeOK ==
    /\ conn \in Conns \cup {NoConn}
    /\ connected \in BOOLEAN /\ stopCh \in BOOLEAN /\ accepting \in BOOLEAN
    /\ stop \in {"none", "close", "flag", "done"}
    /\ loop \in [at : Places, own : Conns \cup {NoConn}]
    /\ writers \in [Writers -> [at : Stages, own : Conns \cup {NoConn}]]
    /\ open \subseteq Conns /\ deadline \subseteq Conns /\ live \subseteq Conns

\* The published connection is the one the loop reads, so somebody finds out
\* when it ends.  (Start, Send)
PublishedIsRead ==
    conn # NoConn => conn = loop.own /\ loop.at \in {"flag", "read", "forget"}

\* While the loop reads the published connection, IsConnected says so: a Send
\* that failed on an older connection does not take the flag down, which
\* would have the coordinator send nothing more.  (Send, Start)
ReadingIsFlagged ==
    (loop.at = "read" /\ conn = loop.own /\ stop = "none") => connected

\* Types and the two together: what the connection is, who reads it and what the
\* flag says of it fit, whatever Sends on older connections come to.
ConnectionIsTracked == LinkTypeOK /\ PublishedIsRead /\ ReadingIsFlagged

\* A connection is withdrawn only when it is closed, by whoever closed it, or by
\* the loop that was reading it: not by a Send that failed on an older one.
ConnIsKept ==
    [][(conn # NoConn /\ conn' # conn) =>
           conn \notin open' \/ (loop.at = "forget" /\ loop.own = conn)]_vars

\* While the hook listens and nobody stops it, the program comes back to a
\* connection.  (Start)
Reconnects ==
    (conn = NoConn) ~> (conn # NoConn \/ ~accepting \/ stopCh)

\* "Set a write deadline so a slow Lua reader doesn't block the coordinator
\* indefinitely" (server.go:159): a Send comes back, whatever the hook does.
\* This is so with one writer; another one clears the deadline with its own.
SendReturns == \A w \in Writers : (writers[w].at = "arm") ~> (writers[w].at = "idle")
=============================================================================
