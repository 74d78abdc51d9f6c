---------------------------- MODULE DcsLinkProofs ----------------------------
(***************************************************************************)
(* What DcsLink promises for any number of writers: the published          *)
(* connection is the one that is read, and its flag is up.                 *)
(***************************************************************************)
EXTENDS DcsLink, TLAPS

\* A loop that is past its dial has a connection.
LoopHasOwn ==
    loop.at \in {"dialed", "publish", "flag", "read", "forget"} => loop.own \in Conns

\* So has a Send under way.
WriterHasOwn ==
    \A w \in Writers : writers[w].at # "idle" => writers[w].own \in Conns

\* A Send that is about to withdraw its connection has closed it.
ForgottenIsClosed ==
    \A w \in Writers : writers[w].at = "forget" => writers[w].own \notin open

LinkInv ==
    /\ LinkTypeOK /\ PublishedIsRead /\ ReadingIsFlagged
    /\ LoopHasOwn /\ WriterHasOwn /\ ForgottenIsClosed

\* The inductive invariant holds at first.
LEMMA LinkInitially == Init => LinkInv
  <1> SUFFICES ASSUME Init PROVE LinkInv
    OBVIOUS
  <1>1. loop = [at |-> "check", own |-> NoConn]
        /\ \A w \in Writers : writers[w] = [at |-> "idle", own |-> NoConn]
    BY DEF Init, At
  <1>2. LinkTypeOK
    <2>1. writers \in [Writers -> [at : Stages, own : Conns \cup {NoConn}]]
      BY DEF Init, At, Stages
    <2>2. loop \in [at : Places, own : Conns \cup {NoConn}]
      BY <1>1 DEF Places
    <2> QED
      BY <2>1, <2>2 DEF Init, LinkTypeOK
  <1> QED
    BY <1>1, <1>2 DEF Init, LinkInv, PublishedIsRead, ReadingIsFlagged, LoopHasOwn,
                      WriterHasOwn, ForgottenIsClosed

\* The loop's steps keep it.
LEMMA LoopKeeps == LinkInv /\ (Start \/ ReadGivesUp) => LinkInv'
  <1> SUFFICES ASSUME LinkInv, Start \/ ReadGivesUp PROVE LinkInv'
    OBVIOUS
  <1> USE LinkAssumption
      DEF LinkInv, LinkTypeOK, PublishedIsRead, ReadingIsFlagged, LoopHasOwn, WriterHasOwn,
          ForgottenIsClosed, At, Places, Stages, published, stopping, hook
  <1>1. CASE LoopCheck
    BY <1>1 DEF LoopCheck
  <1>2. CASE DialFails
    BY <1>2 DEF DialFails, DialFailed
  <1>3. CASE CheckAgain
    BY <1>3 DEF CheckAgain
  <1>4. CASE Publish
    BY <1>4 DEF Publish
  <1>5. CASE Flag
    BY <1>5 DEF Flag
  <1>6. CASE ReadEnds
    BY <1>6 DEF ReadEnds
  <1>7. CASE ReadGivesUp
    BY <1>7 DEF ReadGivesUp
  <1>8. CASE LoopForgets
    BY <1>8 DEF LoopForgets, Forget, Without, FlagWithout
  <1>9. CASE PauseEnds
    BY <1>9 DEF PauseEnds
  <1>10. CASE \E c \in Conns : Dial(c)
    BY <1>10 DEF Dial, Referenced
  <1> QED
    BY <1>1, <1>2, <1>3, <1>4, <1>5, <1>6, <1>7, <1>8, <1>9, <1>10 DEF Start

\* A Send's steps keep it: what it withdraws is its own connection.
LEMMA SendKeeps ==
  ASSUME LinkInv, NEW w \in Writers, Take(w) \/ Send(w) \/ WriteDone(w)
  PROVE  LinkInv'
  <1> USE LinkAssumption
      DEF LinkInv, LinkTypeOK, PublishedIsRead, ReadingIsFlagged, LoopHasOwn, WriterHasOwn,
          ForgottenIsClosed, At, Goes, Stages, published, stopping, hook
  <1>1. CASE Take(w)
    BY <1>1 DEF Take
  <1>2. CASE Arm(w)
    BY <1>2 DEF Arm, Armed
  <1>3. CASE Turn(w)
    BY <1>3 DEF Turn
  <1>4. CASE WriteFails(w)
    BY <1>4 DEF WriteFails
  <1>5. CASE Disarm(w)
    BY <1>5 DEF Disarm
  <1>6. CASE Close(w)
    BY <1>6 DEF Close
  <1>7. CASE WriterForgets(w)
    BY <1>7 DEF WriterForgets, Forget, Without, FlagWithout
  <1>8. CASE WriteDone(w)
    BY <1>8 DEF WriteDone
  <1> QED
    BY <1>1, <1>2, <1>3, <1>4, <1>5, <1>6, <1>7, <1>8 DEF Send

\* So do Stop and the hook.
LEMMA OthersKeep ==
  LinkInv /\ (StopBegins \/ Stop \/ Listen \/ \E c \in Conns : Drop(c)) => LinkInv'
  <1> USE LinkAssumption
      DEF LinkInv, LinkTypeOK, PublishedIsRead, ReadingIsFlagged, LoopHasOwn, WriterHasOwn,
          ForgottenIsClosed, published, stopping, hook
  <1>1. ASSUME LinkInv, StopBegins PROVE LinkInv'
    BY <1>1 DEF StopBegins
  <1>2. ASSUME LinkInv, Stop PROVE LinkInv'
    BY <1>2 DEF Stop, StopCloses, StopFlags
  <1>3. ASSUME LinkInv, Listen \/ \E c \in Conns : Drop(c) PROVE LinkInv'
    BY <1>3 DEF Listen, Drop
  <1> QED
    BY <1>1, <1>2, <1>3

\* Every step, or none, keeps it.
LEMMA LinkInductive == LinkInv /\ [Next]_vars => LinkInv'
  <1>1. LinkInv /\ UNCHANGED vars => LinkInv'
    BY DEF LinkInv, LinkTypeOK, PublishedIsRead, ReadingIsFlagged, LoopHasOwn, WriterHasOwn,
           ForgottenIsClosed, vars, published, stopping, hook
  <1> QED
    BY <1>1, LoopKeeps, SendKeeps, OthersKeep DEF Next

\* The invariant holds throughout, for any writers and connections.
THEOREM LinkInvariance == Spec => []LinkInv
  BY LinkInitially, LinkInductive, PTL DEF Spec

\* The variables keep their types.
THEOREM LinkTypeCorrect == Spec => []LinkTypeOK
  <1>1. LinkInv => LinkTypeOK
    BY DEF LinkInv
  <1> QED
    BY <1>1, LinkInvariance, PTL

\* What is published is what the loop reads, so that its end is noticed.
THEOREM PublishedConnectionIsRead == Spec => []PublishedIsRead
  <1>1. LinkInv => PublishedIsRead
    BY DEF LinkInv
  <1> QED
    BY <1>1, LinkInvariance, PTL

\* While it is read, IsConnected says that it is there, whatever Sends on older
\* connections come to.
THEOREM ReadConnectionIsFlagged == Spec => []ReadingIsFlagged
  <1>1. LinkInv => ReadingIsFlagged
    BY DEF LinkInv
  <1> QED
    BY <1>1, LinkInvariance, PTL

\* Connection, reader and flag fit, for any writers and connections.
THEOREM ConnectionTracked == Spec => []ConnectionIsTracked
  BY LinkTypeCorrect, PublishedConnectionIsRead, ReadConnectionIsFlagged, PTL
     DEF ConnectionIsTracked

\* A Send withdraws nobody's connection but its own, which it has closed.
THEOREM ConnectionIsKept == Spec => ConnIsKept
  <1> DEFINE Withdrawn == (conn # NoConn /\ conn' # conn) =>
                conn \notin open' \/ (loop.at = "forget" /\ loop.own = conn)
  <1>1. ASSUME LinkInv, Next PROVE Withdrawn
    <2> USE <1>1 DEF LinkInv, PublishedIsRead, ForgottenIsClosed, published
    <2>1. CASE Start \/ ReadGivesUp
      BY <2>1 DEF Start, LoopCheck, DialFails, CheckAgain, Publish, Flag, ReadEnds,
                  ReadGivesUp, LoopForgets, Forget, Without, PauseEnds, Dial
    <2>2. CASE \E w \in Writers : Take(w) \/ Send(w) \/ WriteDone(w)
      BY <2>2 DEF Take, Send, WriteDone, Arm, Turn, WriteFails, Disarm, Close,
                  WriterForgets, Forget, Without
    <2>3. CASE StopBegins \/ Stop \/ Listen \/ \E c \in Conns : Drop(c)
      BY <2>3 DEF StopBegins, Stop, StopCloses, StopFlags, Listen, Drop
    <2> QED
      BY <2>1, <2>2, <2>3 DEF Next
  <1>2. LinkInv /\ [Next]_vars => [Withdrawn]_vars
    BY <1>1
  <1> QED
    BY <1>2, LinkInvariance, PTL DEF Spec, ConnIsKept
=============================================================================
