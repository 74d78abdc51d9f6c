-------------------------- MODULE AisClientProofs --------------------------
(***************************************************************************)
(* Proofs about the AIS client, for any number of starts, of sockets (more *)
(* than there can be loops, so that one is always free) and of theatres.   *)
(*                                                                         *)
(* A loop looks at the client's stop channel of the moment, which need not *)
(* be its own.  The loop of the last Start still cannot be ended by an     *)
(* older Stop, because channels are numbered as the loops are, only those  *)
(* up to the last are closed, and a loop that backs off waits for a        *)
(* channel no older than itself (ChannelsInOrder).                         *)
(***************************************************************************)
EXTENDS AisClient, FiniteSetTheorems, TLAPS

\* A loop that is not connected refers to no socket, so that another is free.
HoldsNone ==
    \A l \in Starts : loops[l].at \in {"none", "top", "dial", "backoff"} => loops[l].own = None

ChannelsInOrder ==
    /\ \A c \in closed : c <= stopCh
    /\ running => stopCh # None /\ stopCh \notin closed
    /\ \A l \in Starts :
          /\ l > stopCh <=> loops[l].at = "none"
          /\ loops[l].at = "backoff" => l <= loops[l].on /\ loops[l].on <= stopCh

HasLoop == running => loops[stopCh].at \notin {"none", "done"}

ClientInv == AisTypeOK /\ HoldsNone /\ ChannelsInOrder /\ HasLoop

------------------------------------------------------------------------------
\* The service can always be given a name for one socket more.
LEMMA FreeSocket ==
    ASSUME ClientInv, NEW l \in Starts, loops[l].at = "dial"
    PROVE  \E s \in Sockets : s \notin Referenced
<1> SUFFICES ASSUME \A s \in Sockets : s \in Referenced PROVE FALSE
  OBVIOUS
<1> DEFINE Refers(i, s) == IF i = l THEN s = conn ELSE s = loops[i].own
           f == [s \in Sockets |-> CHOOSE i \in Starts : Refers(i, s)]
<1>1. loops[l].own \notin Sockets
  BY AisAssumption DEF ClientInv, HoldsNone, None
<1>2. \A s \in Sockets : \E i \in Starts : Refers(i, s)
  BY <1>1 DEF Referenced
<1> HIDE DEF Refers
<1>3. f \in [Sockets -> Starts] /\ \A s \in Sockets : Refers(f[s], s)
  BY <1>2
<1>4. IsFiniteSet(Starts) /\ Cardinality(Starts) = MaxStarts
  BY FS_Interval, AisAssumption DEF Starts
<1> HIDE DEF f
<1>5. PICK x, y \in Sockets : x # y /\ f[x] = f[y]
  BY <1>3, <1>4, FS_PigeonHole, AisAssumption
<1> QED
  BY <1>3, <1>5 DEF Refers

LEMMA ClientInit == Init => ClientInv
<1> SUFFICES ASSUME Init PROVE ClientInv
  OBVIOUS
<1> USE AisAssumption DEF Init, NotStarted, None, Starts
<1>1. AisTypeOK
  BY DEF AisTypeOK
<1>2. HoldsNone /\ ChannelsInOrder /\ HasLoop
  BY DEF HoldsNone, ChannelsInOrder, HasLoop
<1> QED
  BY <1>1, <1>2 DEF ClientInv

LoopState ==
    [at : {"none", "top", "dial", "backoff", "store", "flag", "capture", "check", "read",
           "lost", "done"},
     on : Starts \cup {None}, own : Sockets \cup {None}]

\* What every step of a loop keeps to: it ends only on a channel that is closed, and
\* backs off for the newest.
Moves(l, new) ==
    /\ loops' = [loops EXCEPT ![l] = new]
    /\ new \in LoopState /\ new.at # "none"
    /\ new.at \in {"store", "check", "read"} => new.own # None
    /\ new.at \in {"top", "dial", "backoff"} => new.own = None
    /\ new.at = "backoff" => new.on = stopCh
    /\ new.at = "done" =>
          stopCh \in closed \/ (loops[l].at = "backoff" /\ loops[l].on \in closed)

LEMMA LoopMoves ==
    ASSUME ClientInv, NEW l \in Starts, Loop(l) \/ Message(l)
    PROVE  \E new : Moves(l, new)
<1> USE DEF Goes
<1>1. /\ loops \in [Starts -> LoopState]
      /\ loops[l].at \in {"store", "check", "read"} => loops[l].own # None
      /\ loops[l].at \in {"none", "top", "dial", "backoff"} => loops[l].own = None
  BY DEF ClientInv, AisTypeOK, HoldsNone, LoopState
<1>2. stopCh \in Starts \cup {None} /\ conn \in Sockets \cup {None} /\ None \notin Sockets
  BY AisAssumption DEF ClientInv, AisTypeOK, None
<1>3. CASE LoopCheck(l)
  <2> DEFINE where == IF stopCh \in closed THEN "done" ELSE "dial"
             new == [loops[l] EXCEPT !.at = where]
  <2>1. loops' = [loops EXCEPT ![l] = new] /\ loops[l].at = "top"
    BY <1>1, <1>3 DEF LoopCheck, Stopped
  <2>2. new \in LoopState /\ new.at = where /\ new.own = loops[l].own
    BY <1>1 DEF LoopState
  <2> HIDE DEF new
  <2>3. Moves(l, new)
    BY <1>1, <2>1, <2>2 DEF Moves
  <2> QED
    BY <2>3
<1>4. CASE DialFails(l)
  <2> DEFINE new == [loops[l] EXCEPT !.at = "backoff", !.on = stopCh]
  <2>1. Moves(l, new)
    BY <1>1, <1>2, <1>4 DEF Moves, DialFails, LoopState
  <2> QED
    BY <2>1
<1>5. CASE BackoffEnds(l)
  <2>1. PICK where \in {AfterBackoff} \cup (IF loops[l].on \in closed THEN {"done"} ELSE {}) :
            loops' = [loops EXCEPT ![l].at = where, ![l].on = None]
    BY <1>5 DEF BackoffEnds
  <2> DEFINE new == [loops[l] EXCEPT !.at = where, !.on = None]
  <2>2. Moves(l, new)
    BY <1>1, <1>5, <2>1 DEF Moves, BackoffEnds, AfterBackoff, LoopState
  <2> QED
    BY <2>2
<1>6. CASE Store(l)
  <2> DEFINE new == [loops[l] EXCEPT !.at = "flag"]
  <2>1. Moves(l, new)
    BY <1>1, <1>6 DEF Moves, Store, LoopState
  <2> QED
    BY <2>1
<1>7. CASE Flag(l)
  <2> DEFINE new == [loops[l] EXCEPT !.at = "capture"]
  <2>1. Moves(l, new)
    BY <1>1, <1>7 DEF Moves, Flag, LoopState
  <2> QED
    BY <2>1
<1>8. CASE Capture(l)
  <2> DEFINE new == [loops[l] EXCEPT !.at = Captured, !.own = conn]
  <2>1. Moves(l, new)
    BY <1>1, <1>2, <1>8 DEF Moves, Capture, Captured, LoopState
  <2> QED
    BY <2>1
<1>9. CASE CheckRead(l)
  <2> DEFINE new == [loops[l] EXCEPT !.at = IF stopCh \in closed THEN "lost" ELSE "read"]
  <2>1. Moves(l, new)
    BY <1>1, <1>9 DEF Moves, CheckRead, LoopState
  <2> QED
    BY <2>1
<1>10. CASE Message(l)
  <2> DEFINE new == [loops[l] EXCEPT !.at = "check"]
  <2>1. Moves(l, new)
    BY <1>1, <1>10 DEF Moves, Message, LoopState
  <2> QED
    BY <2>1
<1>11. CASE ReadFails(l)
  <2> DEFINE new == [loops[l] EXCEPT !.at = "lost"]
  <2>1. Moves(l, new)
    BY <1>1, <1>11 DEF Moves, ReadFails, LoopState
  <2> QED
    BY <2>1
<1>12. CASE Lost(l)
  <2> DEFINE new == [loops[l] EXCEPT !.at = "top", !.own = None]
  <2>1. Moves(l, new)
    BY <1>1, <1>12 DEF Moves, Lost, LoopState
  <2> QED
    BY <2>1
<1> QED
  BY <1>3, <1>4, <1>5, <1>6, <1>7, <1>8, <1>9, <1>10, <1>11, <1>12 DEF Loop

LEMMA LoopKeeps ==
    ASSUME ClientInv, NEW l \in Starts, Loop(l) \/ Message(l)
    PROVE  ClientInv'
<1>1. PICK new : Moves(l, new)
  BY LoopMoves
<1>2. loops[l].at \notin {"none", "done"}
  BY DEF Loop, Message, LoopCheck, DialFails, BackoffEnds, Store, Flag, Capture, CheckRead,
     ReadFails, Lost
<1>3. UNCHANGED <<running, stopCh, closed, boxes, stream, manager>>
  BY DEF Loop, Message, LoopCheck, DialFails, BackoffEnds, Store, Flag, Capture, CheckRead,
     ReadFails, Lost, client, stream, manager
<1>4. conn' \in Sockets \cup {None} /\ connected' \in BOOLEAN
  BY DEF Loop, Message, LoopCheck, DialFails, BackoffEnds, Store, Flag, Capture, CheckRead,
     ReadFails, Lost, FlagAfterLoss, client, ClientInv, AisTypeOK
<1>5. loops \in [Starts -> LoopState] /\ loops' \in [Starts -> LoopState]
  BY <1>1 DEF Moves, ClientInv, AisTypeOK, LoopState
<1>6. loops'[l] = new /\ \A k \in Starts : k # l => loops'[k] = loops[k]
  BY <1>1, <1>5 DEF Moves
<1>7. AisTypeOK'
  BY <1>1, <1>3, <1>4, <1>5, <1>6 DEF ClientInv, AisTypeOK, LoopState, Moves, stream, manager
<1>8. HoldsNone'
  BY <1>1, <1>6 DEF ClientInv, HoldsNone, Moves
<1>9. stopCh \in Nat /\ Starts \subseteq Nat
  BY AisAssumption DEF ClientInv, AisTypeOK, Starts, None
<1>10. ChannelsInOrder'
  <2>1. l <= stopCh
    BY <1>2, <1>9 DEF ClientInv, ChannelsInOrder
  <2> QED
    BY <1>1, <1>3, <1>6, <1>9, <2>1 DEF ClientInv, ChannelsInOrder, Moves
<1>11. HasLoop'
  <2>1. SUFFICES ASSUME running, l = stopCh PROVE new.at # "done"
    BY <1>1, <1>3, <1>6 DEF ClientInv, ChannelsInOrder, HasLoop, AisTypeOK, Moves
  <2>2. stopCh \notin closed /\ (loops[l].at = "backoff" => loops[l].on = stopCh)
    BY <1>5, <1>9, <2>1 DEF ClientInv, ChannelsInOrder, LoopState, None, Starts
  <2> QED
    BY <1>1, <2>2 DEF Moves
<1> QED
  BY <1>7, <1>8, <1>10, <1>11 DEF ClientInv

LEMMA DialKeeps ==
    ASSUME ClientInv, NEW l \in Starts, Dial(l)
    PROVE  ClientInv'
<1> DEFINE s == CHOOSE s \in Sockets : s \notin Referenced
<1>1. s \in Sockets
  BY FreeSocket DEF Dial
<1> HIDE DEF s
<1>2. /\ open' = (open \cap Referenced) \cup {s}
      /\ sub' = [t \in Sockets |->
                     IF t = s THEN boxes ELSE IF t \in Referenced THEN sub[t] ELSE {}]
      /\ loops' = [loops EXCEPT ![l].at = "store", ![l].own = s]
      /\ loops[l].at = "dial"
      /\ UNCHANGED <<client, connected, manager>>
  BY DEF Dial, s
<1> USE <1>1, <1>2, AisAssumption DEF ClientInv, client, manager
<1>3. AisTypeOK'
  <2>1. loops' \in [Starts ->
          [at : {"none", "top", "dial", "backoff", "store", "flag", "capture",
                 "check", "read", "lost", "done"},
           on : Starts \cup {None}, own : Sockets \cup {None}]]
    <3> DEFINE new == [loops[l] EXCEPT !.at = "store", !.own = s]
    <3>1. loops \in [Starts -> LoopState] /\ loops' = [loops EXCEPT ![l] = new]
      BY DEF AisTypeOK, LoopState
    <3>2. new \in LoopState
      BY <3>1 DEF LoopState
    <3> QED
      BY <3>1, <3>2 DEF LoopState
  <2>2. \A k \in Starts : loops'[k].at \in {"store", "check", "read"} => loops'[k].own # None
    BY DEF AisTypeOK, None
  <2>3. open' \subseteq Sockets /\ sub' \in [Sockets -> SUBSET Theatres]
    BY DEF AisTypeOK
  <2> QED
    BY <2>1, <2>2, <2>3 DEF AisTypeOK
<1>4. HoldsNone'
  BY DEF HoldsNone, AisTypeOK
<1>5. ChannelsInOrder'
  BY DEF ChannelsInOrder, AisTypeOK
<1>6. HasLoop'
  BY DEF HasLoop, ChannelsInOrder, AisTypeOK, Starts, None
<1> QED
  BY <1>3, <1>4, <1>5, <1>6

\* The manager's part, and the service's: Start makes a channel and a loop that are
\* newer than all, and Stop closes the last.
LEMMA RestartKeeps ==
    ASSUME ClientInv, NEW r \in Refreshers, Refresh(r)
    PROVE  ClientInv'
<1>1. CASE TimerFires(r) \/ Compute(r)
  <2> USE <1>1 DEF ClientInv, TimerFires, Compute, activeBoxes, client, stream
  <2>1. refreshers' \in [Refreshers ->
            [at : {"idle", "compute", "stop", "start"}, boxes : SUBSET Theatres]]
    BY DEF AisTypeOK
  <2>2. AisTypeOK'
    BY <2>1 DEF AisTypeOK
  <2>3. HoldsNone' /\ ChannelsInOrder' /\ HasLoop'
    BY DEF HoldsNone, ChannelsInOrder, HasLoop
  <2> QED
    BY <2>2, <2>3
<1>2. CASE RefreshStops(r)
  <2> USE <1>2 DEF ClientInv, RefreshStops, Halt, client
  <2>1. refreshers' \in [Refreshers ->
            [at : {"idle", "compute", "stop", "start"}, boxes : SUBSET Theatres]]
    BY DEF AisTypeOK
  <2>2. running' \in BOOLEAN /\ connected' \in BOOLEAN /\ closed' \subseteq Starts
    BY DEF AisTypeOK, ChannelsInOrder
  <2>3. /\ conn' \in Sockets \cup {None} /\ open' \subseteq Sockets
        /\ UNCHANGED <<stopCh, boxes, loops, sub, wanted, due>>
    BY DEF AisTypeOK
  <2>4. AisTypeOK'
    BY <2>1, <2>2, <2>3 DEF AisTypeOK
  <2>5. HoldsNone' /\ HasLoop'
    BY DEF HoldsNone, HasLoop, AisTypeOK
  <2>6. ChannelsInOrder'
    BY AisAssumption DEF ChannelsInOrder, AisTypeOK, Starts, None
  <2> QED
    BY <2>4, <2>5, <2>6
<1>3. CASE RefreshStarts(r)
  <2> USE <1>3 DEF ClientInv, RefreshStarts
  <2>1. refreshers' \in [Refreshers ->
            [at : {"idle", "compute", "stop", "start"}, boxes : SUBSET Theatres]]
        /\ refreshers[r].boxes \subseteq Theatres
    BY DEF AisTypeOK
  <2>2. CASE running
    <3>1. AisTypeOK'
      BY <2>1, <2>2 DEF AisTypeOK, Begin, client, stream
    <3> QED
      BY <2>2, <3>1 DEF HoldsNone, ChannelsInOrder, HasLoop, Begin, client
  <2>3. CASE ~running
    <3> DEFINE n == stopCh + 1
    <3>1. n \in Starts /\ stopCh \in Nat
      BY <2>3, AisAssumption DEF Begin, AisTypeOK, Starts, None
    <3>2. /\ running' = TRUE /\ stopCh' = n /\ boxes' = refreshers[r].boxes
          /\ loops' = [loops EXCEPT ![n].at = "top"]
          /\ UNCHANGED <<closed, conn, connected, open, sub, wanted, due>>
      BY <2>3 DEF Begin, FreshChannel, stream
    <3> HIDE DEF n
    <3>3. loops[n].at = "none" /\ loops[n].own = None
      BY <3>1 DEF ChannelsInOrder, HoldsNone, n
    <3>4. AisTypeOK'
      BY <2>1, <3>1, <3>2 DEF AisTypeOK
    <3>5. HoldsNone'
      BY <3>1, <3>2, <3>3 DEF HoldsNone, AisTypeOK
    <3>6. HasLoop'
      BY <3>1, <3>2 DEF HasLoop, AisTypeOK
    <3>7. ChannelsInOrder'
      <4>1. \A c \in closed' : c <= stopCh'
        BY <3>1, <3>2 DEF ChannelsInOrder, AisTypeOK, Starts, n
      <4>2. running' => stopCh' # None /\ stopCh' \notin closed'
        BY <3>1, <3>2 DEF ChannelsInOrder, AisTypeOK, Starts, None, n
      <4>3. \A k \in Starts : loops'[k].on = loops[k].on
                /\ loops'[k].at = IF k = n THEN "top" ELSE loops[k].at
        BY <3>2 DEF AisTypeOK
      <4>4. \A k \in Starts : k > stopCh' <=> loops'[k].at = "none"
        BY <3>1, <3>2, <4>3 DEF ChannelsInOrder, Starts, n
      <4>5. \A k \in Starts :
                loops'[k].at = "backoff" => k <= loops'[k].on /\ loops'[k].on <= stopCh'
        BY <3>1, <3>2, <4>3 DEF ChannelsInOrder, AisTypeOK, Starts, None, n
      <4> QED
        BY <4>1, <4>2, <4>4, <4>5 DEF ChannelsInOrder
    <3> QED
      BY <3>4, <3>5, <3>6, <3>7
  <2> QED
    BY <2>2, <2>3 DEF AisTypeOK
<1> QED
  BY <1>1, <1>2, <1>3 DEF Refresh

LEMMA OthersKeep ==
    ASSUME ClientInv,
           \/ \E s \in Sockets : Drop(s)
           \/ \E r \in Refreshers, W \in SUBSET Theatres : Change(r, W)
           \/ UNCHANGED vars
    PROVE  ClientInv'
<1> USE DEF ClientInv, Drop, Change, vars, client, manager, stream
<1>1. due' \in BOOLEAN /\ wanted' \subseteq Theatres /\ open' \subseteq Sockets
  BY DEF AisTypeOK
<1>2. refreshers' \in [Refreshers ->
          [at : {"idle", "compute", "stop", "start"}, boxes : SUBSET Theatres]]
  <2>1. CASE refreshers' = refreshers
    BY <2>1 DEF AisTypeOK
  <2>2. CASE \E r \in Refreshers : refreshers' = [refreshers EXCEPT ![r].at = "compute"]
    BY <2>2 DEF AisTypeOK
  <2> QED
    BY <2>1, <2>2
<1>3. AisTypeOK'
  BY <1>1, <1>2 DEF AisTypeOK
<1>4. HoldsNone' /\ ChannelsInOrder' /\ HasLoop'
  BY DEF HoldsNone, ChannelsInOrder, HasLoop
<1> QED
  BY <1>3, <1>4

------------------------------------------------------------------------------
\* In every behaviour of the client, of its loops and of those who restart it, the
\* stop channels are in the order of the starts.  (Start, Stop, loop)
THEOREM ClientInvariance == Spec => []ClientInv
<1>1. ClientInv /\ [Next]_vars => ClientInv'
  BY LoopKeeps, DialKeeps, RestartKeeps, OthersKeep DEF Next
<1> QED
  BY ClientInit, <1>1, PTL DEF Spec

\* A client that is running has its own loop at work, whatever loops and channels of
\* earlier starts there still are.  (Start, loop)
THEOREM LoopAtWork == Spec => []RunningHasLoop
<1>1. ClientInv => RunningHasLoop
  BY DEF ClientInv, HasLoop, RunningHasLoop
<1> QED
  BY <1>1, ClientInvariance, PTL

------------------------------------------------------------------------------
(* One refresh at a time.                                                  *)

OneRefresher == \A r, q \in Refreshers : r = q

\* What a refresh that is under way knows, and what is left when it has ended.
RefreshKnows ==
    \/ due
    \/ \E r \in Refreshers :
          LET at == refreshers[r].at IN
          \/ at = "compute"
          \/ at = "stop" /\ refreshers[r].boxes = wanted
          \/ at = "start" /\ ~running /\ wanted # {} /\ refreshers[r].boxes = wanted
    \/ Quiet /\ (running <=> wanted # {}) /\ (running => boxes = wanted)

LEMMA KnowsKeeps ==
    ASSUME OneRefresher, AisTypeOK, RefreshKnows, [Next]_vars
    PROVE  RefreshKnows'
<1> USE DEF RefreshKnows, AisTypeOK, Quiet, client, manager, stream
<1>1. CASE \E l \in Starts : Loop(l) \/ Message(l) \/ Dial(l)
  BY <1>1 DEF Loop, LoopCheck, DialFails, BackoffEnds, Store, Flag, Capture, CheckRead, Message,
     ReadFails, Lost, Dial
<1>2. CASE (\E s \in Sockets : Drop(s)) \/ UNCHANGED vars
  BY <1>2 DEF Drop, vars
<1>3. ASSUME NEW r \in Refreshers, NEW W \in SUBSET Theatres, Change(r, W)
      PROVE  RefreshKnows'
  BY <1>3 DEF Change
<1>4. ASSUME NEW r \in Refreshers, Refresh(r)
      PROVE  RefreshKnows'
  <2>1. \A q \in Refreshers : q = r
    BY DEF OneRefresher
  <2>2. CASE TimerFires(r) \/ Compute(r)
    BY <2>1, <2>2 DEF TimerFires, Compute, activeBoxes
  <2>3. CASE RefreshStops(r)
    BY <2>1, <2>3 DEF RefreshStops, Halt
  <2>4. CASE RefreshStarts(r)
    BY <2>1, <2>4 DEF RefreshStarts, Begin
  <2> QED
    BY <1>4, <2>2, <2>3, <2>4 DEF Refresh
<1> QED
  BY <1>1, <1>2, <1>3, <1>4 DEF Next

\* While refreshes do not overlap, the client that is left by them runs if and only
\* if something is wanted, for just that.  (RefreshAIS)
THEOREM RestartsMatch ==
    ASSUME OneRefresher
    PROVE  Spec => []RefreshMatches
<1>1. Init => RefreshKnows
  BY DEF Init, RefreshKnows
<1>2. ClientInv /\ RefreshKnows /\ [Next]_vars => RefreshKnows'
  BY KnowsKeeps DEF ClientInv
<1>3. RefreshKnows => RefreshMatches
  BY DEF RefreshKnows, RefreshMatches, Quiet, activeBoxes
<1> QED
  BY <1>1, <1>2, <1>3, ClientInvariance, PTL DEF Spec
=============================================================================
