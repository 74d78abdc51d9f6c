----------------------------- MODULE HookProofs -----------------------------
(***************************************************************************)
(* Proofs about the hook, for any groups, budgets, limits and number of    *)
(* commands: what is run, is run in the order it was written, kind by      *)
(* kind, nothing outlives a clear or a mission, nothing is lost, and what  *)
(* is tracked is not destroyed.                                            *)
(*                                                                         *)
(* A command passes through five sequences: written before the connection  *)
(* was accepted (early), arrived (sock), read (buf), being worked on, kept *)
(* for the next poll.  In each the numbers rise, and each is ahead of those*)
(* before it (InOrder); none of it is too late for what has run (Timely).  *)
(* A command that is kept may be overtaken, by one of the other kind: its  *)
(* own has no budget left (KeptIsOverBudget).                              *)
(***************************************************************************)
EXTENDS Hook, FiniteSetTheorems, TLAPS

\* What poll works on, or will.
Working == IF polling THEN todo ELSE queue

Rising(s) == \A i, j \in 1 .. Len(s) : i < j => s[i].id < s[j].id
Ahead(s, t) == \A i \in 1 .. Len(s), j \in 1 .. Len(t) : s[i].id < t[j].id
Part(t, s) == \A i \in 1 .. Len(t) : \E k \in 1 .. Len(s) : t[i] = s[k]

InOrder ==
    /\ Rising(kept) /\ Rising(Working) /\ Rising(buf) /\ Rising(sock) /\ Rising(early)
    /\ Ahead(kept, Working) /\ Ahead(kept, buf) /\ Ahead(kept, sock) /\ Ahead(kept, early)
    /\ Ahead(Working, buf) /\ Ahead(Working, sock) /\ Ahead(Working, early)
    /\ Ahead(buf, sock) /\ Ahead(buf, early) /\ Ahead(sock, early)

\* c may still run although d has.
After(d, c) ==
    \/ d.cmd = "clear"
    \/ IsCostly(d) /\ IsCostly(c)
    \/ IsReroute(d) /\ IsReroute(c)
    => d.id < c.id

\* Of a sequence, between two numbers and after what has run.
Timely(s, lo, hi, past) ==
    \A i \in 1 .. Len(s) :
        lo < s[i].id /\ s[i].id <= hi /\ \A d \in past : After(d, s[i])

AllTimely ==
    /\ Timely(kept, loaded, sent, ran) /\ Timely(Working, loaded, sent, ran)
    /\ Timely(buf, loaded, sent, ran) /\ Timely(sock, loaded, sent, ran)
    /\ Timely(early, loaded, sent, ran)

KeptIsOverBudget ==
    \A i \in 1 .. Len(kept) :
        /\ IsCostly(kept[i]) => ~CostlyLeft
        /\ IsReroute(kept[i]) => ~ReroutesLeft

Shape ==
    /\ polling \in BOOLEAN /\ waiting \in BOOLEAN
    /\ kept \in Seq(Commands) /\ Working \in Seq(Commands) /\ buf \in Seq(Commands)
    /\ sock \in Seq(Commands) /\ early \in Seq(Commands)
    /\ sent \in 0 .. MaxSent /\ loaded \in 0 .. sent
    /\ costly \in Nat /\ reroutes \in Nat
    /\ ~polling => todo = <<>> /\ kept = <<>>
    /\ ~waiting => early = <<>>
    /\ \A d \in ran : d.id \in 1 .. sent

HookInv == Shape /\ InOrder /\ AllTimely /\ KeptIsOverBudget

------------------------------------------------------------------------------
(* Sequences of commands.                                                  *)

LEMMA CommandIds ==
    ASSUME NEW s \in Seq(Commands)
    PROVE  \A i \in 1 .. Len(s) : s[i] \in Commands /\ s[i].id \in Nat
<1>1. \A i \in 1 .. Len(s) : s[i] \in Commands
  OBVIOUS
<1>2. \A c \in Commands : c.id \in Nat
  BY DEF Commands
<1> QED
  BY <1>1, <1>2

LEMMA ConcatRises ==
    ASSUME NEW s \in Seq(Commands), NEW t \in Seq(Commands),
           Rising(s), Rising(t), Ahead(s, t)
    PROVE  /\ s \o t \in Seq(Commands) /\ Rising(s \o t)
           /\ \A u : Ahead(u, s) /\ Ahead(u, t) => Ahead(u, s \o t)
           /\ \A u : Ahead(s, u) /\ Ahead(t, u) => Ahead(s \o t, u)
           /\ \A lo, hi, p : Timely(s, lo, hi, p) /\ Timely(t, lo, hi, p)
                                => Timely(s \o t, lo, hi, p)
<1> DEFINE st == s \o t
<1>1. /\ st \in Seq(Commands) /\ Len(st) = Len(s) + Len(t)
      /\ Len(s) \in Nat /\ Len(t) \in Nat
  OBVIOUS
<1>2. \A i \in 1 .. Len(st) :
          \/ i \in 1 .. Len(s) /\ st[i] = s[i]
          \/ i - Len(s) \in 1 .. Len(t) /\ i > Len(s) /\ st[i] = t[i - Len(s)]
  OBVIOUS
<1> HIDE DEF st
<1>3. Rising(st)
  <2> SUFFICES ASSUME NEW i \in 1 .. Len(st), NEW j \in 1 .. Len(st), i < j
               PROVE  st[i].id < st[j].id
    BY DEF Rising
  <2>1. CASE i \in 1 .. Len(s) /\ st[i] = s[i]
    BY <1>1, <1>2, <2>1 DEF Rising, Ahead
  <2>2. CASE i > Len(s) /\ i - Len(s) \in 1 .. Len(t) /\ st[i] = t[i - Len(s)]
    <3>1. j - Len(s) \in 1 .. Len(t) /\ st[j] = t[j - Len(s)]
      BY <1>1, <1>2, <2>2
    <3> QED
      BY <1>1, <2>2, <3>1 DEF Rising
  <2> QED
    BY <1>2, <2>1, <2>2
<1>4. \A u : Ahead(u, s) /\ Ahead(u, t) => Ahead(u, st)
  BY <1>2 DEF Ahead
<1>5. \A u : Ahead(s, u) /\ Ahead(t, u) => Ahead(st, u)
  BY <1>2 DEF Ahead
<1>6. \A lo, hi, p : Timely(s, lo, hi, p) /\ Timely(t, lo, hi, p) => Timely(st, lo, hi, p)
  BY <1>2 DEF Timely
<1> QED
  BY <1>1, <1>3, <1>4, <1>5, <1>6 DEF st

\* Cutting a sequence in two.
LEMMA CutRises ==
    ASSUME NEW s \in Seq(Commands), Rising(s), NEW n \in 0 .. Len(s)
    PROVE  LET a == SubSeq(s, 1, n)
               b == SubSeq(s, n + 1, Len(s))
           IN  /\ a \in Seq(Commands) /\ b \in Seq(Commands)
               /\ Rising(a) /\ Rising(b) /\ Ahead(a, b)
               /\ Part(a, s) /\ Part(b, s)
<1> DEFINE a == SubSeq(s, 1, n)
           b == SubSeq(s, n + 1, Len(s))
<1>1. /\ a \in Seq(Commands) /\ Len(a) = n
      /\ \A i \in 1 .. n : a[i] = s[i]
  OBVIOUS
<1>2. /\ b \in Seq(Commands) /\ Len(b) = Len(s) - n
      /\ \A i \in 1 .. (Len(s) - n) : b[i] = s[n + i]
  OBVIOUS
<1> HIDE DEF a, b
<1>3. \A i \in 1 .. Len(a) : i \in 1 .. Len(s) /\ i <= n /\ a[i] = s[i]
  BY <1>1
<1>4. \A i \in 1 .. Len(b) : n + i \in 1 .. Len(s) /\ b[i] = s[n + i]
  BY <1>2
<1>5. Rising(a)
  BY <1>3 DEF Rising
<1>6. Rising(b)
  BY <1>4 DEF Rising
<1>7. Ahead(a, b)
  BY <1>3, <1>4 DEF Rising, Ahead
<1>8. Part(a, s) /\ Part(b, s)
  BY <1>3, <1>4 DEF Part
<1> QED
  BY <1>1, <1>2, <1>5, <1>6, <1>7, <1>8 DEF a, b

LEMMA PartsKeep ==
    ASSUME NEW s, NEW t, Part(t, s)
    PROVE  /\ \A u : Ahead(u, s) => Ahead(u, t)
           /\ \A u : Ahead(s, u) => Ahead(t, u)
           /\ \A lo, hi, p : Timely(s, lo, hi, p) => Timely(t, lo, hi, p)
BY DEF Part, Ahead, Timely

LEMMA HeadAndTail ==
    ASSUME NEW s \in Seq(Commands), s # <<>>, Rising(s)
    PROVE  /\ Head(s) \in Commands /\ Tail(s) \in Seq(Commands)
           /\ Rising(Tail(s)) /\ Part(Tail(s), s)
           /\ \A i \in 1 .. Len(Tail(s)) : Head(s).id < Tail(s)[i].id
           /\ \A u : Ahead(u, s) => \A i \in 1 .. Len(u) : u[i].id < Head(s).id
           /\ \A u : Ahead(s, u) => \A i \in 1 .. Len(u) : Head(s).id < u[i].id
           /\ \A lo, hi, p : Timely(s, lo, hi, p) =>
                 lo < Head(s).id /\ Head(s).id <= hi /\ \A d \in p : After(d, Head(s))
<1>1. /\ Len(s) \in Nat \ {0} /\ Head(s) = s[1] /\ Tail(s) \in Seq(Commands)
      /\ Len(Tail(s)) = Len(s) - 1 /\ \A i \in 1 .. Len(Tail(s)) : Tail(s)[i] = s[i + 1]
  OBVIOUS
<1>2. 1 \in 1 .. Len(s) /\ \A i \in 1 .. Len(Tail(s)) : i + 1 \in 1 .. Len(s)
  BY <1>1
<1>3. Head(s) \in Commands
  BY <1>1, <1>2
<1>4. Rising(Tail(s)) /\ Part(Tail(s), s)
  BY <1>1, <1>2 DEF Rising, Part
<1>5. \A i \in 1 .. Len(Tail(s)) : Head(s).id < Tail(s)[i].id
  BY <1>1, <1>2 DEF Rising
<1> QED
  BY <1>1, <1>2, <1>3, <1>4, <1>5 DEF Ahead, Timely

LEMMA AppendRises ==
    ASSUME NEW s \in Seq(Commands), Rising(s), NEW c \in Commands,
           \A i \in 1 .. Len(s) : s[i].id < c.id
    PROVE  /\ Append(s, c) \in Seq(Commands) /\ Rising(Append(s, c))
           /\ \A u : Ahead(u, s) /\ (\A i \in 1 .. Len(u) : u[i].id < c.id)
                        => Ahead(u, Append(s, c))
           /\ \A u : Ahead(s, u) /\ (\A i \in 1 .. Len(u) : c.id < u[i].id)
                        => Ahead(Append(s, c), u)
           /\ \A i \in 1 .. Len(Append(s, c)) :
                 Append(s, c)[i] = c \/ (i \in 1 .. Len(s) /\ Append(s, c)[i] = s[i])
<1> DEFINE sc == Append(s, c)
<1>1. /\ sc \in Seq(Commands) /\ Len(sc) = Len(s) + 1 /\ Len(s) \in Nat
      /\ sc[Len(s) + 1] = c /\ \A i \in 1 .. Len(s) : sc[i] = s[i]
  OBVIOUS
<1> HIDE DEF sc
<1>2. \A i \in 1 .. Len(sc) :
          (i = Len(s) + 1 /\ sc[i] = c) \/ (i \in 1 .. Len(s) /\ sc[i] = s[i])
  BY <1>1
<1>3. Rising(sc)
  BY <1>1, <1>2 DEF Rising
<1>4. \A u : Ahead(u, s) /\ (\A i \in 1 .. Len(u) : u[i].id < c.id) => Ahead(u, sc)
  BY <1>2 DEF Ahead
<1>5. \A u : Ahead(s, u) /\ (\A i \in 1 .. Len(u) : c.id < u[i].id) => Ahead(sc, u)
  BY <1>2 DEF Ahead
<1> QED
  BY <1>1, <1>2, <1>3, <1>4, <1>5 DEF sc

LEMMA EmptyIsFine ==
    /\ <<>> \in Seq(Commands) /\ Rising(<<>>)
    /\ \A lo, hi, p : Timely(<<>>, lo, hi, p)
    /\ \A u : Ahead(<<>>, u) /\ Ahead(u, <<>>)
BY DEF Rising, Timely, Ahead

\* More is written, and more has run.
LEMMA TimelyGrows ==
    ASSUME NEW s \in Seq(Commands), NEW lo \in Nat, NEW hi \in Nat, NEW new \in Nat, NEW p,
           Timely(s, lo, hi, p), hi <= new
    PROVE  Timely(s, lo, new, p)
BY CommandIds DEF Timely

LEMMA TimelyAfterRun ==
    ASSUME NEW s, NEW lo, NEW hi, NEW p, NEW d,
           Timely(s, lo, hi, p), \A i \in 1 .. Len(s) : After(d, s[i])
    PROVE  Timely(s, lo, hi, p \cup {d})
BY DEF Timely

------------------------------------------------------------------------------
(* The program at the other end, and DCS.                                  *)

LEMMA HookInit == Init => HookInv
<1> SUFFICES ASSUME Init PROVE HookInv
  OBVIOUS
<1> USE DEF Init
<1>1. Working = <<>>
  BY DEF Working
<1>2. sent \in 0 .. MaxSent /\ loaded \in 0 .. sent /\ costly \in Nat /\ reroutes \in Nat
  BY HookAssumption
<1>3. Shape
  BY <1>1, <1>2, EmptyIsFine DEF Shape
<1>4. InOrder /\ AllTimely
  BY <1>1, EmptyIsFine DEF InOrder, AllTimely
<1>5. KeptIsOverBudget
  BY DEF KeptIsOverBudget
<1> QED
  BY <1>3, <1>4, <1>5 DEF HookInv

pipe == <<kept, todo, queue, polling, buf, sock, early, waiting, costly, reroutes>>

LEMMA NothingMoves ==
    ASSUME HookInv, UNCHANGED <<pipe, sent, loaded, ran>>
    PROVE  HookInv'
<1> USE DEF HookInv, pipe
<1>1. Working' = Working
  BY DEF Working
<1>2. Shape' /\ InOrder' /\ AllTimely' /\ KeptIsOverBudget'
  BY <1>1 DEF Shape, InOrder, AllTimely, KeptIsOverBudget, CostlyLeft, ReroutesLeft
<1> QED
  BY <1>2

LEMMA WriteKeeps ==
    ASSUME HookInv, NEW kind \in Kinds, NEW g \in Groups, Write(kind, g)
    PROVE  HookInv'
<1> DEFINE c == Command(kind, g)
<1>1. sent \in Nat /\ sent' = sent + 1 /\ sent' \in 0 .. MaxSent /\ loaded \in Nat
  BY HookAssumption DEF HookInv, Shape, Write
<1>2. c \in Commands /\ c.id = sent + 1
  BY <1>1, HookAssumption DEF Command, Commands
<1>3. \A s \in Seq(Commands) : Timely(s, loaded, sent, ran) =>
          /\ Timely(s, loaded, sent', ran)
          /\ \A i \in 1 .. Len(s) : s[i].id < c.id
  <2> SUFFICES ASSUME NEW s \in Seq(Commands), Timely(s, loaded, sent, ran)
               PROVE  /\ Timely(s, loaded, sent', ran)
                      /\ \A i \in 1 .. Len(s) : s[i].id < c.id
    OBVIOUS
  <2>1. Timely(s, loaded, sent', ran)
    BY <1>1, TimelyGrows
  <2>2. \A i \in 1 .. Len(s) : s[i].id < c.id
    BY <1>1, <1>2, CommandIds DEF Timely
  <2> QED
    BY <2>1, <2>2
<1>4. \A d \in ran : After(d, c)
  BY <1>1, <1>2 DEF HookInv, Shape, After
<1> HIDE DEF c
<1>5. \A s \in Seq(Commands) : Rising(s) /\ Timely(s, loaded, sent, ran) =>
          /\ Append(s, c) \in Seq(Commands) /\ Rising(Append(s, c))
          /\ \A u \in Seq(Commands) : Ahead(u, s) /\ Timely(u, loaded, sent, ran)
                                         => Ahead(u, Append(s, c))
          /\ Timely(Append(s, c), loaded, sent', ran)
  <2> SUFFICES ASSUME NEW s \in Seq(Commands), Rising(s), Timely(s, loaded, sent, ran)
               PROVE  /\ Append(s, c) \in Seq(Commands) /\ Rising(Append(s, c))
                      /\ \A u \in Seq(Commands) : Ahead(u, s) /\ Timely(u, loaded, sent, ran)
                                                     => Ahead(u, Append(s, c))
                      /\ Timely(Append(s, c), loaded, sent', ran)
    OBVIOUS
  <2>1. Timely(Append(s, c), loaded, sent', ran)
    <3>1. \A i \in 1 .. Len(Append(s, c)) :
              Append(s, c)[i] = c \/ (i \in 1 .. Len(s) /\ Append(s, c)[i] = s[i])
      BY <1>2, <1>3, AppendRises
    <3>2. Timely(s, loaded, sent', ran)
      BY <1>3
    <3>3. loaded < c.id /\ c.id <= sent'
      BY <1>1, <1>2 DEF HookInv, Shape
    <3> QED
      BY <1>4, <3>1, <3>2, <3>3 DEF Timely
  <2> QED
    BY <1>2, <1>3, <2>1, AppendRises
<1>6. /\ UNCHANGED <<kept, todo, queue, polling, buf, waiting, costly, reroutes, loaded, ran>>
      /\ \/ waiting /\ early' = Append(early, c) /\ sock' = sock
         \/ ~waiting /\ sock' = Append(sock, c) /\ early' = early
      /\ Working' = Working
  BY DEF Write, poll, Working, c
<1>7. /\ kept \in Seq(Commands) /\ Working \in Seq(Commands) /\ buf \in Seq(Commands)
      /\ sock \in Seq(Commands) /\ early \in Seq(Commands) /\ (~waiting => early = <<>>)
  BY DEF HookInv, Shape
<1>8. Shape'
  <2>1. sock' \in Seq(Commands) /\ early' \in Seq(Commands)
    BY <1>5, <1>6, <1>7 DEF HookInv, InOrder, AllTimely
  <2>2. /\ sent' \in 0 .. MaxSent /\ loaded' \in 0 .. sent'
        /\ \A d \in ran' : d.id \in 1 .. sent'
    BY <1>1, <1>6 DEF HookInv, Shape
  <2> QED
    BY <1>6, <1>7, <2>1, <2>2 DEF HookInv, Shape
<1>9. InOrder'
  BY <1>5, <1>6, <1>7, EmptyIsFine DEF HookInv, InOrder, AllTimely
<1>10. AllTimely'
  BY <1>3, <1>5, <1>6, <1>7 DEF HookInv, InOrder, AllTimely
<1>11. KeptIsOverBudget'
  BY <1>6 DEF HookInv, KeptIsOverBudget, CostlyLeft, ReroutesLeft
<1> QED
  BY <1>8, <1>9, <1>10, <1>11 DEF HookInv

\* A client comes, or is lost; a mission is loaded, or ends.
LEMMA ConnectionKeeps ==
    ASSUME HookInv,
           \/ Connect \/ PollAccept \/ PollAcceptFails
           \/ onMissionLoadEnd \/ onSimulationStop
    PROVE  HookInv'
<1> USE DEF Connect, PollAccept, PollAcceptFails, onMissionLoadEnd, onSimulationStop, CloseAll,
        QueueAfterClose, poll, history
<1>1. ~polling /\ UNCHANGED <<polling, todo, kept, costly, reroutes, sent, ran>>
  OBVIOUS
<1>2. /\ Working = queue /\ Working' = queue'
      /\ queue' \in {queue, <<>>} /\ buf' \in {buf, <<>>}
      /\ \/ sock' \in {sock, <<>>} /\ early' \in {early, <<>>}
         \/ sock' = early /\ early' = <<>>
      /\ waiting' \in BOOLEAN /\ (~waiting' => early' = <<>>)
      /\ \/ loaded' = loaded
         \/ loaded' = sent /\ queue' = <<>> /\ buf' = <<>> /\ sock' = <<>> /\ early' = <<>>
  BY <1>1 DEF Working, HookInv, Shape, conn
<1>3. kept = <<>> /\ todo = <<>>
  BY <1>1 DEF HookInv, Shape
<1>4. Shape'
  <2>1. loaded' \in 0 .. sent'
    BY <1>1, <1>2 DEF HookInv, Shape
  <2>2. /\ Working' \in Seq(Commands) /\ buf' \in Seq(Commands)
        /\ sock' \in Seq(Commands) /\ early' \in Seq(Commands)
    BY <1>2, EmptyIsFine DEF HookInv, Shape
  <2> QED
    BY <1>1, <1>2, <1>3, <2>1, <2>2 DEF HookInv, Shape
<1>5. InOrder'
  BY <1>1, <1>2, <1>3, EmptyIsFine DEF HookInv, InOrder
<1>6. AllTimely'
  BY <1>1, <1>2, <1>3, EmptyIsFine DEF HookInv, AllTimely
<1>7. KeptIsOverBudget'
  BY <1>1, <1>3 DEF KeptIsOverBudget
<1> QED
  BY <1>4, <1>5, <1>6, <1>7 DEF HookInv

------------------------------------------------------------------------------
(* poll.                                                                   *)

LEMMA ReadKeeps ==
    ASSUME HookInv, PollRead
    PROVE  HookInv'
<1> DEFINE n == IF Len(Lines) < MAX_LINES THEN Len(Lines) ELSE MAX_LINES
<1>1. /\ ~polling /\ Working = queue /\ kept = <<>> /\ todo = <<>>
      /\ queue \in Seq(Commands) /\ buf \in Seq(Commands) /\ sock \in Seq(Commands)
  BY DEF HookInv, Shape, PollRead, Working
<1>2. /\ polling' = TRUE /\ todo' = queue \o SubSeq(Lines, 1, n) /\ Working' = todo'
      /\ kept' = <<>> /\ costly' = 0 /\ reroutes' = 0
      /\ buf' = SubSeq(Lines, n + 1, Len(Lines)) /\ sock' = <<>>
      /\ UNCHANGED <<waiting, early, sent, loaded, ran>>
  BY DEF PollRead, StartLoop, Take, Rest, Working, history
<1>3. /\ Lines \in Seq(Commands) /\ Rising(Lines) /\ Ahead(queue, Lines)
      /\ Ahead(Lines, early) /\ Timely(Lines, loaded, sent, ran)
  BY <1>1, ConcatRises DEF HookInv, InOrder, AllTimely, Lines
<1>4. n \in 0 .. Len(Lines)
  BY <1>3, HookAssumption
<1> HIDE DEF n
<1> DEFINE a == SubSeq(Lines, 1, n)
           b == SubSeq(Lines, n + 1, Len(Lines))
<1>5. /\ a \in Seq(Commands) /\ b \in Seq(Commands) /\ Rising(a) /\ Rising(b) /\ Ahead(a, b)
      /\ Part(a, Lines) /\ Part(b, Lines)
  BY <1>3, <1>4, CutRises
<1> HIDE DEF a, b
<1>6. /\ Ahead(queue, a) /\ Ahead(queue, b) /\ Ahead(a, early) /\ Ahead(b, early)
      /\ Timely(a, loaded, sent, ran) /\ Timely(b, loaded, sent, ran)
  BY <1>3, <1>5, PartsKeep
<1>7. todo' = queue \o a /\ buf' = b
  BY <1>2 DEF a, b
<1>8. /\ todo' \in Seq(Commands) /\ Rising(todo') /\ Ahead(todo', b) /\ Ahead(todo', early)
      /\ Timely(todo', loaded, sent, ran)
  BY <1>1, <1>5, <1>6, <1>7, ConcatRises DEF HookInv, InOrder, AllTimely
<1>9. Shape'
  BY <1>2, <1>5, <1>7, <1>8, EmptyIsFine DEF HookInv, Shape
<1>10. InOrder'
  BY <1>2, <1>5, <1>6, <1>7, <1>8, EmptyIsFine DEF HookInv, InOrder
<1>11. AllTimely'
  BY <1>2, <1>6, <1>7, <1>8, EmptyIsFine DEF HookInv, AllTimely
<1>12. KeptIsOverBudget'
  BY <1>2 DEF KeptIsOverBudget
<1> QED
  BY <1>9, <1>10, <1>11, <1>12 DEF HookInv

\* The loop begins without new lines, or ends: what was kept is the queue.
LEMMA BeginAndEndKeep ==
    ASSUME HookInv, PollReadClosed \/ PollEnd
    PROVE  HookInv'
<1> USE DEF PollReadClosed, PollEnd, StartLoop, Disconnect, Remaining, conn, history
<1>1. /\ UNCHANGED <<waiting, early, sent, loaded, ran>>
      /\ kept' = <<>> /\ costly' = 0 /\ reroutes' = 0
      /\ \/ UNCHANGED <<buf, sock>>
         \/ buf' = <<>> /\ sock' = <<>>
      /\ polling' \in BOOLEAN /\ (~polling' => todo' = <<>>)
  OBVIOUS
<1>2. \/ kept = <<>> /\ Working' = Working
      \/ Working = <<>> /\ Working' = kept
  BY DEF HookInv, Shape, Working
<1>3. Shape'
  BY <1>1, <1>2, EmptyIsFine DEF HookInv, Shape
<1>4. InOrder'
  BY <1>1, <1>2, EmptyIsFine DEF HookInv, InOrder
<1>5. AllTimely'
  BY <1>1, <1>2, EmptyIsFine DEF HookInv, AllTimely
<1>6. KeptIsOverBudget'
  BY <1>1 DEF KeptIsOverBudget
<1> QED
  BY <1>3, <1>4, <1>5, <1>6 DEF HookInv

\* What every step on the first queued command finds.
LEMMA FirstOfTodo ==
    ASSUME HookInv, polling, todo # <<>>
    PROVE  /\ Working = todo /\ todo \in Seq(Commands) /\ Head(todo) \in Commands
           /\ Tail(todo) \in Seq(Commands) /\ Rising(Tail(todo))
           /\ Ahead(kept, Tail(todo)) /\ Ahead(Tail(todo), buf) /\ Ahead(Tail(todo), sock)
           /\ Ahead(Tail(todo), early)
           /\ Timely(Tail(todo), loaded, sent, ran)
           /\ loaded < Head(todo).id /\ Head(todo).id <= sent /\ Head(todo).id \in Nat
           /\ \A d \in ran : After(d, Head(todo))
           /\ \A i \in 1 .. Len(kept) : kept[i].id < Head(todo).id
           /\ \A s \in {Tail(todo), buf, sock, early} :
                 \A i \in 1 .. Len(s) : Head(todo).id < s[i].id
<1>1. Working = todo /\ todo \in Seq(Commands) /\ Rising(todo)
  BY DEF HookInv, Shape, InOrder, Working
<1>2. Head(todo) \in Commands /\ Head(todo).id \in Nat
  <2>1. Head(todo) \in Commands
    BY <1>1, HeadAndTail
  <2> QED
    BY <2>1 DEF Commands
<1>3. /\ Tail(todo) \in Seq(Commands) /\ Rising(Tail(todo)) /\ Part(Tail(todo), todo)
      /\ \A i \in 1 .. Len(Tail(todo)) : Head(todo).id < Tail(todo)[i].id
  BY <1>1, HeadAndTail
<1>4. /\ \A i \in 1 .. Len(buf) : Head(todo).id < buf[i].id
      /\ \A i \in 1 .. Len(sock) : Head(todo).id < sock[i].id
      /\ \A i \in 1 .. Len(early) : Head(todo).id < early[i].id
      /\ \A i \in 1 .. Len(kept) : kept[i].id < Head(todo).id
  BY <1>1, HeadAndTail DEF HookInv, InOrder
<1>5. /\ loaded < Head(todo).id /\ Head(todo).id <= sent
      /\ \A d \in ran : After(d, Head(todo))
  BY <1>1, HeadAndTail DEF HookInv, AllTimely
<1>6. /\ Ahead(kept, Tail(todo)) /\ Ahead(Tail(todo), buf) /\ Ahead(Tail(todo), sock)
      /\ Ahead(Tail(todo), early) /\ Timely(Tail(todo), loaded, sent, ran)
  BY <1>1, <1>3, PartsKeep DEF HookInv, InOrder, AllTimely
<1> QED
  BY <1>1, <1>2, <1>3, <1>4, <1>5, <1>6

\* The first command is run, and the connection may be lost over it; of what was
\* kept, nothing is of its kind.
LEMMA RunKeeps ==
    ASSUME HookInv, PollReroute \/ PollCostly \/ PollClear
    PROVE  HookInv'
<1> DEFINE d == [id |-> Head(todo).id, cmd |-> Head(todo).cmd]
<1> USE DEF PollReroute, PollCostly, PollClear, Dispatch, Say, Disconnect, Advance, conn
<1>1. /\ polling /\ todo # <<>> /\ polling' = polling /\ todo' = Tail(todo)
      /\ ran' = ran \cup {d} /\ UNCHANGED <<waiting, early, sent, loaded>>
      /\ UNCHANGED <<buf, sock>> \/ (buf' = <<>> /\ sock' = <<>>)
  OBVIOUS
<1>2. \/ d.cmd = "clear" /\ kept' = <<>> /\ UNCHANGED <<costly, reroutes>>
      \/ /\ kept' = kept /\ IsReroute(d) /\ ReroutesLeft
         /\ costly' = costly /\ reroutes' = reroutes + 1
      \/ /\ kept' = kept /\ IsCostly(d) /\ CostlyLeft
         /\ reroutes' = reroutes /\ costly' = costly + 1
  BY DEF IsReroute, IsCostly, KeptAfterClear
<1>3. d.id = Head(todo).id
  OBVIOUS
<1> HIDE DEF d, PollReroute, PollCostly, PollClear, Dispatch, Say, Disconnect, Advance, conn
<1>4. Working' = Tail(todo)
  BY <1>1 DEF Working
<1>5. \A s \in {Tail(todo), buf, sock, early} :
          Timely(s, loaded, sent, ran) => Timely(s, loaded, sent, ran')
  <2> SUFFICES ASSUME NEW s \in {Tail(todo), buf, sock, early}, Timely(s, loaded, sent, ran)
               PROVE  Timely(s, loaded, sent, ran \cup {d})
    BY <1>1
  <2>1. \A i \in 1 .. Len(s) : d.id < s[i].id
    BY <1>1, <1>3, FirstOfTodo
  <2>2. \A i \in 1 .. Len(s) : After(d, s[i])
    BY <2>1 DEF After
  <2> QED
    BY <2>2, TimelyAfterRun
<1>6. Timely(kept', loaded, sent, ran')
  <2>1. CASE kept' = <<>>
    BY <2>1, EmptyIsFine
  <2>2. CASE kept' = kept /\ d.cmd # "clear"
    <3>1. \A i \in 1 .. Len(kept) : After(d, kept[i])
      BY <1>2, <2>2 DEF HookInv, KeptIsOverBudget, After, IsReroute, IsCostly
    <3> QED
      BY <1>1, <2>2, <3>1, TimelyAfterRun DEF HookInv, AllTimely
  <2> QED
    BY <1>2, <2>1, <2>2 DEF IsReroute, IsCostly
<1>7. Shape'
  <2>1. d.id \in 1 .. sent
    BY <1>1, <1>3, FirstOfTodo DEF HookInv, Shape
  <2>2. kept' \in Seq(Commands) /\ costly' \in Nat /\ reroutes' \in Nat
    <3>1. kept \in Seq(Commands) /\ costly \in Nat /\ reroutes \in Nat
      BY DEF HookInv, Shape
    <3>2. kept' \in Seq(Commands)
      BY <1>2, <3>1, EmptyIsFine
    <3> QED
      BY <1>2, <3>1, <3>2
  <2> QED
    BY <1>1, <1>4, <2>1, <2>2, FirstOfTodo, EmptyIsFine DEF HookInv, Shape
<1>8. InOrder'
  <2>1. kept' = kept \/ kept' = <<>>
    BY <1>2
  <2> QED
    BY <1>1, <1>4, <2>1, FirstOfTodo, EmptyIsFine DEF HookInv, InOrder
<1>9. AllTimely'
  BY <1>1, <1>4, <1>5, <1>6, FirstOfTodo, EmptyIsFine DEF HookInv, AllTimely
<1>10. KeptIsOverBudget'
  BY <1>2 DEF HookInv, Shape, KeptIsOverBudget, CostlyLeft, ReroutesLeft
<1> QED
  BY <1>7, <1>8, <1>9, <1>10 DEF HookInv

LEMMA DeferKeeps ==
    ASSUME HookInv, PollDefer
    PROVE  HookInv'
<1> DEFINE c == Head(todo)
<1>1. /\ polling /\ todo # <<>> /\ polling' = polling /\ todo' = Tail(todo)
      /\ kept' = Append(kept, c) /\ Working' = Tail(todo)
      /\ UNCHANGED <<waiting, early, sock, buf, sent, loaded, ran, costly, reroutes>>
      /\ (IsReroute(c) /\ ~ReroutesLeft) \/ (IsCostly(c) /\ ~CostlyLeft)
  BY DEF PollDefer, Advance, Deferred, conn, history, Working
<1>2. kept \in Seq(Commands) /\ Rising(kept) /\ c \in Commands
      /\ \A i \in 1 .. Len(kept) : kept[i].id < c.id
  BY <1>1, FirstOfTodo DEF HookInv, Shape, InOrder
<1>3. /\ kept' \in Seq(Commands) /\ Rising(kept')
      /\ \A s \in {Tail(todo), buf, sock, early} : Ahead(kept, s) => Ahead(kept', s)
      /\ \A i \in 1 .. Len(kept') : kept'[i] = c \/ (i \in 1 .. Len(kept) /\ kept'[i] = kept[i])
  <2>1. \A s \in {Tail(todo), buf, sock, early} : \A i \in 1 .. Len(s) : c.id < s[i].id
    BY <1>1, FirstOfTodo
  <2>2. \A s : Ahead(kept, s) /\ (\A i \in 1 .. Len(s) : c.id < s[i].id) => Ahead(kept', s)
    BY <1>1, <1>2, AppendRises
  <2>3. /\ kept' \in Seq(Commands) /\ Rising(kept')
        /\ \A i \in 1 .. Len(kept') :
              kept'[i] = c \/ (i \in 1 .. Len(kept) /\ kept'[i] = kept[i])
    BY <1>1, <1>2, AppendRises
  <2> QED
    BY <2>1, <2>2, <2>3
<1>4. Timely(kept', loaded, sent, ran)
  BY <1>1, <1>3, FirstOfTodo DEF HookInv, AllTimely, Timely
<1> HIDE DEF c
<1>5. Shape'
  BY <1>1, <1>3, FirstOfTodo DEF HookInv, Shape
<1>6. InOrder'
  BY <1>1, <1>3, FirstOfTodo DEF HookInv, InOrder
<1>7. AllTimely'
  BY <1>1, <1>4, FirstOfTodo DEF HookInv, AllTimely
<1>8. KeptIsOverBudget'
  BY <1>1, <1>3 DEF HookInv, KeptIsOverBudget, CostlyLeft, ReroutesLeft, IsCostly, IsReroute
<1> QED
  BY <1>5, <1>6, <1>7, <1>8 DEF HookInv

------------------------------------------------------------------------------
LEMMA HookInductive == HookInv /\ [Next]_vars => HookInv'
<1> SUFFICES ASSUME HookInv, [Next]_vars PROVE HookInv'
  OBVIOUS
<1>1. CASE PollListen \/ PeerClose \/ (\E e \in world : Sink(e)) \/ UNCHANGED vars
  BY <1>1, NothingMoves DEF PollListen, PeerClose, Sink, vars, pipe, conn, poll, history
<1> QED
  BY <1>1, WriteKeeps, ConnectionKeeps, ReadKeeps, BeginAndEndKeep, RunKeeps, DeferKeeps
     DEF Next, PollStep, Outside

\* Whatever is written, lost, loaded and deferred, the commands under way stay in
\* order.  (poll, tcpReadLines)
THEOREM HookInvariance == Spec => []HookInv
BY HookInit, HookInductive, PTL DEF Spec

\* What a step runs is the first command of the queue.
LEMMA OneRuns ==
    ASSUME HookInv, [Next]_vars, NEW c \in Running
    PROVE  loaded < c.id /\ \A d \in ran : After(d, c)
<1>1. CASE PollReroute \/ PollCostly \/ PollClear
  <2>1. polling /\ todo # <<>> /\ c = [id |-> Head(todo).id, cmd |-> Head(todo).cmd]
    BY <1>1 DEF PollReroute, PollCostly, PollClear, Dispatch, Running
  <2>2. \A d \in ran : After(d, Head(todo)) => After(d, c)
    BY <2>1 DEF After, IsCostly, IsReroute
  <2> QED
    BY <2>1, <2>2, FirstOfTodo
<1>2. CASE ran' = ran
  BY <1>2 DEF Running
<1>3. ran' = ran \/ PollReroute \/ PollCostly \/ PollClear
  BY DEF Next, PollStep, Outside, PollListen, PollAccept, PollAcceptFails, PollRead,
     PollReadClosed, PollDefer, PollEnd, Connect, PeerClose, Write, Sink, onMissionLoadEnd,
     onSimulationStop, vars, history
<1> QED
  BY <1>1, <1>2, <1>3

\* Spawns, removals and moves run in the order they were written, and reroutes in
\* theirs, for any budgets.  (poll)
THEOREM RunInOrder == Spec => RunsInOrder
<1>1. HookInv /\ [Next]_vars =>
          \A c \in Running, d \in ran :
              (IsCostly(c) /\ IsCostly(d)) \/ (IsReroute(c) /\ IsReroute(d)) => d.id < c.id
  BY OneRuns DEF After
<1> QED
  BY <1>1, HookInvariance, PTL DEF Spec, RunsInOrder

\* Nothing written before a clear runs after it, and nothing written for a mission
\* in the next.  (poll, handleClear, onMissionLoadEnd)
THEOREM Barriers == Spec => ClearAndMissionAreBarriers
<1>1. HookInv /\ [Next]_vars =>
          \A c \in Running :
              /\ \A d \in ran : d.cmd = "clear" => d.id < c.id
              /\ c.id > loaded
  <2> SUFFICES ASSUME HookInv, [Next]_vars, NEW c \in Running
               PROVE  (\A d \in ran : d.cmd = "clear" => d.id < c.id) /\ c.id > loaded
    OBVIOUS
  <2> QED
    BY OneRuns DEF After
<1> QED
  BY <1>1, HookInvariance, PTL DEF Spec, ClearAndMissionAreBarriers

------------------------------------------------------------------------------
(* The types, and what the handlers leave behind.                          *)

HookTyped ==
    /\ listener \in BOOLEAN /\ connected \in BOOLEAN /\ peerClosed \in BOOLEAN
    /\ helpers \in BOOLEAN /\ theatre \in BOOLEAN
    /\ queue \in Seq(Commands \cup BatchCommands)
    /\ costly \in 0 .. MAX_CMDS_PER_POLL /\ reroutes \in 0 .. MAX_REROUTES_PER_POLL
    /\ tracked \in [Groups -> {"none", "group", "static"}]
    /\ world \subseteq Groups \X {"group", "static"}
    /\ since \in 0 .. MaxSent

Left == [tracked : [Groups -> {"none", "group", "static"}],
         world : SUBSET (Groups \X {"group", "static"}), helpers : BOOLEAN,
         say : SUBSET [type : {"reject", "error"}, group : Groups]]

LEMMA DestroyShrinks == \A W, names : DestroyAll(W, names) \subseteq W
BY DEF DestroyAll

LEMMA PartsTyped ==
    ASSUME NEW o \in Left, NEW g \in Groups
    PROVE  /\ Ready(o) \in Left /\ Forget(o, g) \in Left
           /\ [Forget(o, g) EXCEPT !.world = Destroyed(@, g)] \in Left
           /\ [Forget(Ready(o), g) EXCEPT !.world = Destroyed(@, g)] \in Left
           /\ \A kind \in {"group", "static"} : Placed(o, g, kind) \in Left
           /\ \A type \in {"reject", "error"} : Told(o, type, g) \in Left
           /\ NotReady(o) \subseteq Left
<1>1. Ready(o) \in Left
  BY DEF Left, Ready
<1>2. \A p \in Left : Forget(p, g) \in Left
  BY DEF Left, Forget
<1>3. \A p \in Left : [p EXCEPT !.world = Destroyed(@, g)] \in Left
  <2> SUFFICES ASSUME NEW p \in Left
               PROVE  [p EXCEPT !.world = Destroyed(@, g)] \in Left
    OBVIOUS
  <2>1. Destroyed(p.world, g) \subseteq p.world
    BY DestroyShrinks DEF Destroyed
  <2> QED
    BY <2>1 DEF Left
<1>4. \A kind \in {"group", "static"} : Placed(o, g, kind) \in Left
  <2> SUFFICES ASSUME NEW kind \in {"group", "static"} PROVE Placed(o, g, kind) \in Left
    OBVIOUS
  <2>1. [o.tracked EXCEPT ![g] = kind] \in [Groups -> {"none", "group", "static"}]
    BY DEF Left
  <2>2. o.world \cup {<<g, kind>>} \in SUBSET (Groups \X {"group", "static"})
    BY DEF Left
  <2>3. [o EXCEPT !.tracked[g] = kind] \in Left
    BY <2>1 DEF Left
  <2>4. Placed(o, g, kind) = [[o EXCEPT !.tracked[g] = kind] EXCEPT
                                  !.world = o.world \cup {<<g, kind>>}]
    BY DEF Left, Placed
  <2>5. \A p \in Left, W \in SUBSET (Groups \X {"group", "static"}) :
            [p EXCEPT !.world = W] \in Left
    BY DEF Left
  <2> QED
    BY <2>2, <2>3, <2>4, <2>5
<1>5. \A type \in {"reject", "error"} : Told(o, type, g) \in Left
  BY DEF Left, Told
<1>6. NotReady(o) \subseteq Left
  BY DEF NotReady, IfFailures
<1> QED
  BY <1>1, <1>2, <1>3, <1>4, <1>5, <1>6

LEMMA SpawnTyped ==
    ASSUME NEW o \in Left, NEW c \in Commands, NEW g \in Groups
    PROVE  handleSpawn(o, c, g) \subseteq Left
<1>1. Kind(c) \in {"group", "static"}
  BY DEF Kind
<1>2. Ready(o) \in Left /\ NotReady(o) \subseteq Left
  BY PartsTyped
<1>3. /\ Placed(Ready(o), g, Kind(c)) \in Left /\ Told(Ready(o), "reject", g) \in Left
      /\ Told(Ready(o), "error", g) \in Left
  BY <1>1, <1>2, PartsTyped
<1> QED
  BY <1>2, <1>3 DEF handleSpawn, IfFailures

LEMMA RemoveTyped ==
    ASSUME NEW o \in Left, NEW c \in Commands, NEW g \in Groups
    PROVE  handleRemove(o, c, g) \subseteq Left
<1>1. Ready(o) \in Left /\ Forget(Ready(o), g) \in Left
  BY PartsTyped
<1> QED
  BY <1>1, PartsTyped DEF handleRemove, IfFailures

LEMMA MoveTyped ==
    ASSUME NEW o \in Left, NEW c \in Commands, NEW g \in Groups
    PROVE  handleMove(o, c, g) \subseteq Left
<1>1. Ready(o) \in Left /\ Forget(Ready(o), g) \in Left /\ Forget(o, g) \in Left
      /\ [Forget(Ready(o), g) EXCEPT !.world = Destroyed(@, g)] \in Left
  BY PartsTyped
<1> DEFINE cleared == IF o.tracked[g] = "none" THEN {o}
                      ELSE {[Forget(Ready(o), g) EXCEPT !.world = Destroyed(@, g)]}
                           \cup IfFailures({Forget(Ready(o), g), Forget(o, g)})
<1>2. cleared \subseteq Left
  BY <1>1 DEF IfFailures
<1>3. handleMove(o, c, g) = UNION {handleSpawn(p, c, g) : p \in cleared}
  BY DEF handleMove
<1> HIDE DEF cleared
<1> QED
  BY <1>2, <1>3, SpawnTyped

LEMMA RerouteTyped ==
    ASSUME NEW o \in Left, NEW c \in Commands, NEW g \in Groups
    PROVE  handleReroute(o, c, g) \subseteq Left
<1> DEFINE r == Ready(o)
<1>1. r \in Left /\ NotReady(o) \subseteq Left
  BY PartsTyped
<1> HIDE DEF r
<1>2. Forget(r, g) \in Left
  BY <1>1, PartsTyped
<1>3. /\ handleSpawn(r, c, g) \subseteq Left /\ handleMove(r, c, g) \subseteq Left
      /\ handleSpawn(Forget(r, g), c, g) \subseteq Left
  BY <1>1, <1>2, SpawnTyped, MoveTyped
<1>4. handleReroute(o, c, g) =
          NotReady(o) \cup
          CASE o.tracked[g] = "none"   -> handleSpawn(r, c, g)
            [] o.tracked[g] = "static" -> {r}
            [] <<g, "group">> \in o.world -> {r} \cup IfFailures(handleMove(r, c, g))
            [] OTHER -> handleSpawn(Forget(r, g), c, g) \cup IfFailures({r})
  BY DEF handleReroute, r
<1> QED
  BY <1>1, <1>3, <1>4 DEF IfFailures

LEMMA OutcomesTyped ==
    ASSUME HookTyped, NEW c \in Commands
    PROVE  Outcomes(c) \subseteq Left
<1>1. Now \in Left
  BY DEF HookTyped, Now, Left
<1>2. c.groups \subseteq Groups
  BY DEF Commands
<1>3. batchDestroy(Now, c) \subseteq Left
  <2>1. DestroyAll(Now.world, c.groups) \subseteq Now.world
    BY DestroyShrinks
  <2>2. [Now EXCEPT !.world = DestroyAll(@, c.groups)] \in Left
    BY <1>1, <2>1 DEF Left
  <2> QED
    BY <1>1, <2>2 DEF batchDestroy, IfFailures
<1>4. \A g \in c.groups : /\ handleSpawn(Now, c, g) \subseteq Left
                          /\ handleRemove(Now, c, g) \subseteq Left
                          /\ handleMove(Now, c, g) \subseteq Left
                          /\ handleReroute(Now, c, g) \subseteq Left
  BY <1>1, <1>2, SpawnTyped, RemoveTyped, MoveTyped, RerouteTyped
<1> QED
  BY <1>3, <1>4 DEF Outcomes

\* The continuations of a clear.
LEMMA BatchTyped ==
    ASSUME NEW S \in SUBSET Groups, NEW names \in SetToSeqs(S), names # <<>>
    PROVE  BatchDestroy(names) \in Seq(Commands \cup BatchCommands)
<1>1. names \in [1 .. Cardinality(S) -> S]
  BY DEF SetToSeqs
<1>2. Cardinality(S) \in Nat
  BY HookAssumption, FS_Subset, FS_CardinalityType
<1>3. names \in Seq(Groups) /\ DOMAIN names = 1 .. Len(names) /\ Len(names) \in Nat \ {0}
  BY <1>1, <1>2
<1>4. Chunks(names) - 1 \in Nat
  BY <1>3, HookAssumption DEF Chunks
<1>5. \A i \in Nat : Chunk(names, i) \subseteq Groups
  BY <1>3 DEF Chunk
<1>6. \A i \in 1 .. (Chunks(names) - 1) : BatchDestroy(names)[i] \in BatchCommands
  BY <1>4, <1>5 DEF BatchDestroy, BatchCommands
<1>7. BatchDestroy(names) \in [1 .. (Chunks(names) - 1) -> BatchCommands]
  BY <1>6 DEF BatchDestroy
<1> QED
  BY <1>4, <1>7

LEMMA SeqWider == Seq(Commands) \subseteq Seq(Commands \cup BatchCommands)
OBVIOUS

LEMMA TypedInit == Init => HookTyped
<1> SUFFICES ASSUME Init PROVE HookTyped
  OBVIOUS
<1>1. queue \in Seq(Commands \cup BatchCommands)
  BY EmptyIsFine, SeqWider DEF Init
<1>2. costly \in 0 .. MAX_CMDS_PER_POLL /\ reroutes \in 0 .. MAX_REROUTES_PER_POLL
      /\ since \in 0 .. MaxSent
  BY HookAssumption DEF Init
<1>3. tracked \in [Groups -> {"none", "group", "static"}]
  BY DEF Init, Untracked
<1> QED
  BY <1>1, <1>2, <1>3 DEF Init, HookTyped

LEMMA RunTyped ==
    ASSUME HookInv, HookTyped, PollReroute \/ PollCostly
    PROVE  HookTyped'
<1>1. polling /\ todo # <<>> /\ Dispatch(Head(todo))
      /\ UNCHANGED <<listener, queue, theatre, sent>>
  BY DEF PollReroute, PollCostly
<1>2. Head(todo) \in Commands
  BY <1>1, FirstOfTodo
<1>3. PICK o \in Left : tracked' = o.tracked /\ world' = o.world /\ helpers' = o.helpers
  BY <1>1, <1>2, OutcomesTyped DEF Dispatch
<1>4. /\ tracked' \in [Groups -> {"none", "group", "static"}]
      /\ world' \subseteq Groups \X {"group", "static"} /\ helpers' \in BOOLEAN
  BY <1>3 DEF Left
<1>5. connected' \in BOOLEAN /\ peerClosed' \in BOOLEAN /\ since' \in {since, sent}
  BY <1>1 DEF Dispatch, Say, Disconnect, HookTyped, conn
<1>6. /\ costly' \in 0 .. MAX_CMDS_PER_POLL /\ reroutes' \in 0 .. MAX_REROUTES_PER_POLL
  BY HookAssumption DEF PollReroute, PollCostly, CostlyLeft, ReroutesLeft, HookTyped
<1> QED
  BY <1>1, <1>4, <1>5, <1>6 DEF HookTyped, HookInv, Shape

LEMMA ClearTyped ==
    ASSUME HookTyped, PollClear
    PROVE  HookTyped'
<1> DEFINE S == {g \in Groups : tracked[g] # "none"}
<1>1. tracked' = Untracked /\ UNCHANGED <<listener, conn, costly, reroutes, theatre, since>>
  BY DEF PollClear
<1>2. PICK names \in SetToSeqs(S) :
          \/ /\ names # <<>> /\ queue' = BatchDestroy(names) /\ helpers' = TRUE
             /\ world' \in {DestroyAll(world, Chunk(names, 1))} \cup IfFailures({world})
          \/ queue' = <<>> /\ UNCHANGED <<world, helpers>>
  BY DEF PollClear
<1> HIDE DEF S
<1>3. S \subseteq Groups
  BY DEF S
<1>4. queue' \in Seq(Commands \cup BatchCommands)
  BY <1>2, <1>3, BatchTyped, EmptyIsFine, SeqWider
<1>5. world' \subseteq world /\ helpers' \in BOOLEAN
  BY <1>2, DestroyShrinks DEF HookTyped, IfFailures
<1>6. tracked' \in [Groups -> {"none", "group", "static"}]
  BY <1>1 DEF Untracked
<1> QED
  BY <1>1, <1>4, <1>5, <1>6 DEF HookTyped, conn

LEMMA OthersTyped ==
    ASSUME HookInv, HookInv', HookTyped, [Next]_vars,
           ~(PollReroute \/ PollCostly \/ PollClear)
    PROVE  HookTyped'
<1>1. sent \in 0 .. MaxSent
  BY DEF HookInv, Shape
<1>2. CASE PollListen \/ PollAccept \/ PollAcceptFails
  BY <1>1, <1>2 DEF PollListen, PollAccept, PollAcceptFails, HookTyped, conn, poll, dcs, history
<1>3. CASE PollRead \/ PollReadClosed \/ PollDefer \/ PollEnd
  <2>1. queue' = queue \/ queue' \in Seq(Commands)
    BY <1>3 DEF PollRead, PollReadClosed, PollDefer, PollEnd, StartLoop, Remaining, HookInv,
       Shape, Working
  <2>2. /\ UNCHANGED <<listener, theatre, tracked, helpers, world>>
        /\ costly' \in {costly, 0} /\ reroutes' \in {reroutes, 0}
        /\ connected' \in BOOLEAN /\ peerClosed' \in BOOLEAN /\ since' \in {since, sent}
    BY <1>3 DEF PollRead, PollReadClosed, PollDefer, PollEnd, StartLoop, Disconnect, HookTyped,
       conn, dcs, history
  <2> QED
    BY <1>1, <2>1, <2>2, SeqWider, HookAssumption DEF HookTyped
<1>4. CASE Connect \/ PeerClose \/ UNCHANGED vars
  BY <1>1, <1>4 DEF Connect, PeerClose, HookTyped, vars, conn, poll, dcs, history
<1>5. CASE \/ \E kind \in Kinds, g \in Groups : Write(kind, g)
           \/ \E e \in world : Sink(e)
  BY <1>5 DEF Write, Sink, HookTyped, conn, poll, dcs, history
<1>6. CASE onMissionLoadEnd \/ onSimulationStop
  <2>1. /\ connected' = FALSE /\ peerClosed' = FALSE /\ helpers' = FALSE /\ queue' = <<>>
        /\ tracked' = Untracked /\ since' = sent /\ UNCHANGED <<costly, reroutes>>
        /\ theatre' \in BOOLEAN /\ listener' \in BOOLEAN
    BY <1>6 DEF onMissionLoadEnd, onSimulationStop, CloseAll, QueueAfterClose, poll
  <2>2. world' \subseteq world
    BY <1>6, DestroyShrinks DEF onMissionLoadEnd, onSimulationStop, IfFailures
  <2>3. Untracked \in [Groups -> {"none", "group", "static"}]
    BY DEF Untracked
  <2> QED
    BY <1>1, <2>1, <2>2, <2>3, EmptyIsFine, SeqWider DEF HookTyped
<1> QED
  BY <1>2, <1>3, <1>4, <1>5, <1>6 DEF Next, PollStep, Outside

LEMMA TypesFollow == HookInv /\ HookTyped => TypeOK
BY HookAssumption, EmptyIsFine DEF HookInv, Shape, HookTyped, TypeOK, Working

------------------------------------------------------------------------------
(* Nothing is lost.                                                        *)

In(n, s) == \E i \in 1 .. Len(s) : s[i].id = n

\* Where a command is, if it has not run and no clear has done away with it.
UnderWay(n) == In(n, kept) \/ In(n, Working) \/ In(n, buf) \/ In(n, sock) \/ In(n, early)
Settled(n) == \E d \in ran : d.id = n \/ (d.cmd = "clear" /\ d.id >= n)

\* What was written to a connection that waits is where it was written to: the one
\* before may be lost without it.
NoneLost ==
    /\ \A n \in (since + 1) .. sent : UnderWay(n) \/ Settled(n)
    /\ waiting => \A n \in (since + 1) .. sent : In(n, early)

LEMMA InPieces ==
    ASSUME NEW s \in Seq(Commands), NEW n
    PROVE  /\ s # <<>> /\ In(n, s) => Head(s).id = n \/ In(n, Tail(s))
           /\ \A c \in Commands : In(n, s) \/ c.id = n => In(n, Append(s, c))
           /\ \A t \in Seq(Commands) : In(n, s) \/ In(n, t) => In(n, s \o t)
           /\ \A k \in 0 .. Len(s) :
                 In(n, s) => In(n, SubSeq(s, 1, k)) \/ In(n, SubSeq(s, k + 1, Len(s)))
<1>1. s # <<>> /\ In(n, s) => Head(s).id = n \/ In(n, Tail(s))
  <2> SUFFICES ASSUME s # <<>>, NEW i \in 1 .. Len(s), s[i].id = n, i # 1
               PROVE  In(n, Tail(s))
    BY DEF In
  <2>1. i - 1 \in 1 .. Len(Tail(s)) /\ Tail(s)[i - 1] = s[i]
    OBVIOUS
  <2> QED
    BY <2>1 DEF In
<1>2. \A c \in Commands : In(n, s) \/ c.id = n => In(n, Append(s, c))
  <2> SUFFICES ASSUME NEW c \in Commands, In(n, s) \/ c.id = n
               PROVE  In(n, Append(s, c))
    OBVIOUS
  <2>1. /\ Len(Append(s, c)) = Len(s) + 1 /\ Len(s) \in Nat /\ Append(s, c)[Len(s) + 1] = c
        /\ \A i \in 1 .. Len(s) : Append(s, c)[i] = s[i]
    OBVIOUS
  <2> QED
    BY <2>1 DEF In
<1>3. \A t \in Seq(Commands) : In(n, s) \/ In(n, t) => In(n, s \o t)
  <2> SUFFICES ASSUME NEW t \in Seq(Commands), In(n, s) \/ In(n, t)
               PROVE  In(n, s \o t)
    OBVIOUS
  <2>1. /\ Len(s \o t) = Len(s) + Len(t) /\ Len(s) \in Nat /\ Len(t) \in Nat
        /\ \A i \in 1 .. Len(s) : (s \o t)[i] = s[i]
        /\ \A i \in 1 .. Len(t) : (s \o t)[Len(s) + i] = t[i]
    OBVIOUS
  <2>2. ASSUME NEW i \in 1 .. Len(s), s[i].id = n PROVE In(n, s \o t)
    BY <2>1, <2>2 DEF In
  <2>3. ASSUME NEW i \in 1 .. Len(t), t[i].id = n PROVE In(n, s \o t)
    <3>1. Len(s) + i \in 1 .. Len(s \o t)
      BY <2>1
    <3> QED
      BY <2>1, <2>3, <3>1 DEF In
  <2> QED
    BY <2>2, <2>3 DEF In
<1>4. \A k \in 0 .. Len(s) :
          In(n, s) => In(n, SubSeq(s, 1, k)) \/ In(n, SubSeq(s, k + 1, Len(s)))
  <2> SUFFICES ASSUME NEW k \in 0 .. Len(s), NEW i \in 1 .. Len(s), s[i].id = n
               PROVE  In(n, SubSeq(s, 1, k)) \/ In(n, SubSeq(s, k + 1, Len(s)))
    BY DEF In
  <2>1. CASE i <= k
    <3>1. i \in 1 .. Len(SubSeq(s, 1, k)) /\ SubSeq(s, 1, k)[i] = s[i]
      BY <2>1
    <3> QED
      BY <3>1 DEF In
  <2>2. CASE i > k
    <3>1. /\ i - k \in 1 .. Len(SubSeq(s, k + 1, Len(s)))
          /\ SubSeq(s, k + 1, Len(s))[i - k] = s[i]
      BY <2>2
    <3> QED
      BY <3>1 DEF In
  <2> QED
    BY <2>1, <2>2
<1> QED
  BY <1>1, <1>2, <1>3, <1>4

LEMMA LostInit == Init => NoneLost
BY DEF Init, NoneLost

\* Nothing is written, and nothing that is under way goes.
LEMMA StaysUnderWay ==
    ASSUME NoneLost, since' = since, sent' = sent, waiting' = waiting, early' = early,
           \A n \in (since + 1) .. sent : UnderWay(n) => UnderWay(n)' \/ Settled(n)',
           ran \subseteq ran'
    PROVE  NoneLost'
BY DEF NoneLost, Settled

\* A connection is lost: what is still in since .. sent waits in the next one.
LEMMA LossIsForgiven ==
    ASSUME NoneLost, sent \in Nat, sent' = sent, UNCHANGED <<waiting, early>>,
           since' = IF waiting THEN since ELSE sent
    PROVE  NoneLost'
BY DEF NoneLost, UnderWay

LEMMA LostWrite ==
    ASSUME HookInv, NoneLost, since \in Nat, NEW kind \in Kinds, NEW g \in Groups, Write(kind, g)
    PROVE  NoneLost'
<1> DEFINE c == Command(kind, g)
<1>1. sent \in Nat /\ sent + 1 \in 1 .. MaxSent
  BY HookAssumption DEF HookInv, Shape, Write
<1>2. c \in Commands /\ c.id = sent + 1
  BY <1>1, HookAssumption DEF Command, Commands
<1>3. /\ UNCHANGED <<kept, todo, queue, polling, buf, waiting, since, ran>>
      /\ sent' = sent + 1 /\ Working' = Working
      /\ \/ waiting /\ early' = Append(early, c) /\ sock' = sock
         \/ ~waiting /\ sock' = Append(sock, c) /\ early' = early
  BY DEF Write, poll, Working
<1> HIDE DEF c
<1>4. sock \in Seq(Commands) /\ early \in Seq(Commands)
  BY DEF HookInv, Shape
<1>5. \A n : /\ In(n, sock) => In(n, sock')
             /\ In(n, early) => In(n, early')
  BY <1>2, <1>3, <1>4, InPieces
<1>6. /\ In(sent + 1, sock') \/ In(sent + 1, early')
      /\ waiting => In(sent + 1, early')
  BY <1>2, <1>3, <1>4, InPieces
<1>7. \A n \in (since' + 1) .. sent' : n = sent + 1 \/ n \in (since + 1) .. sent
  BY <1>1, <1>3
<1>8. \A n : UnderWay(n) => UnderWay(n)'
  BY <1>3, <1>5 DEF UnderWay
<1>9. \A n : /\ n = sent + 1 => UnderWay(n)'
             /\ Settled(n) => Settled(n)'
  BY <1>3, <1>6 DEF UnderWay, Settled
<1> QED
  BY <1>3, <1>5, <1>6, <1>7, <1>8, <1>9 DEF NoneLost

\* A poll reads: the lines are queued, or stay in the buffer.
LEMMA LostRead ==
    ASSUME HookInv, NoneLost, PollRead
    PROVE  NoneLost'
<1> DEFINE k == IF Len(Lines) < MAX_LINES THEN Len(Lines) ELSE MAX_LINES
<1>1. /\ ~polling /\ Working = queue /\ kept = <<>>
      /\ queue \in Seq(Commands) /\ buf \in Seq(Commands) /\ sock \in Seq(Commands)
  BY DEF HookInv, Shape, PollRead, Working
<1>2. /\ Working' = queue \o SubSeq(Lines, 1, k) /\ buf' = SubSeq(Lines, k + 1, Len(Lines))
      /\ UNCHANGED <<waiting, early, sent, since, ran>>
  BY DEF PollRead, StartLoop, Take, Rest, Working, history
<1>3. Lines \in Seq(Commands)
  BY <1>1 DEF Lines
<1>4. k \in 0 .. Len(Lines)
  BY <1>3, HookAssumption
<1> HIDE DEF k
<1>5. SubSeq(Lines, 1, k) \in Seq(Commands)
  BY <1>3, <1>4
<1>6. \A n : In(n, buf) \/ In(n, sock) => In(n, Lines)
  BY <1>1, InPieces DEF Lines
<1>7. \A n : In(n, Lines) => In(n, Working') \/ In(n, buf')
  BY <1>1, <1>2, <1>3, <1>4, <1>5, InPieces
<1>8. \A n : In(n, queue) => In(n, Working')
  BY <1>1, <1>2, <1>5, InPieces
<1>9. \A n : ~In(n, kept)
  BY <1>1 DEF In
<1>10. \A n : UnderWay(n) => UnderWay(n)'
  BY <1>1, <1>2, <1>6, <1>7, <1>8, <1>9 DEF UnderWay
<1> QED
  BY <1>2, <1>10, StaysUnderWay

\* The first command is run, or kept; a clear settles what was kept, which is older.
LEMMA LostRun ==
    ASSUME HookInv, NoneLost, PollReroute \/ PollCostly \/ PollClear \/ PollDefer
    PROVE  NoneLost'
<1> DEFINE h == Head(todo)
<1>1. /\ polling /\ todo # <<>> /\ Working = todo /\ Working' = Tail(todo)
      /\ todo \in Seq(Commands) /\ h \in Commands /\ kept \in Seq(Commands) /\ h.id \in Nat
      /\ \A i \in 1 .. Len(kept) : kept[i].id < h.id
  <2>1. polling /\ todo # <<>> /\ Working' = Tail(todo)
    BY DEF PollReroute, PollCostly, PollClear, PollDefer, Advance, Working
  <2> QED
    BY <2>1, FirstOfTodo DEF HookInv, Shape
<1>2. \A n : In(n, Working) => h.id = n \/ In(n, Working')
  BY <1>1, InPieces
<1>3. /\ UNCHANGED <<waiting, early, sent>> /\ ran \subseteq ran'
      /\ \/ UNCHANGED <<buf, sock, since>>
         \/ since' = IF waiting THEN since ELSE sent
  BY DEF PollReroute, PollCostly, PollClear, PollDefer, Dispatch, Say, Disconnect, conn, history
<1>4. \A n : h.id = n => UnderWay(n)' \/ Settled(n)'
  <2>1. CASE PollDefer
    BY <1>1, <2>1, InPieces DEF PollDefer, Deferred, UnderWay
  <2>2. CASE PollReroute \/ PollCostly \/ PollClear
    <3>1. \E cmd : [id |-> h.id, cmd |-> cmd] \in ran'
      BY <2>2 DEF PollReroute, PollCostly, PollClear, Dispatch
    <3> QED
      BY <3>1 DEF Settled
  <2> QED
    BY <2>1, <2>2
<1>5. \A n : In(n, kept) => UnderWay(n)' \/ Settled(n)'
  <2>1. CASE PollDefer
    BY <1>1, <2>1, InPieces DEF PollDefer, Deferred, UnderWay
  <2>2. CASE PollReroute \/ PollCostly
    BY <2>2 DEF PollReroute, PollCostly, UnderWay
  <2>3. CASE PollClear
    <3>1. \A n : In(n, kept) => n \in Nat /\ n < h.id
      BY <1>1, CommandIds DEF In
    <3>2. [id |-> h.id, cmd |-> "clear"] \in ran'
      BY <2>3 DEF PollClear
    <3> QED
      BY <1>1, <3>1, <3>2 DEF Settled
  <2> QED
    BY <2>1, <2>2, <2>3
<1>6. sent \in Nat
  BY HookAssumption DEF HookInv, Shape
<1> HIDE DEF h
<1>7. CASE UNCHANGED <<buf, sock, since>>
  <2>1. \A n : UnderWay(n) => UnderWay(n)' \/ Settled(n)'
    BY <1>2, <1>3, <1>4, <1>5, <1>7 DEF UnderWay
  <2> QED
    BY <1>3, <1>7, <2>1, StaysUnderWay
<1>8. CASE since' = IF waiting THEN since ELSE sent
  BY <1>3, <1>6, <1>8, LossIsForgiven
<1> QED
  BY <1>3, <1>7, <1>8

LEMMA LostOthers ==
    ASSUME HookInv, NoneLost,
           \/ PollListen \/ PollAccept \/ PollAcceptFails \/ PollReadClosed \/ PollEnd
           \/ Connect \/ PeerClose \/ (\E e \in world : Sink(e))
           \/ onMissionLoadEnd \/ onSimulationStop \/ UNCHANGED vars
    PROVE  NoneLost'
<1>1. sent \in Nat
  BY HookAssumption DEF HookInv, Shape
<1>2. CASE PollListen \/ PeerClose \/ (\E e \in world : Sink(e)) \/ UNCHANGED vars
  <2>1. Working' = Working /\ UNCHANGED <<kept, buf, sock, early, waiting, sent, since, ran>>
    BY <1>2 DEF PollListen, PeerClose, Sink, vars, conn, poll, history, Working
  <2> QED
    BY <2>1 DEF NoneLost, UnderWay, Settled
<1>3. CASE Connect \/ PollAcceptFails \/ onMissionLoadEnd \/ onSimulationStop
  <2>1. since' = sent /\ sent' = sent
    BY <1>3 DEF Connect, PollAcceptFails, onMissionLoadEnd, onSimulationStop, CloseAll
  <2> QED
    BY <1>1, <2>1 DEF NoneLost
<1>4. CASE PollAccept
  BY <1>4 DEF PollAccept, NoneLost, UnderWay, history
<1>5. CASE PollReadClosed
  BY <1>1, <1>5, LossIsForgiven DEF PollReadClosed, Disconnect
<1>6. CASE PollEnd
  <2>1. Working = <<>> /\ Working' = kept /\ UNCHANGED <<buf, sock, early, waiting, sent, since, ran>>
    BY <1>6 DEF PollEnd, Remaining, Working, conn, history
  <2>2. \A n : ~In(n, <<>>)
    BY DEF In
  <2> QED
    BY <2>1, <2>2 DEF NoneLost, UnderWay, Settled
<1> QED
  BY <1>2, <1>3, <1>4, <1>5, <1>6

HookSafe == HookInv /\ HookTyped /\ NoneLost

LEMMA SafeInductive == HookSafe /\ [Next]_vars => HookSafe'
<1> SUFFICES ASSUME HookSafe, [Next]_vars PROVE HookSafe'
  OBVIOUS
<1>1. HookInv'
  BY HookInductive DEF HookSafe
<1>2. HookTyped'
  BY <1>1, RunTyped, ClearTyped, OthersTyped DEF HookSafe
<1>3. NoneLost'
  <2>1. since \in Nat
    BY HookAssumption DEF HookSafe, HookTyped
  <2> QED
    BY <2>1, LostWrite, LostRead, LostRun, LostOthers DEF HookSafe, Next, PollStep, Outside
<1> QED
  BY <1>1, <1>2, <1>3 DEF HookSafe

LEMMA UnderWayIsInFlight ==
    ASSUME Shape, NEW n, UnderWay(n)
    PROVE  n \in InFlight
<1> DEFINE Numbers(s) == {s[i].id : i \in DOMAIN s}
<1>1. \A s \in Seq(Commands) : In(n, s) => n \in Numbers(s)
  <2> SUFFICES ASSUME NEW s \in Seq(Commands), In(n, s)
               PROVE  n \in Numbers(s)
    OBVIOUS
  <2>1. DOMAIN s = 1 .. Len(s)
    OBVIOUS
  <2> QED
    BY <2>1 DEF In
<1>2. /\ kept \in Seq(Commands) /\ Working \in Seq(Commands) /\ buf \in Seq(Commands)
      /\ sock \in Seq(Commands) /\ early \in Seq(Commands)
  BY DEF Shape
<1> DEFINE All == UNION {Numbers(q) : q \in {early, sock, buf, todo, kept}}
<1>3. InFlight = All \cup (IF polling THEN {} ELSE Numbers(queue))
  BY DEF InFlight
<1> HIDE DEF Numbers
<1>4. \A q \in {early, sock, buf, todo, kept} : n \in Numbers(q) => n \in All
  BY Zenon
<1> HIDE DEF All
<1>5. ~polling => (n \in Numbers(queue) => n \in InFlight)
  BY <1>3
<1>6. n \in Numbers(Working) => n \in InFlight
  BY <1>3, <1>4, <1>5 DEF Working
<1> QED
  BY <1>1, <1>2, <1>3, <1>4, <1>6 DEF UnderWay

\* While its connection lasts, a command that has not run and that no clear has done
\* away with is on its way: no budget, line cap or buffer, however small, loses one.
\* (tcpReadLines, poll)
THEOREM NoneIsLost == Spec => []NothingIsLost
<1>1. Init => HookSafe
  BY HookInit, TypedInit, LostInit DEF HookSafe
<1>2. HookSafe => NothingIsLost
  <2> SUFFICES ASSUME HookSafe PROVE NothingIsLost
    OBVIOUS
  <2>1. TypeOK
    BY TypesFollow DEF HookSafe
  <2>2. \A n \in (since + 1) .. sent :
            n \in InFlight \/ Cleared(n) \/ \E c \in ran : c.id = n
    BY UnderWayIsInFlight DEF HookSafe, HookInv, NoneLost, Settled, Cleared
  <2> QED
    BY <2>1, <2>2 DEF NothingIsLost
<1> QED
  BY <1>1, <1>2, SafeInductive, PTL DEF Spec

------------------------------------------------------------------------------
(* What is tracked is kept.                                                *)

\* A handler of g leaves the other groups alone, and tracks g only if it placed
\* it or left it where it was.
Careful(o, p, g) ==
    /\ \A h \in Groups \ {g} :
          /\ p.tracked[h] = o.tracked[h]
          /\ \A kind : <<h, kind>> \in o.world => <<h, kind>> \in p.world
    /\ \/ p.tracked[g] = "none"
       \/ <<g, p.tracked[g]>> \in p.world
       \/ p.tracked[g] = o.tracked[g] /\ o.world \subseteq p.world

LEMMA CarefulChain ==
    ASSUME NEW o, NEW p, NEW q, NEW g, Careful(o, p, g), Careful(p, q, g)
    PROVE  Careful(o, q, g)
BY DEF Careful

LEMMA PartsCareful ==
    ASSUME NEW o \in Left, NEW g \in Groups
    PROVE  /\ Careful(o, o, g) /\ Careful(o, Ready(o), g) /\ Careful(o, Forget(o, g), g)
           /\ Careful(o, [Forget(o, g) EXCEPT !.world = Destroyed(@, g)], g)
           /\ \A kind \in {"group", "static"} : Careful(o, Placed(o, g, kind), g)
           /\ \A type : Careful(o, Told(o, type, g), g)
<1>1. Careful(o, o, g)
  BY DEF Careful
<1>2. Ready(o).tracked = o.tracked /\ Ready(o).world = o.world
  BY DEF Ready, Left
<1>3. /\ Forget(o, g).tracked = [o.tracked EXCEPT ![g] = "none"]
      /\ Forget(o, g).world = o.world
  BY DEF Forget, Left
<1>4. \A W : [Forget(o, g) EXCEPT !.world = W].tracked = Forget(o, g).tracked
             /\ [Forget(o, g) EXCEPT !.world = W].world = W
  BY DEF Forget, Left
<1>5. o.tracked \in [Groups -> {"none", "group", "static"}]
  BY DEF Left
<1>6. \A h, kind : h # g /\ <<h, kind>> \in o.world => <<h, kind>> \in Destroyed(o.world, g)
  BY DEF Destroyed, DestroyAll
<1>7. Careful(o, [Forget(o, g) EXCEPT !.world = Destroyed(@, g)], g)
  BY <1>3, <1>4, <1>5, <1>6 DEF Careful
<1>8. \A kind \in {"group", "static"} : Careful(o, Placed(o, g, kind), g)
  <2> SUFFICES ASSUME NEW kind \in {"group", "static"} PROVE Careful(o, Placed(o, g, kind), g)
    OBVIOUS
  <2>1. /\ Placed(o, g, kind).tracked = [o.tracked EXCEPT ![g] = kind]
        /\ Placed(o, g, kind).world = o.world \cup {<<g, kind>>}
    BY DEF Placed, Left
  <2> QED
    BY <1>5, <2>1 DEF Careful
<1>9. \A type : Careful(o, Told(o, type, g), g)
  <2>1. \A type : Told(o, type, g).tracked = o.tracked /\ Told(o, type, g).world = o.world
    BY DEF Told, Left
  <2> QED
    BY <2>1 DEF Careful
<1> QED
  BY <1>1, <1>2, <1>3, <1>5, <1>7, <1>8, <1>9 DEF Careful

LEMMA SpawnCareful ==
    ASSUME NEW o \in Left, NEW c \in Commands, NEW g \in Groups, NEW p \in handleSpawn(o, c, g)
    PROVE  Careful(o, p, g)
<1> DEFINE r == Ready(o)
<1>1. Kind(c) \in {"group", "static"}
  BY DEF Kind
<1>2. r \in Left /\ Careful(o, r, g) /\ Careful(o, o, g)
  BY PartsTyped, PartsCareful
<1>3. p \in {o, Placed(r, g, Kind(c)), Told(r, "reject", g), Told(r, "error", g)}
  BY DEF handleSpawn, NotReady, IfFailures
<1> HIDE DEF r
<1>4. /\ Careful(r, Placed(r, g, Kind(c)), g) /\ Careful(r, Told(r, "reject", g), g)
      /\ Careful(r, Told(r, "error", g), g)
  BY <1>1, <1>2, PartsCareful
<1> QED
  BY <1>2, <1>3, <1>4, CarefulChain

LEMMA RemoveCareful ==
    ASSUME NEW o \in Left, NEW c \in Commands, NEW g \in Groups, NEW p \in handleRemove(o, c, g)
    PROVE  Careful(o, p, g)
<1> DEFINE r == Ready(o)
           d == [Forget(r, g) EXCEPT !.world = Destroyed(@, g)]
<1>1. p \in {o, d, Forget(r, g)}
  BY DEF handleRemove, NotReady, IfFailures
<1>2. r \in Left /\ Careful(o, r, g) /\ Careful(o, o, g)
  BY PartsTyped, PartsCareful
<1> HIDE DEF r
<1>3. Careful(r, d, g) /\ Careful(r, Forget(r, g), g)
  BY <1>2, PartsCareful
<1> HIDE DEF d
<1> QED
  BY <1>1, <1>2, <1>3, CarefulChain

LEMMA MoveCareful ==
    ASSUME NEW o \in Left, NEW c \in Commands, NEW g \in Groups, NEW p \in handleMove(o, c, g)
    PROVE  Careful(o, p, g)
<1> DEFINE r == Ready(o)
           d == [Forget(r, g) EXCEPT !.world = Destroyed(@, g)]
<1>1. \E m \in {o, d, Forget(r, g), Forget(o, g)} : p \in handleSpawn(m, c, g)
  BY DEF handleMove, IfFailures
<1>2. /\ r \in Left /\ Careful(o, r, g) /\ Careful(o, o, g)
      /\ Forget(o, g) \in Left /\ Careful(o, Forget(o, g), g)
  BY PartsTyped, PartsCareful
<1> HIDE DEF r
<1>3. /\ d \in Left /\ Careful(r, d, g)
      /\ Forget(r, g) \in Left /\ Careful(r, Forget(r, g), g)
  BY <1>2, PartsTyped, PartsCareful
<1> HIDE DEF d
<1>4. \A m \in {o, d, Forget(r, g), Forget(o, g)} : m \in Left /\ Careful(o, m, g)
  BY <1>2, <1>3, CarefulChain
<1> QED
  BY <1>1, <1>4, SpawnCareful, CarefulChain

LEMMA RerouteCareful ==
    ASSUME NEW o \in Left, NEW c \in Commands, NEW g \in Groups, NEW p \in handleReroute(o, c, g)
    PROVE  Careful(o, p, g)
<1> DEFINE r == Ready(o)
<1>1. r \in Left /\ Careful(o, r, g) /\ Careful(o, o, g)
  BY PartsTyped, PartsCareful
<1>2. handleReroute(o, c, g) =
          NotReady(o) \cup
          CASE o.tracked[g] = "none"   -> handleSpawn(r, c, g)
            [] o.tracked[g] = "static" -> {r}
            [] <<g, "group">> \in o.world -> {r} \cup IfFailures(handleMove(r, c, g))
            [] OTHER -> handleSpawn(Forget(r, g), c, g) \cup IfFailures({r})
  BY DEF handleReroute, r
<1> HIDE DEF r
<1>3. \/ p \in {o, r} \/ p \in handleSpawn(r, c, g) \/ p \in handleMove(r, c, g)
      \/ p \in handleSpawn(Forget(r, g), c, g)
  BY <1>2 DEF NotReady, IfFailures
<1>4. Forget(r, g) \in Left /\ Careful(o, Forget(r, g), g)
  BY <1>1, PartsTyped, PartsCareful, CarefulChain
<1> QED
  BY <1>1, <1>3, <1>4, SpawnCareful, MoveCareful, CarefulChain

\* What a command that is not a clear may do.
LEMMA RunIsCareful ==
    ASSUME HookInv, HookTyped, PollReroute \/ PollCostly
    PROVE  \E g \in Groups : \E o \in Left :
              Careful(Now, o, g) /\ tracked' = o.tracked /\ world' = o.world
<1> DEFINE h == Head(todo)
<1>1. polling /\ todo # <<>> /\ Dispatch(h) /\ h.cmd # "clear"
  BY DEF PollReroute, PollCostly, IsReroute, IsCostly
<1>2. h \in Commands
  BY <1>1, FirstOfTodo
<1> HIDE DEF h
<1>3. PICK o \in Outcomes(h) : tracked' = o.tracked /\ world' = o.world
  BY <1>1 DEF Dispatch
<1>4. Now \in Left /\ o \in Left
  BY <1>2, OutcomesTyped DEF HookTyped, Now, Left
<1>5. h.cmd \in {"spawn", "remove", "move", "reroute"} /\ h.groups \subseteq Groups
  BY <1>1, <1>2 DEF Commands
<1>6. PICK g \in h.groups :
          \/ o \in handleSpawn(Now, h, g) \/ o \in handleRemove(Now, h, g)
          \/ o \in handleMove(Now, h, g) \/ o \in handleReroute(Now, h, g)
  BY <1>5 DEF Outcomes
<1>7. Careful(Now, o, g)
  BY <1>2, <1>4, <1>5, <1>6, SpawnCareful, RemoveCareful, MoveCareful, RerouteCareful
<1> QED
  BY <1>3, <1>4, <1>5, <1>6, <1>7

\* A group the hook tracks and DCS has is not destroyed behind its back, whatever
\* fails in between.  (handlers)
THEOREM TrackedStays == Spec => TrackedIsKept
<1> DEFINE Kept(g) == tracked'[g] = tracked[g] /\ <<g, tracked[g]>> \in world
                         => <<g, tracked[g]>> \in world'
<1>1. ASSUME HookSafe, [Next]_vars, polling, NEW g \in Groups
      PROVE  Kept(g)
  <2>1. /\ HookInv /\ HookTyped /\ tracked[g] \in {"none", "group", "static"}
        /\ <<g, "none">> \notin world
    BY <1>1 DEF HookSafe, HookTyped
  <2>2. CASE PollReroute \/ PollCostly
    <3>1. PICK h \in Groups, o \in Left :
              Careful(Now, o, h) /\ tracked' = o.tracked /\ world' = o.world
      BY <2>1, <2>2, RunIsCareful
    <3> QED
      BY <2>1, <3>1 DEF Careful, Now
  <2>3. CASE PollClear
    BY <2>1, <2>3 DEF PollClear, Untracked
  <2>4. CASE world' = world
    BY <2>4
  <2> QED
    BY <1>1, <2>2, <2>3, <2>4 DEF Next, PollStep, Outside, PollListen, PollAccept,
       PollAcceptFails, PollRead, PollReadClosed, PollDefer, PollEnd, Connect, PeerClose,
       Write, Sink, onMissionLoadEnd, onSimulationStop, vars, dcs
<1>2. Init => HookSafe
  BY HookInit, TypedInit, LostInit DEF HookSafe
<1>3. HookSafe /\ [Next]_vars =>
          [polling => \A g \in Groups :
              (tracked'[g] = tracked[g] /\ <<g, tracked[g]>> \in world)
                  => <<g, tracked[g]>> \in world']_vars
  BY <1>1
<1> QED
  BY <1>2, <1>3, SafeInductive, PTL DEF Spec, TrackedIsKept
=============================================================================
