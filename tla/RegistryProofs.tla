--------------------------- MODULE RegistryProofs ---------------------------
(***************************************************************************)
(* Theorems about Registry, for any number of requests at one time, any    *)
(* limits and bounds, and any file the program has written; and about      *)
(* ConfigFile, for any number of servers and any files of older versions.  *)
(*                                                                         *)
(* The inductive invariant follows the pointers: each leads to settings    *)
(* (PointersLead), in an array that may no longer be the slice's, or to a  *)
(* cell another server's settings have moved into.  What keeps the flags   *)
(* of a server that runs since the start right is that nothing else points *)
(* into the copies its instance was given, and that its entry stands       *)
(* before whatever the others point to (InFront): entries only move down.  *)
(* That holds while the server is listed, and it is delisted only after it *)
(* was stopped (OldApart).                                                 *)
(*                                                                         *)
(* The last part is about ConfigFile: what is left of the file when a save *)
(* ends early is part of what was written, and is read as such (PartLoads).*)
(***************************************************************************)
EXTENDS Registry, ConfigFile, FiniteSetTheorems, SequenceTheorems, TLAPS

\* What spawns is tracked.
Sound == {s \in Settings : s.spawn => s.tracking}

\* A pointer that leads to settings.
Leads(p) ==
    /\ p[1] \in DOMAIN heap /\ p[2] \in DOMAIN heap[p[1]]
    /\ At(p) \in Sound

Pointer == Nat \X Nat

\* An entry of cfg.Servers.
Entry(i) == heap[slice.arr][i]
Entries == 1 .. slice.len

Request ==
    {Idle}
    \cup [op : {"add"}, at : {"append"}, id : Ids, port : Nat]
    \cup [op : {"add"}, at : {"start", "register"}, id : Ids, pointer : Pointer]
    \cup [op : {"remove"}, at : {"stop", "delist"}, id : Ids]
    \cup [op : {"toggle"}, at : {"set", "save", "answer"}, id : Ids, pointer : Pointer,
          field : {"tracking", "spawn"}, on : BOOLEAN]
    \cup [op : {"patch", "filters"}, at : {"set", "save"}, id : Ids, limit : Limits]

\* Requests that hold a pointer.
Adding(r) == r.op = "add" /\ r.at # "append"
Toggling(r) == r.op = "toggle"

\* The server no longer runs and is still listed.
Delisting(r) == r.op = "remove" /\ r.at = "delist"

Typed ==
    /\ heap \in Seq(Seq(Settings \cup {Blank}))
    /\ slice \in [arr : Nat, len : 0 .. MaxServers]
    /\ instances \in [Ids -> Pointer]
    /\ private \in SUBSET Ids
    /\ requests \in [Requests -> Request]
    /\ frozen \in BOOLEAN

FileSound ==
    /\ disk \in Seq(Sound) /\ Len(disk) <= MaxServers
    /\ Distinct(disk)

\* Before the program starts.
Down ==
    ~Up => /\ slice = [arr |-> 0, len |-> 0]
           /\ \A id \in Ids : instances[id] = NoPointer
           /\ \A q \in Requests : requests[q] = Idle

\* The entries in use are settings, of servers that differ.  The second array
\* is the copy the instances of the start are given.
SliceSound ==
    Up => /\ slice.arr \in DOMAIN heap \ {2} /\ 2 \in DOMAIN heap
          /\ slice.len <= Len(heap[slice.arr])
          /\ \A i \in Entries : Entry(i) \in Sound
          /\ \A i, j \in Entries :
                i # j => Entry(i).id # Entry(j).id /\ Entry(i).port # Entry(j).port

PointersLead ==
    /\ \A id \in Ids : instances[id] # NoPointer => Leads(instances[id])
    /\ \A q \in Requests :
          Adding(requests[q]) \/ Toggling(requests[q]) => Leads(requests[q].pointer)

Current == Len(disk) = slice.len /\ \A i \in Entries : disk[i] = Entry(i)

SavedOrSaving == Up => Current \/ \E q \in Requests : requests[q].at = "save"

\* A server that does not run is being removed or being added.
RunsOrWill ==
    \A i \in Entries :
        \/ instances[Entry(i).id] # NoPointer
        \/ \E q \in Requests :
              /\ Adding(requests[q]) \/ Delisting(requests[q])
              /\ requests[q].id = Entry(i).id

\* The servers that still run as the start left them.
Original == {id \in private : instances[id] # NoPointer}

\* p leads to an entry behind i, if it leads to an entry at all.
Behind(p, i) == p[1] = slice.arr => i < p[2]

\* i is the entry of a server, and has the flags the server goes by.
Shows(id, i) ==
    /\ Entry(i).id = id
    /\ Entry(i).tracking = At(instances[id]).tracking
    /\ Entry(i).spawn = At(instances[id]).spawn

InFront(i) ==
    /\ \A id \in Ids : instances[id] # NoPointer => Behind(instances[id], i)
    /\ \A q \in Requests :
          Adding(requests[q]) \/ Toggling(requests[q]) => Behind(requests[q].pointer, i)

\* Their settings are copies; the entry of each stands before whatever others
\* point to, and nobody removes it while they run.
OldApart(id) ==
    /\ instances[id][1] = 2 /\ At(instances[id]).id = id
    /\ \A q \in Requests :
          /\ Delisting(requests[q]) => requests[q].id # id
          /\ Toggling(requests[q]) /\ requests[q].id = id =>
                requests[q].pointer = instances[id]
    /\ \E i \in Entries : Shows(id, i) /\ InFront(i)

Apart ==
    /\ \A id \in Original : OldApart(id)
    /\ \A id \in Ids : instances[id][1] = 2 => id \in Original
    /\ \A q \in Requests :
          /\ Adding(requests[q]) => requests[q].pointer[1] # 2
          /\ Toggling(requests[q]) /\ requests[q].pointer[1] = 2 =>
                At(requests[q].pointer).id = requests[q].id

IInv ==
    /\ Typed /\ FileSound /\ Down /\ SliceSound /\ PointersLead
    /\ SavedOrSaving /\ RunsOrWill /\ Apart

------------------------------------------------------------------------------
(* Sets of numbers and sequences.                                          *)

\* A bounded set of numbers that is not empty has a least element.
LEMMA Least ==
    ASSUME NEW n \in Nat, NEW S \in SUBSET (1 .. n), S # {}
    PROVE  \E x \in S : \A o \in 1 .. (x - 1) : o \notin S
<1>. DEFINE T == {1 .. x : x \in S}
<1>1. IsWellFoundedOn(StrictSubsetOrdering(1 .. n), FiniteSubsetsOf(1 .. n))
  BY FS_StrictSubsetOrderingWellFounded
<1>2. T \subseteq FiniteSubsetsOf(1 .. n)
  BY FS_Interval DEF FiniteSubsetsOf
<1>3. PICK t \in T : \A u \in T : ~(<<u, t>> \in StrictSubsetOrdering(1 .. n))
  <2>1. T # {}
    OBVIOUS
  <2>. HIDE DEF T
  <2>. QED
    BY <1>1, <1>2, <2>1, WFMin
<1>4. PICK x \in S : t = 1 .. x
  OBVIOUS
<1>5. ASSUME NEW o \in 1 .. (x - 1), o \in S
      PROVE  FALSE
  <2>1. 1 .. o \in T /\ 1 .. o \subseteq 1 .. x /\ x \in (1 .. x) \ (1 .. o)
    BY <1>5
  <2>2. <<1 .. o, 1 .. x>> \in StrictSubsetOrdering(1 .. n)
    BY <2>1 DEF StrictSubsetOrdering
  <2>. QED
    BY <1>3, <1>4, <2>1, <2>2
<1>. QED
  BY <1>5

\* And a greatest one.
LEMMA Greatest ==
    ASSUME NEW n \in Nat, NEW S \in SUBSET (0 .. n), S # {}
    PROVE  \E x \in S : \A o \in S : o <= x
<1>. DEFINE R == {n + 1 - x : x \in S}
<1>1. R \in SUBSET (1 .. (n + 1)) /\ R # {} /\ n + 1 \in Nat
  <2>1. \A x \in S : n + 1 - x \in 1 .. (n + 1)
    OBVIOUS
  <2>2. R \in SUBSET (1 .. (n + 1))
    BY <2>1
  <2>3. PICK x \in S : TRUE
    OBVIOUS
  <2>4. n + 1 - x \in R
    OBVIOUS
  <2>. QED
    BY <2>2, <2>4
<1>2. PICK y \in R : \A o \in 1 .. (y - 1) : o \notin R
  <2>. HIDE DEF R
  <2>. QED
    BY <1>1, Least
<1>3. PICK x \in S : y = n + 1 - x
  OBVIOUS
<1>4. ASSUME NEW o \in S, o > x
      PROVE  FALSE
  <2>1. n + 1 - o \in R /\ n + 1 - o \in 1 .. (y - 1)
    BY <1>3, <1>4
  <2>. QED
    BY <1>2, <2>1
<1>. QED
  BY <1>4

\* What the first n cells of an array are.
LEMMA Prefix ==
    ASSUME NEW S, NEW a, NEW n \in Nat, \A i \in 1 .. n : a[i] \in S
    PROVE  /\ SubSeq(a, 1, n) \in Seq(S)
           /\ Len(SubSeq(a, 1, n)) = n
           /\ DOMAIN SubSeq(a, 1, n) = 1 .. n
           /\ \A i \in 1 .. n : SubSeq(a, 1, n)[i] = a[i]
<1>1. SubSeq(a, 1, n) \in Seq(S)
  BY SubSeqProperties
<1>2. Len(SubSeq(a, 1, n)) = n
  BY SubSeqProperties
<1>3. \A i \in 1 .. n : SubSeq(a, 1, n)[i] = a[1 + i - 1]
  BY SubSeqProperties
<1>. QED
  BY <1>1, <1>2, <1>3, LenProperties

\* A function on the numbers up to n is a sequence.
LEMMA Sequence ==
    ASSUME NEW S, NEW n \in Nat, NEW f \in [1 .. n -> S]
    PROVE  f \in Seq(S) /\ Len(f) = n
BY SeqDef, LenProperties

------------------------------------------------------------------------------
(* The arrays.                                                             *)

Cell == Settings \cup {Blank}

\* What is an array and a cell of it.
LEMMA Arrays ==
    ASSUME Typed
    PROVE  /\ Len(heap) \in Nat /\ DOMAIN heap = 1 .. Len(heap)
           /\ \A a \in DOMAIN heap :
                 /\ heap[a] \in Seq(Cell)
                 /\ Len(heap[a]) \in Nat /\ DOMAIN heap[a] = 1 .. Len(heap[a])
                 /\ \A i \in DOMAIN heap[a] : heap[a][i] \in Cell
<1>1. heap \in Seq(Seq(Cell))
  BY DEF Typed, Cell
<1>2. Len(heap) \in Nat /\ DOMAIN heap = 1 .. Len(heap)
  BY <1>1, LenProperties
<1>3. ASSUME NEW a \in DOMAIN heap
      PROVE  heap[a] \in Seq(Cell)
  BY <1>1, <1>2, <1>3, ElementOfSeq
<1>4. ASSUME NEW a \in DOMAIN heap
      PROVE  Len(heap[a]) \in Nat /\ DOMAIN heap[a] = 1 .. Len(heap[a])
  BY <1>3, LenProperties
<1>5. ASSUME NEW a \in DOMAIN heap, NEW i \in DOMAIN heap[a]
      PROVE  heap[a][i] \in Cell
  BY <1>3, <1>4, ElementOfSeq
<1>. QED
  BY <1>2, <1>3, <1>4, <1>5

\* The slice and its entries.
LEMMA SliceEntries ==
    ASSUME Typed, SliceSound, Up
    PROVE  /\ slice.len \in Nat
           /\ Servers \in Seq(Sound) /\ Len(Servers) = slice.len
           /\ DOMAIN Servers = Entries
           /\ \A i \in Entries : Servers[i] = Entry(i)
<1>1. slice.len \in Nat
  BY RegistryAssumption DEF Typed
<1>2. \A i \in 1 .. slice.len : heap[slice.arr][i] \in Sound
  BY DEF SliceSound, Entry, Entries
<1>. QED
  BY <1>1, <1>2, Prefix DEF Servers, Entry, Entries

\* The same after a step.
LEMMA SliceEntriesNext ==
    ASSUME Typed', SliceSound', Up'
    PROVE  /\ slice'.len \in Nat
           /\ Servers' \in Seq(Sound) /\ Len(Servers') = slice'.len
           /\ DOMAIN Servers' = Entries'
           /\ \A i \in Entries' : Servers'[i] = heap'[slice'.arr][i]
<1>1. slice'.len \in Nat
  BY RegistryAssumption DEF Typed
<1>2. \A i \in 1 .. slice'.len : heap'[slice'.arr][i] \in Sound
  BY DEF SliceSound, Entry, Entries
<1>. QED
  BY <1>1, <1>2, Prefix DEF Servers, Entry, Entries

\* Which servers are listed, and where.
LEMMA Listed ==
    ASSUME Typed, SliceSound, Up
    PROVE  /\ ServerIDs = {Entry(i).id : i \in Entries}
           /\ \A i \in Entries : Index(Entry(i).id) = i
<1>1. ServerIDs = {Entry(i).id : i \in Entries}
  BY SliceEntries DEF ServerIDs
<1>2. ASSUME NEW i \in Entries
      PROVE  Index(Entry(i).id) = i
  <2>. DEFINE Here(k) == /\ Servers[k].id = Entry(i).id
                         /\ \A j \in 1 .. (k - 1) : Servers[j].id # Entry(i).id
  <2>1. \A j, k \in Entries : j # k => Entry(j).id # Entry(k).id
    BY DEF SliceSound
  <2>2. \A j \in Entries : Servers[j].id = Entry(j).id
    BY SliceEntries
  <2>3. \A k \in Entries : \A j \in 1 .. (k - 1) : j \in Entries /\ j # k
    BY SliceEntries DEF Entries
  <2>4. \A k \in Entries : Here(k) <=> k = i
    BY <2>1, <2>2, <2>3
  <2>5. Index(Entry(i).id) = CHOOSE k \in Entries : Here(k)
    BY SliceEntries DEF Index
  <2>. HIDE DEF Here
  <2>. QED
    BY <2>4, <2>5
<1>. QED
  BY <1>1, <1>2

\* What a step does that moves no pointer's settings away: a cell that held
\* settings still does, and outside of the slice of the same server.
KeepsCells ==
    /\ heap' \in Seq(Seq(Cell))
    /\ \A a \in DOMAIN heap :
          /\ a \in DOMAIN heap' /\ DOMAIN heap'[a] = DOMAIN heap[a]
          /\ \A i \in DOMAIN heap[a] : heap[a][i] \in Sound =>
                /\ heap'[a][i] \in Sound
                /\ a # slice.arr => heap'[a][i].id = heap[a][i].id

\* One array is replaced.
LEMMA Rewritten ==
    ASSUME Typed, NEW a \in DOMAIN heap, NEW b \in Seq(Cell),
           heap' = [heap EXCEPT ![a] = b]
    PROVE  /\ heap' \in Seq(Seq(Cell))
           /\ Len(heap') = Len(heap) /\ DOMAIN heap' = DOMAIN heap
           /\ heap'[a] = b
           /\ \A c \in DOMAIN heap : c # a => heap'[c] = heap[c]
<1>1. heap \in Seq(Seq(Cell)) /\ a \in 1 .. Len(heap)
  BY Arrays DEF Typed, Cell
<1>. QED
  BY <1>1, ExceptSeq, LenProperties

\* Appending puts the new settings after the entries, in the array or in a new one.
LEMMA ExtendedCells ==
    ASSUME Typed, SliceSound, Up, slice.len < MaxServers, NEW s \in Sound, Extended(s)
    PROVE  /\ KeepsCells
           /\ slice' \in [arr : Nat, len : 0 .. MaxServers]
           /\ slice'.arr \in DOMAIN heap' \ {2} /\ slice'.len = slice.len + 1
           /\ slice'.arr = slice.arr \/ slice'.arr \notin DOMAIN heap
           /\ slice'.len <= Len(heap'[slice'.arr])
           /\ \A i \in Entries : heap'[slice'.arr][i] = Entry(i)
           /\ heap'[slice'.arr][slice'.len] = s
           /\ \A c \in DOMAIN heap : c # slice.arr => heap'[c] = heap[c]
<1>. DEFINE a == heap[slice.arr]
            n == IF Len(a) = 0 THEN 1 ELSE 2 * Len(a)
            larger == [i \in 1 .. n |->
                          IF i <= Len(a) THEN a[i] ELSE IF i = Len(a) + 1 THEN s ELSE Blank]
<1>1. /\ slice.arr \in DOMAIN heap \ {2} /\ 2 \in DOMAIN heap
      /\ slice.len <= Len(a) /\ slice.len \in Nat
      /\ a \in Seq(Cell) /\ Len(a) \in Nat /\ DOMAIN a = 1 .. Len(a)
      /\ s \in Cell /\ a = heap[slice.arr]
      /\ slice = [arr |-> slice.arr, len |-> slice.len]
  BY Arrays, SliceEntries DEF SliceSound, Typed, Sound, Cell
<1>2. CASE slice.len < Len(a)
  <2>. DEFINE b == [a EXCEPT ![slice.len + 1] = s]
  <2>1. /\ b \in Seq(Cell) /\ Len(b) = Len(a) /\ DOMAIN b = DOMAIN a
        /\ \A j \in 1 .. Len(a) : b[j] = IF j = slice.len + 1 THEN s ELSE a[j]
    BY <1>1, <1>2, ExceptSeq, LenProperties
  <2>2. heap' = [heap EXCEPT ![slice.arr] = b] /\ slice' = [slice EXCEPT !.len = @ + 1]
    BY <1>2 DEF Extended
  <2>3. /\ heap' \in Seq(Seq(Cell)) /\ DOMAIN heap' = DOMAIN heap
        /\ heap'[slice.arr] = b
        /\ \A c \in DOMAIN heap : c # slice.arr => heap'[c] = heap[c]
    <3>. HIDE DEF b
    <3>. QED
      BY <1>1, <2>1, <2>2, Rewritten
  <2>4. slice'.arr = slice.arr /\ slice'.len = slice.len + 1
    BY <1>1, <2>2
  <2>5. slice' \in [arr : Nat, len : 0 .. MaxServers]
    <3>1. slice' = [arr |-> slice.arr, len |-> slice.len + 1]
      BY <1>1, <2>2
    <3>. QED
      BY <1>1, <3>1, RegistryAssumption DEF Typed
  <2>. HIDE DEF a, b
  <2>6. KeepsCells
    <3>1. \A j \in DOMAIN a : a[j] \in Sound => b[j] \in Sound
      BY <1>1, <2>1
    <3>. QED
      BY <1>1, <2>1, <2>3, <3>1 DEF KeepsCells
  <2>7. \A i \in Entries : heap'[slice'.arr][i] = Entry(i)
    BY <1>1, <1>2, <2>1, <2>3, <2>4 DEF Entry, Entries
  <2>8. heap'[slice'.arr][slice'.len] = s
    <3>1. slice.len + 1 \in 1 .. Len(a)
      BY <1>1, <1>2
    <3>2. b[slice.len + 1] = s
      BY <2>1, <3>1
    <3>. QED
      BY <2>3, <2>4, <3>2
  <2>. QED
    BY <1>1, <1>2, <2>1, <2>3, <2>4, <2>5, <2>6, <2>7, <2>8
<1>3. CASE ~(slice.len < Len(a))
  <2>1. n \in Nat /\ n >= Len(a) + 1 /\ slice.len = Len(a)
    BY <1>1, <1>3
  <2>2. heap' = Append(heap, larger) /\ slice' = [arr |-> Len(heap) + 1, len |-> slice.len + 1]
    BY <1>3 DEF Extended
  <2>3. larger \in [1 .. n -> Cell]
    BY <1>1 DEF Cell
  <2>4. larger \in Seq(Cell) /\ Len(larger) = n
    <3>. HIDE DEF larger, n
    <3>. QED
      BY <2>1, <2>3, Sequence
  <2>5. larger[Len(a) + 1] = s /\ \A i \in 1 .. Len(a) : larger[i] = a[i]
    BY <1>1, <2>1
  <2>. HIDE DEF larger, n
  <2>6. heap \in Seq(Seq(Cell)) /\ Len(heap) \in Nat /\ DOMAIN heap = 1 .. Len(heap)
    BY Arrays DEF Typed, Cell
  <2>7. /\ heap' \in Seq(Seq(Cell)) /\ Len(heap') = Len(heap) + 1
        /\ DOMAIN heap' = 1 .. (Len(heap) + 1)
        /\ \A c \in DOMAIN heap : heap'[c] = heap[c]
        /\ heap'[Len(heap) + 1] = larger
    BY <2>2, <2>4, <2>6, AppendProperties, LenProperties
  <2>8. slice'.arr = Len(heap) + 1 /\ slice'.len = slice.len + 1
    BY <2>2
  <2>9. slice' \in [arr : Nat, len : 0 .. MaxServers]
    BY <1>1, <2>2, <2>6, RegistryAssumption DEF Typed
  <2>10. KeepsCells
    BY <2>6, <2>7 DEF KeepsCells
  <2>11. Len(heap) + 1 # 2
    BY <1>1, <2>6
  <2>. QED
    <3>1. slice'.arr \in DOMAIN heap' \ {2} /\ slice'.arr \notin DOMAIN heap
      BY <2>6, <2>7, <2>8, <2>11
    <3>2. slice'.len <= Len(heap'[slice'.arr])
      BY <1>1, <2>1, <2>4, <2>7, <2>8
    <3>3. \A i \in Entries : heap'[slice'.arr][i] = Entry(i)
      BY <2>1, <2>5, <2>7, <2>8 DEF Entry, Entries
    <3>4. heap'[slice'.arr][slice'.len] = s
      BY <2>1, <2>5, <2>7, <2>8
    <3>. QED
      BY <2>7, <2>8, <2>9, <2>10, <3>1, <3>2, <3>3, <3>4
<1>. QED
  BY <1>2, <1>3

\* Removing an entry moves the later ones down.
LEMMA RemovedCells ==
    ASSUME Typed, SliceSound, Up, NEW k \in Entries,
           heap' = [heap EXCEPT ![slice.arr] =
              [j \in DOMAIN @ |-> IF j \in k .. (slice.len - 1) THEN @[j + 1] ELSE @[j]]],
           slice' = [slice EXCEPT !.len = @ - 1]
    PROVE  /\ KeepsCells
           /\ slice' \in [arr : Nat, len : 0 .. MaxServers]
           /\ slice'.arr = slice.arr /\ slice'.len = slice.len - 1
           /\ DOMAIN heap' = DOMAIN heap /\ slice'.len <= Len(heap'[slice'.arr])
           /\ \A i \in 1 .. (slice.len - 1) :
                 heap'[slice'.arr][i] = Entry(IF i < k THEN i ELSE i + 1)
           /\ \A c \in DOMAIN heap : c # slice.arr => heap'[c] = heap[c]
<1>. DEFINE a == heap[slice.arr]
            b == [j \in DOMAIN a |-> IF j \in k .. (slice.len - 1) THEN a[j + 1] ELSE a[j]]
<1>1. /\ slice.arr \in DOMAIN heap \ {2}
      /\ slice.len <= Len(a) /\ slice.len \in Nat /\ k \in 1 .. slice.len
      /\ a \in Seq(Cell) /\ Len(a) \in Nat /\ DOMAIN a = 1 .. Len(a)
      /\ \A i \in 1 .. slice.len : a[i] \in Sound
      /\ a = heap[slice.arr]
      /\ \A i \in DOMAIN a : a[i] \in Cell
      /\ slice = [arr |-> slice.arr, len |-> slice.len] /\ slice.arr \in Nat
  BY Arrays, SliceEntries DEF SliceSound, Typed, Entries, Entry
<1>2. b \in [1 .. Len(a) -> Cell]
  BY <1>1
<1>3. \A j \in 1 .. Len(a) : b[j] = IF j \in k .. (slice.len - 1) THEN a[j + 1] ELSE a[j]
  BY <1>1
<1>4. heap' = [heap EXCEPT ![slice.arr] = b]
  OBVIOUS
<1>. HIDE DEF a, b
<1>5. b \in Seq(Cell) /\ Len(b) = Len(a) /\ DOMAIN b = 1 .. Len(a)
  BY <1>1, <1>2, Sequence
<1>6. /\ heap' \in Seq(Seq(Cell)) /\ DOMAIN heap' = DOMAIN heap
      /\ heap'[slice.arr] = b
      /\ \A c \in DOMAIN heap : c # slice.arr => heap'[c] = heap[c]
  BY <1>1, <1>4, <1>5, Rewritten
<1>7. slice'.arr = slice.arr /\ slice'.len = slice.len - 1
  BY <1>1
<1>8. slice' \in [arr : Nat, len : 0 .. MaxServers]
  <2>1. slice' = [arr |-> slice.arr, len |-> slice.len - 1]
    BY <1>1
  <2>2. slice.len \in 0 .. MaxServers /\ MaxServers \in Nat
    BY RegistryAssumption DEF Typed
  <2>. QED
    BY <1>1, <2>1, <2>2
<1>9. KeepsCells
  <2>1. ASSUME NEW j \in 1 .. Len(a), a[j] \in Sound
        PROVE  b[j] \in Sound
    <3>1. CASE j \in k .. (slice.len - 1)
      <4>1. j + 1 \in 1 .. slice.len /\ b[j] = a[j + 1]
        BY <1>1, <1>3, <3>1
      <4>. QED
        BY <1>1, <4>1
    <3>2. CASE j \notin k .. (slice.len - 1)
      BY <1>3, <2>1, <3>2
    <3>. QED
      BY <3>1, <3>2
  <2>. QED
    BY <1>1, <1>5, <1>6, <2>1 DEF KeepsCells
<1>10. \A i \in 1 .. (slice.len - 1) : heap'[slice'.arr][i] = Entry(IF i < k THEN i ELSE i + 1)
  BY <1>1, <1>3, <1>6, <1>7 DEF Entry
<1>11. slice'.len <= Len(heap'[slice'.arr])
  BY <1>1, <1>5, <1>6, <1>7
<1>. QED
  BY <1>6, <1>7, <1>8, <1>9, <1>10, <1>11

\* Toggling makes settings of settings, and goes by the flags alone.
LEMMA ToggledFlags ==
    ASSUME NEW s \in Sound, NEW field \in {"tracking", "spawn"}, NEW on \in BOOLEAN
    PROVE  /\ Toggled(s, field, on) \in Sound
           /\ Toggled(s, field, on).id = s.id /\ Toggled(s, field, on).port = s.port
           /\ field = "tracking" /\ on => Toggled(s, field, on) = [s EXCEPT !.tracking = TRUE]
           /\ field = "tracking" /\ ~on =>
                 Toggled(s, field, on) = [s EXCEPT !.tracking = FALSE, !.spawn = FALSE]
           /\ field = "spawn" /\ on =>
                 Toggled(s, field, on) = [s EXCEPT !.spawn = TRUE, !.tracking = TRUE]
           /\ field = "spawn" /\ ~on => Toggled(s, field, on) = [s EXCEPT !.spawn = FALSE]
<1>. USE DEF Sound, Settings
<1>1. CASE field = "tracking" /\ on = TRUE
  <2>1. Toggled(s, field, on) = [s EXCEPT !.tracking = TRUE, !.spawn = TRUE /\ @]
    BY <1>1 DEF Toggled
  <2>2. (TRUE /\ s.spawn) = s.spawn
    OBVIOUS
  <2>. QED
    BY <1>1, <2>1, <2>2
<1>2. CASE field = "tracking" /\ on = FALSE
  <2>1. Toggled(s, field, on) = [s EXCEPT !.tracking = FALSE, !.spawn = FALSE /\ @]
    BY <1>2 DEF Toggled
  <2>2. (FALSE /\ s.spawn) = FALSE
    OBVIOUS
  <2>. QED
    BY <1>2, <2>1, <2>2
<1>3. CASE field = "spawn" /\ on = TRUE
  <2>1. Toggled(s, field, on) = [s EXCEPT !.spawn = TRUE, !.tracking = TRUE \/ @]
    BY <1>3 DEF Toggled
  <2>2. (TRUE \/ s.tracking) = TRUE
    OBVIOUS
  <2>. QED
    BY <1>3, <2>1, <2>2
<1>4. CASE field = "spawn" /\ on = FALSE
  <2>1. Toggled(s, field, on) = [s EXCEPT !.spawn = FALSE, !.tracking = FALSE \/ @]
    BY <1>4 DEF Toggled
  <2>2. (FALSE \/ s.tracking) = s.tracking
    OBVIOUS
  <2>. QED
    BY <1>4, <2>1, <2>2
<1>. QED
  BY <1>1, <1>2, <1>3, <1>4

\* Of that, what no flag is needed for.
LEMMA ToggledSettings ==
    ASSUME NEW s \in Sound, NEW field \in {"tracking", "spawn"}, NEW on \in BOOLEAN
    PROVE  Toggled(s, field, on) \in Sound /\ Toggled(s, field, on).id = s.id
BY ToggledFlags

\* Only the cell pointed to and the server's entry are toggled.
LEMMA ToggledCells ==
    ASSUME Typed, SliceSound, Up, UNCHANGED slice,
           NEW id, NEW p \in Pointer, Leads(p),
           NEW field \in {"tracking", "spawn"}, NEW on \in BOOLEAN,
           heap' = [a \in DOMAIN heap |-> [i \in DOMAIN heap[a] |->
                       IF <<a, i>> \in TouchedBy(id, p)
                       THEN Toggled(heap[a][i], field, on) ELSE heap[a][i]]]
    PROVE  /\ KeepsCells
           /\ DOMAIN heap' = DOMAIN heap
           /\ \A a \in DOMAIN heap : DOMAIN heap'[a] = DOMAIN heap[a]
           /\ \A a \in DOMAIN heap : \A i \in DOMAIN heap[a] :
                 heap'[a][i] = IF <<a, i>> = p \/ (a = slice.arr /\ i \in Entries /\ Entry(i).id = id)
                               THEN Toggled(heap[a][i], field, on) ELSE heap[a][i]
<1>. DEFINE Here(a, i) == <<a, i>> = p \/ (a = slice.arr /\ i \in Entries /\ Entry(i).id = id)
<1>1. \A a \in DOMAIN heap : \A i \in DOMAIN heap[a] : <<a, i>> \in TouchedBy(id, p) <=> Here(a, i)
  BY Listed DEF TouchedBy
<1>2. \A a \in DOMAIN heap : \A i \in DOMAIN heap[a] : Here(a, i) => heap[a][i] \in Sound
  BY DEF Leads, At, SliceSound, Entry
<1>. HIDE DEF Here
<1>3. /\ DOMAIN heap' = DOMAIN heap
      /\ \A a \in DOMAIN heap : DOMAIN heap'[a] = DOMAIN heap[a]
      /\ \A a \in DOMAIN heap : \A i \in DOMAIN heap[a] :
            heap'[a][i] = IF Here(a, i) THEN Toggled(heap[a][i], field, on) ELSE heap[a][i]
  BY <1>1
<1>4. ASSUME NEW a \in DOMAIN heap, NEW i \in DOMAIN heap[a]
      PROVE  /\ heap'[a][i] \in Cell
             /\ heap[a][i] \in Sound =>
                   heap'[a][i] \in Sound /\ heap'[a][i].id = heap[a][i].id
  <2>1. \A s \in Sound : s \in Cell
    BY DEF Sound, Cell
  <2>2. CASE Here(a, i)
    <3>1. heap[a][i] \in Sound /\ heap'[a][i] = Toggled(heap[a][i], field, on)
      BY <1>2, <1>3, <2>2
    <3>2. \A s \in Sound : Toggled(s, field, on) \in Sound /\ Toggled(s, field, on).id = s.id
      BY ToggledSettings
    <3>. QED
      BY <2>1, <3>1, <3>2
  <2>3. CASE ~Here(a, i)
    BY <1>3, <2>3, Arrays
  <2>. QED
    BY <2>2, <2>3
<1>5. heap' \in Seq(Seq(Cell))
  <2>1. \A a \in DOMAIN heap : heap'[a] \in Seq(Cell)
    <3>. SUFFICES ASSUME NEW a \in DOMAIN heap
                  PROVE  heap'[a] \in Seq(Cell)
      OBVIOUS
    <3>1. heap'[a] = [i \in DOMAIN heap[a] |-> heap'[a][i]]
      OBVIOUS
    <3>2. heap'[a] \in [1 .. Len(heap[a]) -> Cell] /\ Len(heap[a]) \in Nat
      BY <1>4, <3>1, Arrays
    <3>. QED
      BY <3>2, Sequence
  <2>2. heap' = [a \in DOMAIN heap |-> heap'[a]]
    OBVIOUS
  <2>3. heap' \in [1 .. Len(heap) -> Seq(Cell)] /\ Len(heap) \in Nat
    BY <2>1, <2>2, Arrays
  <2>. QED
    BY <2>3, Sequence
<1>6. KeepsCells
  BY <1>3, <1>4, <1>5 DEF KeepsCells
<1>. QED
  BY <1>3, <1>6 DEF Here

\* An edit is of the limit of one entry.
LEMMA EditedCells ==
    ASSUME Typed, SliceSound, Up, UNCHANGED slice, NEW k \in Entries, NEW l \in Limits,
           heap' = [heap EXCEPT ![slice.arr][k].limit = l]
    PROVE  /\ KeepsCells
           /\ DOMAIN heap' = DOMAIN heap /\ Len(heap'[slice.arr]) = Len(heap[slice.arr])
           /\ \A i \in Entries :
                 /\ heap'[slice.arr][i] \in Sound
                 /\ heap'[slice.arr][i].id = Entry(i).id /\ heap'[slice.arr][i].port = Entry(i).port
                 /\ heap'[slice.arr][i].tracking = Entry(i).tracking
                 /\ heap'[slice.arr][i].spawn = Entry(i).spawn
           /\ \A a \in DOMAIN heap : a # slice.arr => heap'[a] = heap[a]
<1>. DEFINE a == heap[slice.arr]
            s == [a[k] EXCEPT !.limit = l]
            b == [a EXCEPT ![k] = s]
<1>1. /\ slice.arr \in DOMAIN heap \ {2} /\ slice.len <= Len(a) /\ slice.len \in Nat
      /\ a \in Seq(Cell) /\ Len(a) \in Nat /\ DOMAIN a = 1 .. Len(a)
      /\ k \in 1 .. Len(a) /\ a[k] \in Sound /\ a = heap[slice.arr]
      /\ \A i \in Entries : i \in 1 .. Len(a) /\ a[i] \in Sound
  BY Arrays, SliceEntries DEF SliceSound, Entry, Entries
<1>2. /\ s \in Sound /\ s \in Cell /\ s.id = a[k].id /\ s.port = a[k].port
      /\ s.tracking = a[k].tracking /\ s.spawn = a[k].spawn
  BY <1>1 DEF Sound, Settings, Cell
<1>3. heap' = [heap EXCEPT ![slice.arr] = b]
  OBVIOUS
<1>. HIDE DEF s
<1>4. /\ b \in Seq(Cell) /\ Len(b) = Len(a) /\ DOMAIN b = DOMAIN a
      /\ \A i \in 1 .. Len(a) : b[i] = IF i = k THEN s ELSE a[i]
  BY <1>1, <1>2, ExceptSeq, LenProperties
<1>. HIDE DEF b
<1>5. /\ heap' \in Seq(Seq(Cell)) /\ DOMAIN heap' = DOMAIN heap
      /\ heap'[slice.arr] = b
      /\ \A c \in DOMAIN heap : c # slice.arr => heap'[c] = heap[c]
  BY <1>1, <1>3, <1>4, Rewritten
<1>. HIDE DEF a
<1>6. KeepsCells
  <2>1. \A i \in DOMAIN a : a[i] \in Sound => b[i] \in Sound
    BY <1>1, <1>2, <1>4
  <2>. QED
    BY <1>1, <1>4, <1>5, <2>1 DEF KeepsCells
<1>. QED
  BY <1>1, <1>2, <1>4, <1>5, <1>6 DEF Entry

\* Equal flags stay equal.
LEMMA ToggledAlike ==
    ASSUME NEW s \in Sound, NEW t \in Sound, s.tracking = t.tracking, s.spawn = t.spawn,
           NEW field \in {"tracking", "spawn"}, NEW on \in BOOLEAN
    PROVE  /\ Toggled(s, field, on).tracking = Toggled(t, field, on).tracking
           /\ Toggled(s, field, on).spawn = Toggled(t, field, on).spawn
<1>1. /\ s \in [id : Ids, port : Ports, tracking : BOOLEAN, spawn : BOOLEAN, limit : Limits]
      /\ t \in [id : Ids, port : Ports, tracking : BOOLEAN, spawn : BOOLEAN, limit : Limits]
  BY DEF Sound, Settings
<1>2. CASE field = "tracking" /\ on
  <2>1. Toggled(s, field, on) = [s EXCEPT !.tracking = TRUE] /\ Toggled(t, field, on) = [t EXCEPT !.tracking = TRUE]
    BY <1>2, ToggledFlags
  <2>. QED
    BY <1>1, <2>1
<1>3. CASE field = "tracking" /\ ~on
  <2>1. Toggled(s, field, on) = [s EXCEPT !.tracking = FALSE, !.spawn = FALSE] /\ Toggled(t, field, on) = [t EXCEPT !.tracking = FALSE, !.spawn = FALSE]
    BY <1>3, ToggledFlags
  <2>. QED
    BY <1>1, <2>1
<1>4. CASE field = "spawn" /\ on
  <2>1. Toggled(s, field, on) = [s EXCEPT !.spawn = TRUE, !.tracking = TRUE] /\ Toggled(t, field, on) = [t EXCEPT !.spawn = TRUE, !.tracking = TRUE]
    BY <1>4, ToggledFlags
  <2>. QED
    BY <1>1, <2>1
<1>5. CASE field = "spawn" /\ ~on
  <2>1. Toggled(s, field, on) = [s EXCEPT !.spawn = FALSE] /\ Toggled(t, field, on) = [t EXCEPT !.spawn = FALSE]
    BY <1>5, ToggledFlags
  <2>. QED
    BY <1>1, <2>1
<1>. QED
  BY <1>2, <1>3, <1>4, <1>5

------------------------------------------------------------------------------
(* The requests.                                                           *)

\* What a request is, by what it does.
LEMMA Kinds ==
    ASSUME NEW r \in Request
    PROVE  /\ r.op = "add" /\ r.at = "append" =>
                 r \in [op : {"add"}, at : {"append"}, id : Ids, port : Nat]
           /\ Adding(r) =>
                 r \in [op : {"add"}, at : {"start", "register"}, id : Ids, pointer : Pointer]
           /\ r.op = "remove" => r \in [op : {"remove"}, at : {"stop", "delist"}, id : Ids]
           /\ r.op = "toggle" =>
                 r \in [op : {"toggle"}, at : {"set", "save", "answer"}, id : Ids,
                        pointer : Pointer, field : {"tracking", "spawn"}, on : BOOLEAN]
           /\ r.op \in {"patch", "filters"} =>
                 r \in [op : {"patch", "filters"}, at : {"set", "save"}, id : Ids, limit : Limits]
           /\ r.at = "save" => r.op \in {"toggle", "patch", "filters"}
BY DEF Request, Idle, Adding

\* A goroutine without a request holds nothing.
LEMMA IdleHolds ==
    Idle \in Request /\ ~Adding(Idle) /\ ~Toggling(Idle) /\ ~Delisting(Idle) /\ Idle.at # "save"
BY DEF Idle, Request, Adding, Toggling, Delisting

\* One request moves.
LEMMA OneMoves ==
    ASSUME Typed, NEW q \in Requests, NEW r \in Request, requests' = [requests EXCEPT ![q] = r]
    PROVE  /\ requests' \in [Requests -> Request]
           /\ requests'[q] = r
           /\ \A o \in Requests : o # q => requests'[o] = requests[o]
BY DEF Typed

\* There are n numbers up to n.
LEMMA Counted == ASSUME NEW n \in Nat PROVE IsFiniteSet(1 .. n) /\ Cardinality(1 .. n) = n
BY FS_Interval

\* Counted that avoid one of as many do not all differ.
LEMMA Crowded ==
    ASSUME NEW n \in Nat, NEW m \in 1 .. n, NEW f \in [1 .. n -> (1 .. n) \ {m}]
    PROVE  \E x, y \in 1 .. n : x # y /\ f[x] = f[y]
<1>. DEFINE T == (1 .. n) \ {m}
<1>1. IsFiniteSet(1 .. n) /\ Cardinality(1 .. n) = n /\ f \in [1 .. n -> T]
  BY Counted
<1>2. IsFiniteSet(T) /\ Cardinality(T) = n - 1
  BY <1>1, FS_RemoveElement
<1>3. Cardinality(T) < Cardinality(1 .. n)
  BY <1>1, <1>2
<1>. HIDE DEF T
<1>. QED
  BY <1>1, <1>2, <1>3, FS_PigeonHole

\* The slug that is chosen is a bounded number, for there are fewer servers than
\* numbers; it is free.
LEMMA SlugIsFree ==
    ASSUME Typed, SliceSound, Up, slice.len < MaxServers
    PROVE  UniqueSlug \in Ids /\ UniqueSlug \notin ServerIDs
<1>. DEFINE n == slice.len + 1
            free == (1 .. n) \ ServerIDs
            Chosen(id) == id \notin ServerIDs /\ \A o \in 1 .. (id - 1) : o \in ServerIDs
<1>1. n \in Nat /\ n <= MaxServers /\ MaxServers \in Nat /\ slice.len \in Nat
  BY SliceEntries, RegistryAssumption
<1>2. free # {}
  <2>. SUFFICES ASSUME 1 .. n \subseteq ServerIDs
                PROVE  FALSE
    OBVIOUS
  <2>. DEFINE f == [id \in 1 .. n |-> Index(id)]
  <2>1. f \in [1 .. n -> 1 .. slice.len] /\ \A id \in 1 .. n : Entry(f[id]).id = id
    BY Listed DEF Entries
  <2>2. /\ IsFiniteSet(1 .. n) /\ Cardinality(1 .. n) = n
        /\ IsFiniteSet(1 .. slice.len) /\ Cardinality(1 .. slice.len) = slice.len
    BY <1>1, Counted
  <2>. HIDE DEF f, n
  <2>3. \E x, y \in 1 .. n : x # y /\ f[x] = f[y]
    <3>1. slice.len < n
      BY <1>1 DEF n
    <3>. QED
      BY <2>1, <2>2, <3>1, FS_PigeonHole
  <2>. QED
    BY <2>1, <2>3
<1>3. PICK id \in free : \A o \in 1 .. (id - 1) : o \notin free
  BY <1>1, <1>2, Least
<1>4. id \in 1 .. n /\ Chosen(id)
  BY <1>1, <1>3
<1>5. UniqueSlug = CHOOSE x \in 1 .. n : Chosen(x)
  BY DEF UniqueSlug
<1>. HIDE DEF Chosen
<1>6. UniqueSlug \in 1 .. n /\ Chosen(UniqueSlug)
  BY <1>4, <1>5
<1>. QED
  BY <1>1, <1>6 DEF Chosen, Ids

\* The port that is chosen is a number, perhaps beyond the last.
LEMMA PortIsNumber ==
    ASSUME Typed, SliceSound, Up
    PROVE  NextFreePort \in Nat
<1>. DEFINE taken == {0} \cup {Servers[i].port : i \in DOMAIN Servers}
            Chosen(p) == \A o \in taken : o <= p
<1>1. taken \in SUBSET (0 .. MaxPort) /\ taken # {} /\ MaxPort \in Nat
  BY SliceEntries, RegistryAssumption DEF SliceSound, Sound, Settings, Ports
<1>2. PICK p \in taken : \A o \in taken : o <= p
  <2>. HIDE DEF taken
  <2>. QED
    BY <1>1, Greatest
<1>3. NextFreePort = (CHOOSE x \in taken : Chosen(x)) + 1
  BY DEF NextFreePort
<1>4. Chosen(p)
  BY <1>2
<1>. HIDE DEF taken, Chosen
<1>5. (CHOOSE x \in taken : Chosen(x)) \in taken
  BY <1>2, <1>4
<1>6. \A x \in taken : x + 1 \in Nat
  BY <1>1
<1>. QED
  BY <1>3, <1>5, <1>6

------------------------------------------------------------------------------
(* What every step but the start does to pointers.                         *)

\* Where a pointer held by a request comes from: it had it, or it is of the
\* entry that has just been appended, or of the instance it will toggle.
PointersMove ==
    \A q \in Requests :
        LET r == requests[q] s == requests'[q] IN
        /\ Adding(s) => \/ Adding(r) /\ s.pointer = r.pointer
                        \/ s.pointer = <<slice'.arr, slice.len + 1>> /\ slice'.len = slice.len + 1
        /\ Toggling(s) => \/ Toggling(r) /\ s.pointer = r.pointer /\ s.id = r.id
                          \/ s.pointer = instances[s.id] /\ instances[s.id] # NoPointer
        /\ Delisting(s) => \/ Delisting(r) /\ s.id = r.id
                           \/ instances'[s.id] = NoPointer

\* An instance stays, is stopped, or is registered, and no longer private.
InstancesMove ==
    /\ private' \subseteq private
    /\ \A id \in Ids :
          \/ instances'[id] = instances[id] /\ (id \in private' <=> id \in private)
          \/ instances'[id] = NoPointer
          \/ /\ id \notin private'
             /\ \E q \in Requests : Adding(requests[q]) /\ instances'[id] = requests[q].pointer

SliceMoves ==
    /\ slice'.arr \in DOMAIN heap' \ {2}
    /\ slice'.arr = slice.arr \/ slice'.arr \notin DOMAIN heap

\* The entry of a server that still runs as the start left it does not move up,
\* and its flags stay those of the copy.
OldEntriesStay ==
    \A id \in Original, i \in Entries :
        id \in Original' /\ OldApart(id) /\ Shows(id, i) /\ InFront(i) =>
            \E k \in Entries' : k <= i /\ Shows(id, k)'

\* A pointer leads to settings still.
LEMMA StillLeads ==
    ASSUME KeepsCells, NEW CONSTANT p, Leads(p)
    PROVE  /\ p[1] \in DOMAIN heap' /\ p[2] \in DOMAIN heap'[p[1]]
           /\ heap'[p[1]][p[2]] \in Sound
           /\ p[1] # slice.arr => heap'[p[1]][p[2]].id = At(p).id
BY DEF KeepsCells, Leads, At

\* Every pointer leads to settings after such a step.
LEMMA PointersKept ==
    ASSUME PointersLead, KeepsCells, PointersMove, InstancesMove, Typed',
           slice'.len = slice.len + 1 =>
              /\ slice'.arr \in DOMAIN heap'
              /\ slice'.len \in DOMAIN heap'[slice'.arr]
              /\ heap'[slice'.arr][slice'.len] \in Sound
    PROVE  PointersLead'
<1>. DEFINE LeadsNow(p) == /\ p[1] \in DOMAIN heap' /\ p[2] \in DOMAIN heap'[p[1]]
                           /\ heap'[p[1]][p[2]] \in Sound
<1>1. \A p : Leads(p) => LeadsNow(p)
  BY StillLeads
<1>2. ASSUME NEW id \in Ids, instances'[id] # NoPointer
      PROVE  LeadsNow(instances'[id])
  <2>1. \/ instances'[id] = instances[id]
        \/ \E q \in Requests : Adding(requests[q]) /\ instances'[id] = requests[q].pointer
    BY <1>2 DEF InstancesMove
  <2>2. Leads(instances'[id])
    BY <1>2, <2>1 DEF PointersLead
  <2>. HIDE DEF LeadsNow
  <2>. QED
    BY <1>1, <2>2
<1>3. ASSUME NEW q \in Requests, Adding(requests'[q]) \/ Toggling(requests'[q])
      PROVE  LeadsNow(requests'[q].pointer)
  <2>1. CASE requests'[q].pointer = <<slice'.arr, slice.len + 1>> /\ slice'.len = slice.len + 1
    BY <2>1
  <2>2. CASE ~(requests'[q].pointer = <<slice'.arr, slice.len + 1>> /\ slice'.len = slice.len + 1)
    <3>1. \/ (Adding(requests[q]) \/ Toggling(requests[q]))
                /\ requests'[q].pointer = requests[q].pointer
          \/ /\ Toggling(requests'[q])
             /\ requests'[q].pointer = instances[requests'[q].id]
             /\ instances[requests'[q].id] # NoPointer
      BY <1>3, <2>2 DEF PointersMove
    <3>2. Toggling(requests'[q]) => requests'[q].id \in Ids
      BY Kinds DEF Typed, Toggling
    <3>3. Leads(requests'[q].pointer)
      BY <3>1, <3>2 DEF PointersLead
    <3>. HIDE DEF LeadsNow
    <3>. QED
      BY <1>1, <3>3
  <2>. QED
    BY <2>1, <2>2
<1>4. \A id \in Ids : instances'[id] # NoPointer => Leads(instances[id])'
  BY <1>2 DEF Leads, At
<1>5. \A q \in Requests : Adding(requests'[q]) \/ Toggling(requests'[q]) => Leads(requests[q].pointer)'
  BY <1>3 DEF Leads, At
<1>. QED
  BY <1>4, <1>5 DEF PointersLead, Adding, Toggling

\* Servers the start left running stay apart from all others.
LEMMA ApartKept ==
    ASSUME Up, Typed, Typed', Apart, SliceSound, PointersLead, KeepsCells, SliceMoves,
           PointersMove, InstancesMove, OldEntriesStay
    PROVE  Apart'
<1>1. ASSUME NEW id \in Original'
      PROVE  id \in Original /\ instances'[id] = instances[id] /\ instances[id] # NoPointer /\ id \in Ids
  BY DEF Original, InstancesMove, Typed
<1>2. ASSUME NEW p, Leads(p)
      PROVE  p[1] = slice'.arr => p[1] = slice.arr
  BY <1>2 DEF Leads, SliceMoves
<1>3. \A p : Leads(p) /\ p[1] = 2 => heap'[p[1]][p[2]].id = At(p).id
  <2>1. slice.arr # 2
    BY DEF SliceSound
  <2>. QED
    BY <2>1, StillLeads
<1>4. ASSUME NEW i \in Entries, NEW k, k \in Nat, k <= i, InFront(i)
      PROVE  InFront(k)'
  <2>1. i \in Nat /\ slice.len \in Nat /\ i <= slice.len
    BY RegistryAssumption DEF Typed, Entries
  <2>2. ASSUME NEW p, p \in Pointer, Leads(p), Behind(p, i)
        PROVE  p[1] = slice'.arr => k < p[2]
    BY <1>2, <1>4, <2>1, <2>2 DEF Behind, Pointer
  <2>3. ASSUME NEW id \in Ids, instances'[id] # NoPointer
        PROVE  instances'[id][1] = slice'.arr => k < instances'[id][2]
    <3>1. \/ instances'[id] = instances[id]
          \/ \E q \in Requests : Adding(requests[q]) /\ instances'[id] = requests[q].pointer
      BY <2>3 DEF InstancesMove
    <3>2. Leads(instances'[id]) /\ Behind(instances'[id], i)
      BY <1>4, <2>3, <3>1 DEF PointersLead, InFront
    <3>3. instances'[id] \in Pointer
      BY DEF Typed
    <3>. QED
      BY <2>2, <3>2, <3>3
  <2>4. ASSUME NEW q \in Requests, Adding(requests'[q]) \/ Toggling(requests'[q])
        PROVE  requests'[q].pointer[1] = slice'.arr => k < requests'[q].pointer[2]
    <3>1. requests'[q].pointer \in Pointer /\ (Toggling(requests'[q]) => requests'[q].id \in Ids)
      BY <2>4, Kinds DEF Typed, Toggling
    <3>2. CASE requests'[q].pointer = <<slice'.arr, slice.len + 1>>
      BY <1>4, <2>1, <3>2
    <3>3. CASE requests'[q].pointer # <<slice'.arr, slice.len + 1>>
      <4>1. \/ (Adding(requests[q]) \/ Toggling(requests[q]))
                  /\ requests'[q].pointer = requests[q].pointer
            \/ /\ Toggling(requests'[q])
               /\ requests'[q].pointer = instances[requests'[q].id]
               /\ instances[requests'[q].id] # NoPointer
        BY <2>4, <3>3 DEF PointersMove
      <4>2. Leads(requests'[q].pointer) /\ Behind(requests'[q].pointer, i)
        BY <1>4, <3>1, <4>1 DEF PointersLead, InFront
      <4>. QED
        BY <2>2, <3>1, <4>2
    <3>. QED
      BY <3>2, <3>3
  <2>. QED
    BY <2>3, <2>4 DEF InFront, Behind, Adding, Toggling
<1>5. ASSUME NEW id \in Original'
      PROVE  OldApart(id)'
  <2>1. id \in Original /\ instances'[id] = instances[id] /\ OldApart(id) /\ id \in Ids
        /\ Leads(instances[id])
    BY <1>1, <1>5 DEF Apart, PointersLead
  <2>2. instances'[id][1] = 2 /\ heap'[instances'[id][1]][instances'[id][2]].id = id
    <3>1. instances[id][1] = 2 /\ At(instances[id]).id = id
      BY <2>1 DEF OldApart
    <3>. QED
      BY <1>3, <2>1, <3>1
  <2>3. ASSUME NEW q \in Requests
        PROVE  /\ Delisting(requests'[q]) => requests'[q].id # id
               /\ Toggling(requests'[q]) /\ requests'[q].id = id =>
                     requests'[q].pointer = instances'[id]
    BY <1>1, <1>5, <2>1, <2>3 DEF PointersMove, OldApart
  <2>4. PICK i \in Entries : Shows(id, i) /\ InFront(i)
    BY <2>1 DEF OldApart
  <2>5. PICK k \in Entries' : k <= i /\ Shows(id, k)'
    BY <1>5, <2>1, <2>4 DEF OldEntriesStay
  <2>6. InFront(k)'
    <3>1. k \in Nat
      BY <2>5, RegistryAssumption DEF Entries, Typed
    <3>. QED
      BY <1>4, <2>4, <2>5, <3>1
  <2>. QED
    BY <2>2, <2>3, <2>5, <2>6 DEF OldApart, At, Delisting, Toggling
<1>6. ASSUME NEW id \in Ids, instances'[id][1] = 2
      PROVE  id \in Original'
  <2>1. instances'[id] = instances[id] /\ (id \in private' <=> id \in private)
    BY <1>6 DEF InstancesMove, Apart, NoPointer
  <2>. QED
    BY <1>6, <2>1 DEF Apart, Original
<1>7. ASSUME NEW q \in Requests, Adding(requests'[q])
      PROVE  requests'[q].pointer[1] # 2
  BY <1>7 DEF PointersMove, Apart, SliceMoves
<1>8. ASSUME NEW q \in Requests, Toggling(requests'[q]), requests'[q].pointer[1] = 2
      PROVE  heap'[requests'[q].pointer[1]][requests'[q].pointer[2]].id = requests'[q].id
  <2>. DEFINE p == requests'[q].pointer
  <2>1. requests'[q].id \in Ids
    BY <1>8, Kinds DEF Typed, Toggling
  <2>2. CASE Toggling(requests[q]) /\ p = requests[q].pointer /\ requests'[q].id = requests[q].id
    <3>1. Leads(p) /\ At(p).id = requests'[q].id
      BY <1>8, <2>2 DEF PointersLead, Apart
    <3>. QED
      BY <1>3, <1>8, <3>1
  <2>3. CASE p = instances[requests'[q].id] /\ instances[requests'[q].id] # NoPointer
    <3>1. Leads(p) /\ requests'[q].id \in Original
      BY <1>8, <2>1, <2>3 DEF PointersLead, Apart
    <3>2. At(p).id = requests'[q].id
      BY <2>3, <3>1 DEF Apart, OldApart
    <3>. QED
      BY <1>3, <1>8, <3>1, <3>2
  <2>. QED
    BY <1>8, <2>2, <2>3 DEF PointersMove
<1>. QED
  BY <1>5, <1>6, <1>7, <1>8 DEF Apart, At, Adding, Toggling

\* What is left to show for an orderly step.
LEMMA Orderly ==
    ASSUME IInv, Up, Typed', SliceSound', KeepsCells, SliceMoves, PointersMove, InstancesMove,
           OldEntriesStay,
           slice'.len = slice.len + 1 => heap'[slice'.arr][slice'.len] \in Sound
                                         /\ slice'.len \in DOMAIN heap'[slice'.arr]
    PROVE  Up' /\ Down' /\ PointersLead' /\ Apart'
<1>1. Up'
  <2>1. 2 \in DOMAIN heap'
    BY DEF IInv, SliceSound, KeepsCells
  <2>. QED
    BY <2>1 DEF Up
<1>2. PointersLead'
  BY PointersKept DEF IInv, SliceMoves
<1>3. Apart'
  BY ApartKept DEF IInv
<1>. QED
  BY <1>1, <1>2, <1>3 DEF Down

\* A step that leaves the arrays alone.
LEMMA ArraysAlone ==
    ASSUME IInv, Up, Typed', PointersMove, InstancesMove, UNCHANGED <<heap, slice>>
    PROVE  Up' /\ Down' /\ SliceSound' /\ PointersLead' /\ Apart'
<1>1. SliceSound'
  BY DEF IInv, SliceSound, Entries, Entry, Up
<1>2. KeepsCells
  BY Arrays DEF IInv, Typed, KeepsCells, Cell
<1>3. SliceMoves
  BY DEF IInv, SliceSound, SliceMoves
<1>4. OldEntriesStay
  <2>1. \A id \in Original : id \in Original' => instances'[id] = instances[id]
    BY DEF Original, InstancesMove, IInv, Typed
  <2>2. \A i \in Entries : i \in Entries' /\ i <= i
    BY RegistryAssumption DEF Entries, IInv, Typed
  <2>3. \A id \in Original, i \in Entries : id \in Original' /\ Shows(id, i) => Shows(id, i)'
    BY <2>1 DEF Shows, Entry, At
  <2>. QED
    BY <2>2, <2>3 DEF OldEntriesStay
<1>5. slice'.len # slice.len + 1
  BY RegistryAssumption DEF IInv, Typed
<1>. QED
  BY <1>1, <1>2, <1>3, <1>4, <1>5, Orderly

\* What no longer is saved, and who is waiting to.
LEMMA SavedKept ==
    ASSUME IInv, Up, UNCHANGED <<heap, slice, disk>>,
           \A q \in Requests : requests[q].at = "save" => requests'[q].at = "save"
    PROVE  SavedOrSaving' /\ FileSound'
BY DEF IInv, SavedOrSaving, FileSound, Current, Entries, Entry

\* A request comes in.
LEMMA Arrives ==
    ASSUME IInv, NEW q \in Requests, NEW r \in Request, Asked(q, r),
           UNCHANGED <<heap, slice, instances, private, disk, frozen>>,
           ~Adding(r), ~Delisting(r),
           Toggling(r) => r.pointer = instances[r.id] /\ instances[r.id] # NoPointer
    PROVE  IInv'
<1>1. /\ Up /\ requests[q] = Idle /\ requests' \in [Requests -> Request]
      /\ requests'[q] = r /\ \A o \in Requests : o # q => requests'[o] = requests[o]
  BY OneMoves DEF Asked, IInv
<1>2. Typed'
  BY <1>1 DEF IInv, Typed
<1>3. PointersMove
  BY <1>1 DEF PointersMove, Adding, Toggling, Delisting
<1>4. InstancesMove
  BY DEF InstancesMove
<1>5. SavedOrSaving' /\ FileSound'
  BY <1>1, SavedKept, IdleHolds
<1>6. RunsOrWill'
  <2>1. \A o \in Requests : Adding(requests[o]) \/ Delisting(requests[o]) => requests'[o] = requests[o]
    BY <1>1, IdleHolds
  <2>. QED
    BY <2>1 DEF IInv, RunsOrWill, Entries, Entry, Adding, Delisting
<1>. QED
  BY <1>1, <1>2, <1>3, <1>4, <1>5, <1>6, ArraysAlone DEF IInv

\* The four kinds of requests as they come in: the slug and the port are chosen,
\* the pointer of the instance is taken.
LEMMA ArrivalStep ==
    ASSUME IInv, NEW q \in Requests,
           \/ Add(q)
           \/ \E id \in Ids :
                 \/ Delete(q, id)
                 \/ \E field \in {"tracking", "spawn"}, on \in BOOLEAN : Toggle(q, id, field, on)
                 \/ \E op \in {"patch", "filters"}, l \in Limits : Edit(q, id, op, l)
    PROVE  IInv'
<1>1. CASE Add(q)
  <2>. DEFINE r == [op |-> "add", at |-> "append", id |-> UniqueSlug, port |-> NextFreePort]
  <2>1. Up
    BY <1>1 DEF Add, Asked
  <2>2. UniqueSlug \in Ids /\ NextFreePort \in Nat
    BY <1>1, <2>1, SlugIsFree, PortIsNumber DEF Add, IInv
  <2>3. r \in Request /\ ~Adding(r) /\ ~Delisting(r) /\ ~Toggling(r)
    BY <2>2 DEF Request, Adding, Delisting, Toggling
  <2>. QED
    BY <1>1, <2>3, Arrives DEF Add
<1>2. ASSUME NEW id \in Ids, Delete(q, id)
      PROVE  IInv'
  <2>. DEFINE r == [op |-> "remove", at |-> "stop", id |-> id]
  <2>1. r \in Request /\ ~Adding(r) /\ ~Delisting(r) /\ ~Toggling(r)
    BY DEF Request, Adding, Delisting, Toggling
  <2>2. Asked(q, r) /\ UNCHANGED <<heap, slice, instances, private, disk, frozen>>
    BY <1>2 DEF Delete, Removal
  <2>. QED
    BY <2>1, <2>2, Arrives
<1>3. ASSUME NEW id \in Ids, NEW field \in {"tracking", "spawn"}, NEW on \in BOOLEAN,
             Toggle(q, id, field, on)
      PROVE  IInv'
  <2>. DEFINE r == [op |-> "toggle", at |-> "set", id |-> id, pointer |-> instances[id],
                    field |-> field, on |-> on]
  <2>1. r \in Request /\ ~Adding(r) /\ ~Delisting(r)
    <3>1. instances[id] \in Pointer
      BY DEF IInv, Typed
    <3>. QED
      BY <3>1 DEF Request, Adding, Delisting
  <2>. QED
    BY <1>3, <2>1, Arrives DEF Toggle
<1>4. ASSUME NEW id \in Ids, NEW op \in {"patch", "filters"}, NEW l \in Limits, Edit(q, id, op, l)
      PROVE  IInv'
  <2>. DEFINE r == [op |-> op, at |-> "set", id |-> id, limit |-> l]
  <2>1. r \in Request /\ ~Adding(r) /\ ~Delisting(r) /\ ~Toggling(r)
    BY DEF Request, Adding, Delisting, Toggling
  <2>. QED
    BY <1>4, <2>1, Arrives DEF Edit
<1>. QED
  BY <1>1, <1>2, <1>3, <1>4

\* A request that is over leaves nothing behind.
LEMMA Over ==
    ASSUME IInv, NEW q \in Requests, Ends(q)
    PROVE  /\ requests' \in [Requests -> Request]
           /\ requests'[q] = Idle /\ ~Adding(Idle) /\ ~Toggling(Idle) /\ ~Delisting(Idle)
           /\ \A o \in Requests : o # q => requests'[o] = requests[o]
BY OneMoves, IdleHolds DEF IInv, Ends

\* The first half of starting an instance looks, the second registers it.
LEMMA StartStep ==
    ASSUME IInv, NEW q \in Requests, AddStarts(q) \/ AddRegisters(q)
    PROVE  IInv'
<1>. DEFINE r == requests[q]
<1>1. /\ Up /\ Adding(r) /\ r.at # "save" /\ r \in Request
      /\ r \in [op : {"add"}, at : {"start", "register"}, id : Ids, pointer : Pointer]
  BY Kinds DEF IInv, Typed, AddStarts, AddRegisters, Is, Adding
<1>2. CASE AddStarts(q)
  <2>1. CASE instances[r.id] # NoPointer
    <3>1. Ends(q) /\ UNCHANGED <<heap, slice, instances, private, disk, frozen, asked>>
      BY <1>2, <2>1 DEF AddStarts
    <3>2. Typed'
      BY <3>1, Over DEF IInv, Typed
    <3>3. PointersMove /\ InstancesMove
      BY <3>1, Over DEF PointersMove, InstancesMove
    <3>4. SavedOrSaving' /\ FileSound'
      BY <1>1, <3>1, Over, SavedKept
    <3>5. RunsOrWill'
      BY <1>1, <2>1, <3>1, Over DEF IInv, RunsOrWill, Entries, Entry, Adding, Delisting
    <3>. QED
      BY <1>1, <3>1, <3>2, <3>3, <3>4, <3>5, ArraysAlone DEF IInv
  <2>2. CASE ~(instances[r.id] # NoPointer)
    <3>. DEFINE s == [r EXCEPT !.at = "register"]
    <3>1. requests' = [requests EXCEPT ![q] = s]
          /\ UNCHANGED <<heap, slice, instances, private, disk, frozen, asked>>
      BY <1>2, <2>2 DEF AddStarts, Goes
    <3>2. /\ s \in [op : {"add"}, at : {"start", "register"}, id : Ids, pointer : Pointer]
          /\ s.id = r.id /\ s.pointer = r.pointer /\ s.op = "add" /\ s.at = "register"
      BY <1>1
    <3>3. s \in Request /\ Adding(s) /\ ~Toggling(s) /\ ~Delisting(s)
      BY <3>2 DEF Request, Adding, Toggling, Delisting
    <3>4. /\ requests' \in [Requests -> Request] /\ requests'[q] = s
          /\ \A o \in Requests : o # q => requests'[o] = requests[o]
      BY <3>1, <3>3, OneMoves DEF IInv
    <3>. HIDE DEF s
    <3>5. Typed'
      BY <3>1, <3>4 DEF IInv, Typed
    <3>6. PointersMove /\ InstancesMove
      BY <1>1, <3>1, <3>2, <3>3, <3>4 DEF PointersMove, InstancesMove
    <3>7. SavedOrSaving' /\ FileSound'
      BY <1>1, <3>1, <3>4, SavedKept
    <3>8. RunsOrWill'
      <4>1. ASSUME NEW o \in Requests, Adding(requests[o]) \/ Delisting(requests[o])
            PROVE  /\ Adding(requests'[o]) \/ Delisting(requests'[o])
                   /\ requests'[o].id = requests[o].id
        BY <1>1, <3>2, <3>3, <3>4, <4>1
      <4>. QED
        BY <3>1, <4>1 DEF IInv, RunsOrWill, Entries, Entry, Adding, Delisting
    <3>. QED
      BY <1>1, <3>1, <3>5, <3>6, <3>7, <3>8, ArraysAlone DEF IInv
  <2>. QED
    BY <2>1, <2>2
<1>3. CASE AddRegisters(q)
  <2>1. /\ instances' = [instances EXCEPT ![r.id] = r.pointer] /\ private' = private \ {r.id}
        /\ Ends(q) /\ UNCHANGED <<heap, slice, disk, frozen, asked>>
    BY <1>3 DEF AddRegisters
  <2>2. instances'[r.id] = r.pointer /\ \A id \in Ids : id # r.id => instances'[id] = instances[id]
    BY <1>1, <2>1 DEF IInv, Typed
  <2>3. Typed'
    BY <1>1, <2>1, Over DEF IInv, Typed
  <2>4. PointersMove
    BY <2>1, Over DEF PointersMove
  <2>5. InstancesMove
    BY <1>1, <2>1, <2>2 DEF InstancesMove
  <2>6. SavedOrSaving' /\ FileSound'
    BY <1>1, <2>1, Over, SavedKept
  <2>7. r.pointer # NoPointer
    <3>1. 0 \notin DOMAIN heap
      BY Arrays DEF IInv
    <3>. QED
      BY <1>1, <3>1 DEF IInv, PointersLead, Leads, NoPointer
  <2>8. RunsOrWill'
    BY <1>1, <2>1, <2>2, <2>7, Over DEF IInv, RunsOrWill, Entries, Entry, Adding, Delisting
  <2>. QED
    BY <1>1, <2>1, <2>3, <2>4, <2>5, <2>6, <2>8, ArraysAlone DEF IInv
<1>. QED
  BY <1>2, <1>3

\* An instance that is stopped is delisted next.
LEMMA StopStep ==
    ASSUME IInv, NEW q \in Requests, RemoveStops(q)
    PROVE  IInv'
<1>. DEFINE r == requests[q]
            s == [r EXCEPT !.at = "delist"]
<1>1. Up /\ r.at # "save" /\ r.op = "remove" /\ r.at = "stop"
      /\ r \in [op : {"remove"}, at : {"stop", "delist"}, id : Ids]
  BY Kinds DEF IInv, Typed, RemoveStops, Is
<1>2. /\ instances' = [instances EXCEPT ![r.id] = NoPointer]
      /\ requests' = [requests EXCEPT ![q] = s]
      /\ UNCHANGED <<heap, slice, private, disk, frozen, asked>>
  BY <1>1 DEF RemoveStops, Continue, Removal, Goes
<1>3. s \in [op : {"remove"}, at : {"stop", "delist"}, id : Ids] /\ s.id = r.id
      /\ s.op = "remove" /\ s.at = "delist"
  BY <1>1
<1>4. s \in Request /\ ~Adding(s) /\ ~Toggling(s) /\ Delisting(s)
  BY <1>3 DEF Request, Adding, Toggling, Delisting
<1>5. /\ requests' \in [Requests -> Request] /\ requests'[q] = s
      /\ \A o \in Requests : o # q => requests'[o] = requests[o]
  BY <1>2, <1>4, OneMoves DEF IInv
<1>. HIDE DEF s
<1>6. instances'[r.id] = NoPointer /\ \A id \in Ids : id # r.id => instances'[id] = instances[id]
  BY <1>1, <1>2 DEF IInv, Typed
<1>7. Typed'
  BY <1>1, <1>2, <1>5 DEF IInv, Typed, Pointer, NoPointer
<1>8. PointersMove
  BY <1>3, <1>4, <1>5, <1>6 DEF PointersMove
<1>9. InstancesMove
  BY <1>2, <1>6 DEF InstancesMove
<1>10. SavedOrSaving' /\ FileSound'
  BY <1>1, <1>2, <1>5, SavedKept
<1>11. RunsOrWill'
  <2>1. ASSUME NEW o \in Requests, Adding(requests[o]) \/ Delisting(requests[o])
        PROVE  requests'[o] = requests[o]
    BY <1>1, <1>5, <2>1 DEF Adding, Delisting
  <2>2. Delisting(requests'[q]) /\ requests'[q].id = r.id
    BY <1>3, <1>4, <1>5
  <2>3. \A i \in Entries : Entry(i).id \in Ids
    BY <1>1 DEF IInv, SliceSound, Sound, Settings
  <2>. QED
    BY <1>2, <1>6, <2>1, <2>2, <2>3 DEF IInv, RunsOrWill, Entries, Entry, Adding, Delisting
<1>. QED
  BY <1>1, <1>2, <1>7, <1>8, <1>9, <1>10, <1>11, ArraysAlone DEF IInv

\* Saving writes the entries, answering reads them.
LEMMA SaveStep ==
    ASSUME IInv, NEW q \in Requests, Saves(q) \/ ToggleAnswers(q)
    PROVE  IInv'
<1>. DEFINE r == requests[q]
            s == [r EXCEPT !.at = "answer"]
<1>1. Up /\ r \in Request /\ ~Adding(r) /\ ~Delisting(r)
      /\ UNCHANGED <<heap, slice, instances, private, asked>>
  BY Kinds DEF IInv, Typed, Saves, ToggleAnswers, Is, Adding, Delisting
<1>2. frozen' \in BOOLEAN
  BY DEF IInv, Typed, Saves, ToggleAnswers
<1>3. Ends(q) \/ (Toggling(r) /\ r.at = "save" /\ Goes(q, "answer"))
  BY DEF Saves, ToggleAnswers, Toggling
<1>4. /\ requests' \in [Requests -> Request]
      /\ \A o \in Requests : o # q => requests'[o] = requests[o]
      /\ ~Adding(requests'[q]) /\ ~Delisting(requests'[q])
      /\ Toggling(requests'[q]) => Toggling(r) /\ requests'[q].pointer = r.pointer
                                   /\ requests'[q].id = r.id
  <2>1. CASE Ends(q)
    BY <2>1, Over
  <2>2. CASE Toggling(r) /\ Goes(q, "answer")
    <3>1. r \in [op : {"toggle"}, at : {"set", "save", "answer"}, id : Ids,
                 pointer : Pointer, field : {"tracking", "spawn"}, on : BOOLEAN]
      BY <1>1, <2>2, Kinds DEF Toggling
    <3>2. /\ s \in [op : {"toggle"}, at : {"set", "save", "answer"}, id : Ids,
                    pointer : Pointer, field : {"tracking", "spawn"}, on : BOOLEAN]
          /\ s.id = r.id /\ s.pointer = r.pointer /\ s.op = "toggle"
      BY <3>1
    <3>3. s \in Request /\ requests' = [requests EXCEPT ![q] = s]
      BY <2>2, <3>2 DEF Request, Goes
    <3>4. /\ requests' \in [Requests -> Request] /\ requests'[q] = s
          /\ \A o \in Requests : o # q => requests'[o] = requests[o]
      BY <3>3, OneMoves DEF IInv
    <3>. QED
      BY <2>2, <3>2, <3>4 DEF Adding, Delisting
  <2>. QED
    BY <1>3, <2>1, <2>2
<1>5. Typed'
  BY <1>1, <1>2, <1>4 DEF IInv, Typed
<1>6. PointersMove /\ InstancesMove
  BY <1>1, <1>4 DEF PointersMove, InstancesMove
<1>7. RunsOrWill'
  BY <1>1, <1>4 DEF IInv, RunsOrWill, Entries, Entry, Adding, Delisting
<1>8. SavedOrSaving' /\ FileSound'
  <2>1. CASE Saves(q)
    <3>1. disk' = Servers
      BY <2>1 DEF Saves
    <3>2. FileSound'
      BY <1>1, <3>1, SliceEntries, RegistryAssumption DEF IInv, FileSound, SliceSound, Distinct, Typed
    <3>3. Current'
      BY <1>1, <3>1, SliceEntries DEF IInv, Current, Entries, Entry
    <3>. QED
      BY <3>2, <3>3 DEF SavedOrSaving
  <2>2. CASE ToggleAnswers(q)
    BY <1>1, <1>4, <2>2, SavedKept DEF ToggleAnswers, Is
  <2>. QED
    BY <2>1, <2>2
<1>. QED
  BY <1>1, <1>5, <1>6, <1>7, <1>8, ArraysAlone DEF IInv

\* A request that finds nothing to do ends.
LEMMA VainStep ==
    ASSUME IInv, Up, NEW q \in Requests, Ends(q), ~Adding(requests[q]), requests[q].at # "save",
           Delisting(requests[q]) => requests[q].id \notin ServerIDs,
           UNCHANGED <<heap, slice, instances, private, disk, frozen, asked>>
    PROVE  IInv'
<1>1. Typed'
  BY Over DEF IInv, Typed
<1>2. PointersMove /\ InstancesMove
  BY Over DEF PointersMove, InstancesMove
<1>3. SavedOrSaving' /\ FileSound'
  BY Over, SavedKept
<1>4. RunsOrWill'
  <2>1. \A i \in Entries : Entry(i).id \in ServerIDs
    BY Listed DEF IInv
  <2>. QED
    BY <2>1, Over DEF IInv, RunsOrWill, Entries, Entry, Adding, Delisting
<1>. QED
  BY <1>1, <1>2, <1>3, <1>4, ArraysAlone DEF IInv

\* The private copies are not in the array of the slice.
LEMMA CopiesAlone ==
    ASSUME IInv, Up, UNCHANGED instances,
           \A c \in DOMAIN heap : c # slice.arr => heap'[c] = heap[c]
    PROVE  \A id \in Original : At(instances[id])' = At(instances[id])
<1>1. \A id \in Original : instances[id][1] = 2
  BY DEF IInv, Apart, OldApart
<1>2. heap'[2] = heap[2]
  BY DEF IInv, SliceSound
<1>. QED
  BY <1>1, <1>2 DEF At

\* The file is the entries once they have been written.
LEMMA WrittenIsCurrent ==
    ASSUME Typed', SliceSound', Up', disk' = Servers'
    PROVE  SavedOrSaving' /\ FileSound'
<1>1. /\ slice'.len \in Nat /\ slice'.len <= MaxServers
      /\ disk' \in Seq(Sound) /\ Len(disk') = slice'.len /\ DOMAIN disk' = 1 .. slice'.len
      /\ \A i \in 1 .. slice'.len : disk'[i] = heap'[slice'.arr][i]
  BY SliceEntriesNext, RegistryAssumption DEF Entries, Typed
<1>2. \A i, j \in 1 .. slice'.len : i # j =>
         /\ heap'[slice'.arr][i].id # heap'[slice'.arr][j].id
         /\ heap'[slice'.arr][i].port # heap'[slice'.arr][j].port
  BY DEF SliceSound, Entry, Entries
<1>3. FileSound'
  BY <1>1, <1>2 DEF FileSound, Distinct
<1>4. Current'
  BY <1>1 DEF Current, Entry, Entries
<1>. QED
  BY <1>3, <1>4 DEF SavedOrSaving

\* AddServer appends and saves.
LEMMA AppendStep ==
    ASSUME IInv, NEW q \in Requests, AddAppends(q)
    PROVE  IInv'
<1>. DEFINE r == requests[q]
            d == NewServer(r)
            s == [op |-> "add", at |-> "start", id |-> r.id, pointer |-> <<slice'.arr, slice'.len>>]
<1>1. /\ Up /\ UNCHANGED <<instances, private, frozen, asked>>
      /\ r \in [op : {"add"}, at : {"append"}, id : Ids, port : Nat]
      /\ ~Adding(r) /\ ~Delisting(r) /\ r.at # "save"
  BY Kinds DEF IInv, Typed, AddAppends, Is, Adding, Delisting
<1>2. CASE ~Accepted(r)
  BY <1>1, <1>2, VainStep DEF AddAppends
<1>3. CASE Accepted(r)
  <2>1. /\ Extended(d) /\ disk' = Servers'
        /\ requests' = [requests EXCEPT ![q] = s]
    BY <1>3 DEF AddAppends, Written
  <2>2. /\ r.id \notin ServerIDs /\ r.port \in Ports
        /\ \A i \in Entries : Entry(i).id # r.id /\ Entry(i).port # r.port
    BY <1>1, <1>3, SliceEntries, Listed DEF IInv, Accepted, Rejected
  <2>3. d \in Sound /\ d.id = r.id /\ d.port = r.port
    BY <1>1, <2>2, RegistryAssumption DEF NewServer, Sound, Settings
  <2>4. slice.len < MaxServers /\ slice.len \in Nat
    <3>1. slice.len \in 0 .. MaxServers /\ MaxServers \in Nat
      BY RegistryAssumption DEF IInv, Typed
    <3>2. ASSUME slice.len = MaxServers
          PROVE  FALSE
      <4>. DEFINE f == [i \in 1 .. slice.len |-> Entry(i).id]
      <4>1. f \in [1 .. slice.len -> (1 .. slice.len) \ {r.id}]
        BY <1>1, <2>2, <3>2 DEF IInv, SliceSound, Entries, Sound, Settings, Ids
      <4>2. \A i, j \in 1 .. slice.len : i # j => f[i] # f[j]
        BY <1>1 DEF IInv, SliceSound, Entries
      <4>. HIDE DEF f
      <4>3. slice.len \in Nat /\ r.id \in 1 .. slice.len
        BY <1>1, <3>1, <3>2 DEF Ids
      <4>. QED
        <5>1. \E x, y \in 1 .. slice.len : x # y /\ f[x] = f[y]
          BY <4>1, <4>3, Crowded
        <5>. QED
          BY <4>2, <5>1
    <3>. QED
      BY <3>1, <3>2
  <2>. HIDE DEF d
  <2>5. /\ KeepsCells
        /\ slice' \in [arr : Nat, len : 0 .. MaxServers]
        /\ slice'.arr \in DOMAIN heap' \ {2} /\ slice'.len = slice.len + 1
        /\ slice'.arr = slice.arr \/ slice'.arr \notin DOMAIN heap
        /\ slice'.len <= Len(heap'[slice'.arr])
        /\ \A i \in Entries : heap'[slice'.arr][i] = Entry(i)
        /\ heap'[slice'.arr][slice'.len] = d
        /\ \A c \in DOMAIN heap : c # slice.arr => heap'[c] = heap[c]
    BY <1>1, <2>1, <2>3, <2>4, ExtendedCells DEF IInv
  <2>6. s \in Request /\ Adding(s) /\ ~Toggling(s) /\ ~Delisting(s) /\ s.id = r.id
        /\ s.pointer = <<slice'.arr, slice.len + 1>>
    <3>1. <<slice'.arr, slice'.len>> \in Pointer
      BY <2>4, <2>5 DEF Pointer
    <3>. QED
      BY <1>1, <2>5, <3>1 DEF Request, Adding, Toggling, Delisting
  <2>. HIDE DEF s
  <2>7. /\ requests' \in [Requests -> Request] /\ requests'[q] = s
        /\ \A o \in Requests : o # q => requests'[o] = requests[o]
    BY <2>1, <2>6, OneMoves DEF IInv
  <2>8. Typed'
    BY <1>1, <2>5, <2>7 DEF IInv, Typed, KeepsCells, Cell
  <2>9. SliceMoves
    BY <2>5 DEF SliceMoves
  <2>10. PointersMove /\ InstancesMove
    BY <1>1, <2>5, <2>6, <2>7 DEF PointersMove, InstancesMove
  <2>11. \A i \in 1 .. slice'.len : i \in Entries \/ i = slice'.len
    BY <2>4, <2>5 DEF Entries
  <2>12. SliceSound'
    <3>1. 2 \in DOMAIN heap'
      BY <1>1, <2>5 DEF IInv, SliceSound, KeepsCells
    <3>2. \A i \in 1 .. slice'.len : heap'[slice'.arr][i] \in Sound
      BY <1>1, <2>3, <2>5, <2>11 DEF IInv, SliceSound
    <3>3. ASSUME NEW i \in 1 .. slice'.len, NEW j \in 1 .. slice'.len, i # j
          PROVE  /\ heap'[slice'.arr][i].id # heap'[slice'.arr][j].id
                 /\ heap'[slice'.arr][i].port # heap'[slice'.arr][j].port
      BY <1>1, <2>2, <2>3, <2>5, <2>11, <3>3 DEF IInv, SliceSound
    <3>. QED
      BY <2>5, <3>1, <3>2, <3>3 DEF SliceSound, Entries, Entry
  <2>13. OldEntriesStay
    <3>1. ASSUME NEW id \in Original, NEW i \in Entries, Shows(id, i)
          PROVE  i \in Entries' /\ i <= i /\ Shows(id, i)'
      <4>2. At(instances[id])' = At(instances[id])
        BY <1>1, <2>5, CopiesAlone
      <4>3. i \in Entries' /\ i <= i
        BY <2>4, <2>5 DEF Entries
      <4>. QED
        BY <1>1, <2>5, <3>1, <4>2, <4>3 DEF Shows, Entry
    <3>. QED
      BY <3>1 DEF OldEntriesStay
  <2>14. /\ heap'[slice'.arr][slice'.len] \in Sound
         /\ slice'.len \in DOMAIN heap'[slice'.arr]
    <3>1. DOMAIN heap'[slice'.arr] = 1 .. Len(heap'[slice'.arr]) /\ Len(heap'[slice'.arr]) \in Nat
      <4>1. heap' \in Seq(Seq(Cell)) /\ slice'.arr \in 1 .. Len(heap')
        BY <2>5, LenProperties DEF KeepsCells
      <4>2. heap'[slice'.arr] \in Seq(Cell)
        BY <4>1, ElementOfSeq
      <4>. QED
        BY <4>2, LenProperties
    <3>. QED
      BY <2>3, <2>4, <2>5, <3>1
  <2>15. Up' /\ Down' /\ PointersLead' /\ Apart'
    BY <1>1, <2>5, <2>8, <2>9, <2>10, <2>12, <2>13, <2>14, Orderly
  <2>16. SavedOrSaving' /\ FileSound'
    BY <2>1, <2>8, <2>12, <2>15, WrittenIsCurrent
  <2>17. RunsOrWill'
    <3>1. ASSUME NEW o \in Requests, Adding(requests[o]) \/ Delisting(requests[o])
          PROVE  requests'[o] = requests[o]
      BY <1>1, <2>7, <3>1
    <3>2. ASSUME NEW i \in Entries
          PROVE  \/ instances'[heap'[slice'.arr][i].id] # NoPointer
                 \/ \E o \in Requests : /\ Adding(requests'[o]) \/ Delisting(requests'[o])
                                        /\ requests'[o].id = heap'[slice'.arr][i].id
      BY <1>1, <2>5, <3>1 DEF IInv, RunsOrWill
    <3>3. Adding(requests'[q]) /\ requests'[q].id = heap'[slice'.arr][slice'.len].id
      BY <2>3, <2>5, <2>6, <2>7
    <3>. QED
      BY <2>11, <3>2, <3>3 DEF RunsOrWill, Entries, Entry, Adding, Delisting
  <2>. QED
    BY <2>8, <2>12, <2>15, <2>16, <2>17 DEF IInv
<1>. QED
  BY <1>2, <1>3

\* RemoveServer takes the entry out and saves.
LEMMA DelistStep ==
    ASSUME IInv, NEW q \in Requests, RemoveDelists(q)
    PROVE  IInv'
<1>. DEFINE r == requests[q]
            k == Index(r.id)
<1>1. /\ Up /\ UNCHANGED <<instances, private, frozen, asked>> /\ Ends(q)
      /\ ~Adding(r) /\ Delisting(r) /\ r.at # "save" /\ r.id \in Ids
  BY Kinds DEF IInv, Typed, RemoveDelists, Is, Continue, Removal, Adding, Delisting
<1>2. CASE r.id \notin ServerIDs
  BY <1>1, <1>2, VainStep DEF RemoveDelists
<1>3. CASE r.id \in ServerIDs
  <2>1. /\ heap' = [heap EXCEPT ![slice.arr] =
              [j \in DOMAIN @ |-> IF j \in k .. (slice.len - 1) THEN @[j + 1] ELSE @[j]]]
        /\ slice' = [slice EXCEPT !.len = @ - 1] /\ disk' = Servers'
    BY <1>3 DEF RemoveDelists, Written
  <2>2. k \in Entries /\ Entry(k).id = r.id
    BY <1>1, <1>3, Listed DEF IInv
  <2>3. slice.len \in Nat /\ k \in 1 .. slice.len
    BY <2>2, RegistryAssumption DEF IInv, Typed, Entries
  <2>. HIDE DEF k
  <2>4. /\ KeepsCells
        /\ slice' \in [arr : Nat, len : 0 .. MaxServers]
        /\ slice'.arr = slice.arr /\ slice'.len = slice.len - 1
        /\ DOMAIN heap' = DOMAIN heap /\ slice'.len <= Len(heap'[slice'.arr])
        /\ \A i \in 1 .. (slice.len - 1) :
              heap'[slice'.arr][i] = Entry(IF i < k THEN i ELSE i + 1)
        /\ \A c \in DOMAIN heap : c # slice.arr => heap'[c] = heap[c]
    BY <1>1, <2>1, <2>2, RemovedCells DEF IInv
  <2>5. Typed'
    BY <1>1, <2>4, Over DEF IInv, Typed, KeepsCells, Cell
  <2>6. SliceMoves
    BY <1>1, <2>4 DEF IInv, SliceSound, SliceMoves
  <2>7. PointersMove /\ InstancesMove
    BY <1>1, Over DEF PointersMove, InstancesMove
  <2>. DEFINE from(i) == IF i < k THEN i ELSE i + 1
  <2>8. \A i \in 1 .. slice'.len : from(i) \in Entries /\ from(i) # k
    BY <2>3, <2>4 DEF Entries
  <2>9. \A i, j \in 1 .. slice'.len : i # j => from(i) # from(j)
    BY <2>3, <2>4
  <2>10. \A i \in 1 .. slice'.len : heap'[slice'.arr][i] = Entry(from(i))
    BY <2>4
  <2>11. \A i \in Entries : i # k => \E j \in 1 .. slice'.len : j <= i /\ from(j) = i
    <3>. SUFFICES ASSUME NEW i \in Entries, i # k
                  PROVE  \E j \in 1 .. slice'.len : j <= i /\ from(j) = i
      OBVIOUS
    <3>1. CASE i < k
      BY <2>3, <2>4, <3>1 DEF Entries
    <3>2. CASE i > k
      <4>1. i - 1 \in 1 .. slice'.len /\ i - 1 <= i /\ from(i - 1) = i
        BY <2>3, <2>4, <3>2 DEF Entries
      <4>. QED
        BY <4>1
    <3>. QED
      BY <2>3, <3>1, <3>2 DEF Entries
  <2>. HIDE DEF from
  <2>12. SliceSound'
    <3>1. 2 \in DOMAIN heap' /\ slice'.arr \in DOMAIN heap' \ {2}
      BY <1>1, <2>4 DEF IInv, SliceSound
    <3>2. \A i \in 1 .. slice'.len : heap'[slice'.arr][i] \in Sound
      BY <1>1, <2>8, <2>10 DEF IInv, SliceSound
    <3>3. \A i, j \in 1 .. slice'.len : i # j =>
             /\ heap'[slice'.arr][i].id # heap'[slice'.arr][j].id
             /\ heap'[slice'.arr][i].port # heap'[slice'.arr][j].port
      BY <1>1, <2>8, <2>9, <2>10 DEF IInv, SliceSound
    <3>. QED
      BY <2>4, <3>1, <3>2, <3>3 DEF SliceSound, Entries, Entry
  <2>13. OldEntriesStay
    <3>1. ASSUME NEW id \in Original, NEW i \in Entries, Shows(id, i)
          PROVE  \E j \in Entries' : j <= i /\ Shows(id, j)'
      <4>1. id # r.id
        BY <1>1 DEF IInv, Apart, OldApart
      <4>2. i # k
        BY <2>2, <3>1, <4>1 DEF Shows
      <4>3. PICK j \in 1 .. slice'.len : j <= i /\ from(j) = i
        BY <2>11, <4>2
      <4>4. At(instances[id])' = At(instances[id])
        BY <1>1, <2>4, CopiesAlone
      <4>5. Shows(id, j)'
        BY <1>1, <2>10, <3>1, <4>3, <4>4 DEF Shows, Entry
      <4>. QED
        BY <4>3, <4>5 DEF Entries
    <3>. QED
      BY <3>1 DEF OldEntriesStay
  <2>14. slice'.len # slice.len + 1
    BY <2>3, <2>4
  <2>15. Up' /\ Down' /\ PointersLead' /\ Apart'
    BY <1>1, <2>5, <2>4, <2>6, <2>7, <2>12, <2>13, <2>14, Orderly
  <2>16. SavedOrSaving' /\ FileSound'
    BY <2>1, <2>5, <2>12, <2>15, WrittenIsCurrent
  <2>17. RunsOrWill'
    <3>1. ASSUME NEW i \in 1 .. slice'.len
          PROVE  \/ instances'[heap'[slice'.arr][i].id] # NoPointer
                 \/ \E o \in Requests : /\ Adding(requests'[o]) \/ Delisting(requests'[o])
                                        /\ requests'[o].id = heap'[slice'.arr][i].id
      <4>1. from(i) \in Entries /\ heap'[slice'.arr][i] = Entry(from(i))
            /\ Entry(from(i)).id # r.id
        BY <1>1, <2>2, <2>8, <2>10 DEF IInv, SliceSound
      <4>2. ASSUME NEW o \in Requests, requests[o].id = Entry(from(i)).id
            PROVE  requests'[o] = requests[o]
        BY <1>1, <4>1, <4>2, Over
      <4>. QED
        BY <1>1, <4>1, <4>2 DEF IInv, RunsOrWill
    <3>. QED
      BY <3>1 DEF RunsOrWill, Entries, Entry, Adding, Delisting
  <2>. QED
    BY <2>5, <2>12, <2>15, <2>16, <2>17 DEF IInv
<1>. QED
  BY <1>2, <1>3

\* A toggle changes the copy and the entry of its server alike, and of no other
\* server that runs as the start left it.
LEMMA ToggleStep ==
    ASSUME IInv, NEW q \in Requests, ToggleSets(q)
    PROVE  IInv'
<1>. DEFINE r == requests[q]
            p == r.pointer
            s == [r EXCEPT !.at = "save"]
            Touched(a, i) == <<a, i>> = p \/ (a = slice.arr /\ i \in Entries /\ Entry(i).id = r.id)
<1>1. /\ Up /\ UNCHANGED <<slice, instances, private, disk, frozen, asked>>
      /\ Toggling(r) /\ ~Adding(r) /\ ~Delisting(r)
      /\ r \in [op : {"toggle"}, at : {"set", "save", "answer"}, id : Ids,
                pointer : Pointer, field : {"tracking", "spawn"}, on : BOOLEAN]
  BY Kinds DEF IInv, Typed, ToggleSets, Is, Adding, Toggling, Delisting
<1>2. p \in Pointer /\ Leads(p) /\ r.field \in {"tracking", "spawn"} /\ r.on \in BOOLEAN
      /\ r.id \in Ids
  BY <1>1 DEF IInv, PointersLead
<1>3. /\ s \in Request /\ s.id = r.id /\ s.pointer = p /\ s.at = "save"
      /\ Toggling(s) /\ ~Adding(s) /\ ~Delisting(s)
      /\ requests' = [requests EXCEPT ![q] = s]
  <2>1. s \in [op : {"toggle"}, at : {"set", "save", "answer"}, id : Ids,
               pointer : Pointer, field : {"tracking", "spawn"}, on : BOOLEAN]
    BY <1>1
  <2>. QED
    BY <1>1, <2>1 DEF Request, Adding, Toggling, Delisting, ToggleSets, Goes
<1>4. /\ requests' \in [Requests -> Request] /\ requests'[q] = s
      /\ \A o \in Requests : o # q => requests'[o] = requests[o]
  BY <1>3, OneMoves DEF IInv
<1>. HIDE DEF s
<1>5. heap' = [a \in DOMAIN heap |-> [i \in DOMAIN heap[a] |->
                  IF <<a, i>> \in TouchedBy(r.id, p)
                  THEN Toggled(heap[a][i], r.field, r.on) ELSE heap[a][i]]]
  BY DEF ToggleSets
<1>6. /\ KeepsCells
      /\ DOMAIN heap' = DOMAIN heap
      /\ \A a \in DOMAIN heap : DOMAIN heap'[a] = DOMAIN heap[a]
      /\ \A a \in DOMAIN heap : \A i \in DOMAIN heap[a] :
            heap'[a][i] = IF Touched(a, i) THEN Toggled(heap[a][i], r.field, r.on) ELSE heap[a][i]
  <2>. DEFINE f == r.field
              o == r.on
              n == r.id
  <2>1. /\ Typed /\ SliceSound /\ Up /\ UNCHANGED slice /\ p \in Pointer /\ Leads(p)
        /\ f \in {"tracking", "spawn"} /\ o \in BOOLEAN
        /\ heap' = [a \in DOMAIN heap |-> [i \in DOMAIN heap[a] |->
                       IF <<a, i>> \in TouchedBy(n, p)
                       THEN Toggled(heap[a][i], f, o) ELSE heap[a][i]]]
    BY <1>1, <1>2, <1>5 DEF IInv
  <2>. HIDE DEF f, o, n, p
  <2>2. /\ KeepsCells
        /\ DOMAIN heap' = DOMAIN heap
        /\ \A a \in DOMAIN heap : DOMAIN heap'[a] = DOMAIN heap[a]
        /\ \A a \in DOMAIN heap : \A i \in DOMAIN heap[a] :
              heap'[a][i] = IF <<a, i>> = p \/ (a = slice.arr /\ i \in Entries /\ Entry(i).id = n)
                            THEN Toggled(heap[a][i], f, o) ELSE heap[a][i]
    BY <2>1, ToggledCells
  <2>. QED
    BY <2>2 DEF f, o, n, p
<1>7. /\ slice.arr \in DOMAIN heap \ {2} /\ 2 \in DOMAIN heap
      /\ Len(heap[slice.arr]) \in Nat /\ slice.len \in Nat /\ slice.len <= Len(heap[slice.arr])
      /\ DOMAIN heap[slice.arr] = 1 .. Len(heap[slice.arr])
      /\ \A i \in Entries : i \in DOMAIN heap[slice.arr] /\ Entry(i) \in Sound
  BY <1>1, Arrays, SliceEntries DEF IInv, SliceSound, Entries
<1>8. \A i \in Entries :
         /\ heap'[slice.arr][i] \in Sound
         /\ heap'[slice.arr][i].id = Entry(i).id /\ heap'[slice.arr][i].port = Entry(i).port
  <2>. SUFFICES ASSUME NEW i \in Entries
                PROVE  /\ heap'[slice.arr][i] \in Sound
                       /\ heap'[slice.arr][i].id = Entry(i).id
                       /\ heap'[slice.arr][i].port = Entry(i).port
    OBVIOUS
  <2>1. /\ Toggled(Entry(i), r.field, r.on) \in Sound
        /\ Toggled(Entry(i), r.field, r.on).id = Entry(i).id
        /\ Toggled(Entry(i), r.field, r.on).port = Entry(i).port
    BY <1>2, <1>7, ToggledFlags
  <2>2. \/ heap'[slice.arr][i] = Toggled(Entry(i), r.field, r.on)
        \/ heap'[slice.arr][i] = Entry(i)
    BY <1>6, <1>7 DEF Entry
  <2>. QED
    BY <1>7, <2>1, <2>2
<1>9. SliceSound'
  <2>1. Len(heap'[slice.arr]) = Len(heap[slice.arr])
    <3>1. heap'[slice.arr] \in Seq(Cell)
      BY <1>6, <1>7, ElementOfSeq, LenProperties DEF KeepsCells
    <3>. QED
      BY <1>6, <1>7, <3>1, LenProperties
  <2>. QED
    BY <1>1, <1>6, <1>7, <1>8, <2>1 DEF IInv, SliceSound, Entries, Entry
<1>10. Typed'
  BY <1>1, <1>4, <1>6 DEF IInv, Typed, KeepsCells, Cell
<1>11. SliceMoves
  BY <1>1, <1>6, <1>7 DEF SliceMoves
<1>12. PointersMove /\ InstancesMove
  BY <1>1, <1>3, <1>4 DEF PointersMove, InstancesMove
<1>13. OldEntriesStay
  <2>1. ASSUME NEW id \in Original, NEW i \in Entries, OldApart(id), Shows(id, i), InFront(i)
        PROVE  i \in Entries' /\ i <= i /\ Shows(id, i)'
    <3>. DEFINE c == instances[id]
    <3>1. /\ c \in Pointer /\ c[1] = 2 /\ Leads(c) /\ At(c).id = id /\ At(c) \in Sound
          /\ c[1] \in DOMAIN heap /\ c[2] \in DOMAIN heap[c[1]] /\ c = <<c[1], c[2]>>
      BY <2>1 DEF IInv, Typed, Original, PointersLead, OldApart, Leads, Pointer
    <3>2. Touched(c[1], c[2]) <=> r.id = id
      <4>1. Touched(c[1], c[2]) <=> c = p
        BY <1>7, <3>1
      <4>2. r.id = id => p = c
        BY <1>1, <2>1 DEF OldApart
      <4>3. p = c => r.id = id
        BY <1>1, <3>1 DEF IInv, Apart
      <4>. QED
        BY <4>1, <4>2, <4>3
    <3>3. Touched(slice.arr, i) <=> r.id = id
      <4>1. Entry(i).id = id
        BY <2>1 DEF Shows
      <4>2. p # <<slice.arr, i>>
        <5>1. p[1] = slice.arr => i < p[2]
          BY <1>1, <2>1 DEF InFront, Behind
        <5>2. i \in Nat
          BY <1>7 DEF Entries
        <5>. QED
          BY <5>1, <5>2
      <4>. QED
        BY <4>1, <4>2
    <3>4. /\ At(c)' = IF r.id = id THEN Toggled(At(c), r.field, r.on) ELSE At(c)
          /\ heap'[slice.arr][i] = IF r.id = id THEN Toggled(Entry(i), r.field, r.on) ELSE Entry(i)
      <4>. HIDE DEF Touched
      <4>1. heap'[c[1]][c[2]] = IF r.id = id THEN Toggled(At(c), r.field, r.on) ELSE At(c)
        BY <1>6, <3>1, <3>2 DEF At
      <4>2. At(c)' = heap'[c[1]][c[2]]
        BY <1>1 DEF At
      <4>. QED
        BY <1>6, <1>7, <3>3, <4>1, <4>2 DEF Entry
    <3>5. Shows(id, i)'
      <4>1. /\ Entry(i) \in Sound /\ Entry(i).id = id
            /\ Entry(i).tracking = At(c).tracking /\ Entry(i).spawn = At(c).spawn
        BY <1>7, <2>1 DEF Shows
      <4>2. /\ heap'[slice.arr][i].tracking = At(c)'.tracking
            /\ heap'[slice.arr][i].spawn = At(c)'.spawn
        <5>1. CASE r.id = id
          BY <1>2, <3>1, <3>4, <4>1, <5>1, ToggledAlike
        <5>2. CASE r.id # id
          BY <3>4, <4>1, <5>2
        <5>. QED
          BY <5>1, <5>2
      <4>. QED
        BY <1>1, <1>8, <4>1, <4>2 DEF Shows, Entry
    <3>6. i \in Entries' /\ i <= i
      BY <1>1, <1>7 DEF Entries
    <3>. QED
      BY <3>5, <3>6
  <2>. QED
    BY <2>1 DEF OldEntriesStay
<1>14. slice'.len # slice.len + 1
  BY <1>1, <1>7
<1>15. Up' /\ Down' /\ PointersLead' /\ Apart'
  BY <1>1, <1>6, <1>9, <1>10, <1>11, <1>12, <1>13, <1>14, Orderly
<1>16. SavedOrSaving' /\ FileSound'
  BY <1>1, <1>3, <1>4 DEF IInv, SavedOrSaving, FileSound
<1>17. RunsOrWill'
  <2>1. \A o \in Requests : Adding(requests[o]) \/ Delisting(requests[o]) => requests'[o] = requests[o]
    BY <1>1, <1>4
  <2>. QED
    BY <1>1, <1>8, <2>1 DEF IInv, RunsOrWill, Entries, Entry, Adding, Delisting
<1>. QED
  BY <1>9, <1>10, <1>15, <1>16, <1>17 DEF IInv

\* An edit is of the entry alone, and of no flag.
LEMMA EditStep ==
    ASSUME IInv, NEW q \in Requests, EditSets(q)
    PROVE  IInv'
<1>. DEFINE r == requests[q]
            k == Index(r.id)
            s == [r EXCEPT !.at = "save"]
<1>1. /\ Up /\ UNCHANGED <<slice, instances, private, frozen, asked>>
      /\ ~Toggling(r) /\ ~Adding(r) /\ ~Delisting(r) /\ r.at = "set"
      /\ r \in [op : {"patch", "filters"}, at : {"set", "save"}, id : Ids, limit : Limits]
  BY Kinds DEF IInv, Typed, EditSets, Is, Adding, Toggling, Delisting
<1>2. CASE r.id \notin ServerIDs
  BY <1>1, <1>2, VainStep DEF EditSets
<1>3. CASE r.id \in ServerIDs
  <2>1. k \in Entries /\ Entry(k).id = r.id /\ r.limit \in Limits
    BY <1>1, <1>3, Listed DEF IInv
  <2>2. /\ heap' = [heap EXCEPT ![slice.arr][k].limit = r.limit]
        /\ \/ disk' = Servers' /\ Ends(q)
           \/ UNCHANGED disk /\ Goes(q, "save")
    BY <1>3 DEF EditSets, Written
  <2>. HIDE DEF k
  <2>3. /\ KeepsCells
        /\ DOMAIN heap' = DOMAIN heap /\ Len(heap'[slice.arr]) = Len(heap[slice.arr])
        /\ \A i \in Entries :
              /\ heap'[slice.arr][i] \in Sound
              /\ heap'[slice.arr][i].id = Entry(i).id /\ heap'[slice.arr][i].port = Entry(i).port
              /\ heap'[slice.arr][i].tracking = Entry(i).tracking
              /\ heap'[slice.arr][i].spawn = Entry(i).spawn
        /\ \A a \in DOMAIN heap : a # slice.arr => heap'[a] = heap[a]
    BY <1>1, <2>1, <2>2, EditedCells DEF IInv
  <2>4. /\ requests' \in [Requests -> Request]
        /\ \A o \in Requests : o # q => requests'[o] = requests[o]
        /\ ~Adding(requests'[q]) /\ ~Delisting(requests'[q]) /\ ~Toggling(requests'[q])
        /\ Goes(q, "save") => requests'[q].at = "save"
    <3>1. CASE Ends(q)
      <4>1. requests'[q] = Idle
        BY <3>1, Over
      <4>2. ~Goes(q, "save")
        BY <1>1, <4>1 DEF Goes, Idle, IInv, Typed
      <4>. QED
        BY <3>1, <4>2, Over
    <3>2. CASE Goes(q, "save")
      <4>1. /\ s \in [op : {"patch", "filters"}, at : {"set", "save"}, id : Ids, limit : Limits]
            /\ s.op = r.op /\ s.at = "save"
        BY <1>1
      <4>2. s \in Request /\ requests' = [requests EXCEPT ![q] = s]
        BY <3>2, <4>1 DEF Request, Goes
      <4>3. /\ requests' \in [Requests -> Request] /\ requests'[q] = s
            /\ \A o \in Requests : o # q => requests'[o] = requests[o]
        BY <4>2, OneMoves DEF IInv
      <4>. QED
        BY <1>1, <4>1, <4>3 DEF Adding, Delisting, Toggling
    <3>. QED
      BY <2>2, <3>1, <3>2
  <2>5. Typed'
    BY <1>1, <2>3, <2>4 DEF IInv, Typed, KeepsCells, Cell
  <2>6. SliceSound' /\ SliceMoves
    BY <1>1, <2>3 DEF IInv, SliceSound, Entries, Entry, SliceMoves
  <2>7. PointersMove /\ InstancesMove
    BY <1>1, <2>4 DEF PointersMove, InstancesMove
  <2>8. slice.len \in Nat
    BY <1>1, SliceEntries DEF IInv
  <2>9. OldEntriesStay
    <3>1. ASSUME NEW id \in Original, NEW i \in Entries, Shows(id, i)
          PROVE  i \in Entries' /\ i <= i /\ Shows(id, i)'
      <4>1. At(instances[id])' = At(instances[id])
        BY <1>1, <2>3, CopiesAlone
      <4>. QED
        BY <1>1, <2>3, <2>8, <3>1, <4>1 DEF Shows, Entry, Entries
    <3>. QED
      BY <3>1 DEF OldEntriesStay
  <2>10. Up' /\ Down' /\ PointersLead' /\ Apart'
    <3>1. slice'.len # slice.len + 1
      BY <1>1, <2>8
    <3>. QED
      BY <1>1, <2>3, <2>5, <2>6, <2>7, <2>9, <3>1, Orderly
  <2>11. SavedOrSaving' /\ FileSound'
    <3>1. CASE disk' = Servers'
      BY <2>5, <2>6, <2>10, <3>1, WrittenIsCurrent
    <3>2. CASE UNCHANGED disk /\ Goes(q, "save")
      BY <2>4, <3>2 DEF IInv, SavedOrSaving, FileSound
    <3>. QED
      BY <2>2, <3>1, <3>2
  <2>12. RunsOrWill'
    <3>1. \A o \in Requests : Adding(requests[o]) \/ Delisting(requests[o]) => requests'[o] = requests[o]
      BY <1>1, <2>4
    <3>. QED
      BY <1>1, <2>3, <3>1 DEF IInv, RunsOrWill, Entries, Entry, Adding, Delisting
  <2>. QED
    BY <2>5, <2>6, <2>10, <2>11, <2>12 DEF IInv
<1>. QED
  BY <1>2, <1>3

------------------------------------------------------------------------------
(* The start, and the theorems.                                            *)

\* The two arrays of a start are an array of arrays.
LEMMA PairOfArrays ==
    ASSUME NEW S, NEW a \in S, NEW b \in S
    PROVE  /\ <<a, b>> \in Seq(S) /\ DOMAIN <<a, b>> = {1, 2}
           /\ <<a, b>>[1] = a /\ <<a, b>>[2] = b
OBVIOUS

\* The invariant holds before the program starts.
LEMMA Initially == Init => IInv
<1>. SUFFICES ASSUME Init
              PROVE  IInv
  OBVIOUS
<1>1. ~Up /\ heap \in Seq(Seq(Cell))
  BY DEF Init, Up
<1>2. Typed
  <2>1. slice \in [arr : Nat, len : 0 .. MaxServers] /\ frozen \in BOOLEAN /\ private \in SUBSET Ids
    <3>1. 0 \in 0 .. MaxServers
      BY RegistryAssumption
    <3>2. slice = [arr |-> 0, len |-> 0] /\ frozen = FALSE /\ private = {}
      BY DEF Init
    <3>. QED
      BY <3>1, <3>2
  <2>2. NoPointer \in Pointer
    BY DEF NoPointer, Pointer
  <2>3. instances \in [Ids -> Pointer] /\ requests \in [Requests -> Request]
    BY <2>2, IdleHolds DEF Init
  <2>. QED
    BY <1>1, <2>1, <2>3 DEF Typed, Cell
<1>3. FileSound
  <2>1. /\ disk \in Seq(Settings) /\ Len(disk) <= MaxServers /\ Distinct(disk)
        /\ \A i \in DOMAIN disk : disk[i].spawn => disk[i].tracking
    BY SavedAssumption DEF Init
  <2>2. Len(disk) \in Nat /\ disk \in [1 .. Len(disk) -> Settings]
    BY <2>1, LenProperties
  <2>3. disk \in [1 .. Len(disk) -> Sound]
    BY <2>1, <2>2 DEF Sound
  <2>4. disk \in Seq(Sound)
    BY <2>2, <2>3, Sequence
  <2>. QED
    BY <2>1, <2>4 DEF FileSound
<1>4. Down /\ PointersLead
  BY IdleHolds DEF Init, Down, PointersLead
<1>5. RunsOrWill
  BY DEF Init, RunsOrWill, Entries
<1>6. Apart
  BY IdleHolds DEF Init, Apart, Original, NoPointer
<1>. QED
  BY <1>1, <1>2, <1>3, <1>4, <1>5, <1>6 DEF IInv, SliceSound, SavedOrSaving

\* The start gives each server of the file an instance with a copy of its settings.
LEMMA BootStep == ASSUME IInv, Boot PROVE IInv'
<1>. DEFINE held == disk
            Place(id, i) == i \in DOMAIN held /\ held[i].id = id
<1>1. /\ held \in Seq(Sound) /\ Len(held) \in Nat /\ Len(held) <= MaxServers
      /\ DOMAIN held = 1 .. Len(held)
      /\ \A i \in DOMAIN held : held[i] \in Sound
      /\ \A i, j \in DOMAIN held : i # j => held[i].id # held[j].id /\ held[i].port # held[j].port
  <2>1. held \in Seq(Sound) /\ Len(held) \in Nat /\ DOMAIN held = 1 .. Len(held)
    BY LenProperties DEF IInv, FileSound
  <2>. QED
    BY <2>1, ElementOfSeq DEF IInv, FileSound, Distinct
<1>2. PICK room \in 0 .. 1 : heap' = <<held \o [i \in 1 .. room |-> Blank], held>>
  BY DEF Boot, Loaded
<1>. DEFINE a == held \o [i \in 1 .. room |-> Blank]
<1>3. /\ a \in Seq(Cell) /\ Len(a) = Len(held) + room
      /\ \A i \in 1 .. Len(held) : a[i] = held[i]
      /\ held \in Seq(Cell)
  <2>1. held \in Seq(Cell)
    <3>1. held \in [1 .. Len(held) -> Sound]
      BY <1>1
    <3>2. held \in [1 .. Len(held) -> Cell]
      BY <3>1 DEF Sound, Cell
    <3>. QED
      BY <1>1, <3>2, Sequence
  <2>. DEFINE b == [i \in 1 .. room |-> Blank]
  <2>2. b \in Seq(Cell) /\ Len(b) = room
    <3>1. b \in [1 .. room -> Cell] /\ room \in Nat
      BY DEF Cell
    <3>. HIDE DEF b
    <3>. QED
      BY <3>1, Sequence
  <2>. HIDE DEF b
  <2>3. /\ held \o b \in Seq(Cell) /\ Len(held \o b) = Len(held) + Len(b)
        /\ \A i \in 1 .. Len(held) + Len(b) :
              (held \o b)[i] = IF i <= Len(held) THEN held[i] ELSE b[i - Len(held)]
    BY <2>1, <2>2, ConcatProperties
  <2>. QED
    BY <1>1, <2>1, <2>2, <2>3 DEF b
<1>4. heap' = <<a, held>>
  BY <1>2
<1>. HIDE DEF a
<1>5. /\ heap' \in Seq(Seq(Cell)) /\ DOMAIN heap' = {1, 2}
      /\ heap'[1] = a /\ heap'[2] = held
  BY <1>3, <1>4, PairOfArrays
<1>6. /\ slice' = [arr |-> 1, len |-> Len(held)] /\ disk' = held /\ asked' = asked
      /\ instances' = [id \in Ids |-> IF \E i \in DOMAIN held : held[i].id = id
                                      THEN <<2, CHOOSE i \in DOMAIN held : held[i].id = id>>
                                      ELSE NoPointer]
      /\ private' = {held[i].id : i \in DOMAIN held}
      /\ requests' = [q \in Requests |-> Idle] /\ frozen' = FALSE
  BY DEF Boot, Loaded
<1>7. slice'.arr = 1 /\ slice'.len = Len(held)
  BY <1>6
<1>8. \A id \in Ids :
         \/ instances'[id] = NoPointer /\ \A i \in DOMAIN held : held[i].id # id
         \/ \E i \in DOMAIN held : held[i].id = id /\ instances'[id] = <<2, i>>
  <2>. SUFFICES ASSUME NEW id \in Ids, NEW j \in DOMAIN held, held[j].id = id
                PROVE  \E i \in DOMAIN held : held[i].id = id /\ instances'[id] = <<2, i>>
    BY <1>6
  <2>1. instances'[id] = <<2, CHOOSE i \in DOMAIN held : held[i].id = id>>
    BY <1>6
  <2>. HIDE DEF held
  <2>2. PICK i \in DOMAIN held : held[i].id = id /\ i = CHOOSE x \in DOMAIN held : held[x].id = id
    OBVIOUS
  <2>. QED
    BY <2>1, <2>2
<1>. HIDE DEF held
<1>9. \A i \in DOMAIN held : held[i].id \in Ids /\ i \in Nat
  BY <1>1 DEF Sound, Settings
<1>10. Typed'
  <2>1. instances' \in [Ids -> Pointer]
    <3>1. NoPointer \in Pointer /\ \A i \in DOMAIN held : <<2, i>> \in Pointer
      BY <1>9 DEF Pointer, NoPointer
    <3>2. \A id \in Ids : instances'[id] \in Pointer
      BY <1>8, <3>1
    <3>. QED
      BY <1>6, <3>2
  <2>2. private' \in SUBSET Ids
    BY <1>6, <1>9
  <2>3. slice' \in [arr : Nat, len : 0 .. MaxServers]
    BY <1>1, <1>6, RegistryAssumption
  <2>4. requests' \in [Requests -> Request]
    BY <1>6, IdleHolds
  <2>. QED
    BY <1>5, <1>6, <2>1, <2>2, <2>3, <2>4 DEF Typed, Cell
<1>11. Up'
  BY <1>5 DEF Up
<1>12. \A i \in 1 .. Len(held) : heap'[slice'.arr][i] = held[i]
  BY <1>3, <1>5, <1>7
<1>13. SliceSound'
  <2>1. slice'.len <= Len(heap'[slice'.arr])
    BY <1>1, <1>3, <1>5, <1>7
  <2>2. slice'.arr \in DOMAIN heap' \ {2} /\ 2 \in DOMAIN heap'
    BY <1>5, <1>7
  <2>3. \A i \in Entries' : Entry(i)' = held[i] /\ i \in DOMAIN held
    BY <1>1, <1>7, <1>12 DEF Entries, Entry
  <2>. QED
    BY <1>1, <2>1, <2>2, <2>3 DEF SliceSound
<1>14. \A q \in Requests : /\ ~Adding(requests'[q]) /\ ~Toggling(requests'[q])
                            /\ ~Delisting(requests'[q])
  BY <1>6, IdleHolds
<1>15. \A id \in Ids : instances'[id] # NoPointer =>
          \E i \in 1 .. Len(held) : /\ held[i].id = id /\ held[i] \in Sound
                                    /\ instances'[id][1] = 2 /\ instances'[id][2] = i
  BY <1>1, <1>8
<1>16. PointersLead'
  <2>1. \A id \in Ids : instances'[id] # NoPointer => Leads(instances[id])'
    BY <1>1, <1>5, <1>15 DEF Leads, At
  <2>. QED
    BY <1>14, <2>1 DEF PointersLead, Adding, Toggling
<1>17. FileSound'
  BY <1>6 DEF IInv, FileSound, held
<1>18. SavedOrSaving'
  BY <1>6, <1>7, <1>12 DEF SavedOrSaving, Current, Entries, Entry
<1>19. RunsOrWill'
  <2>1. ASSUME NEW i \in 1 .. Len(held)
        PROVE  instances'[held[i].id] # NoPointer
    BY <1>1, <1>8, <1>9 DEF NoPointer
  <2>. QED
    BY <1>7, <1>12, <2>1 DEF RunsOrWill, Entries, Entry
<1>20. Apart'
  <2>1. ASSUME NEW id \in Original'
        PROVE  OldApart(id)'
    <3>1. id \in Ids /\ instances'[id] # NoPointer
      BY <1>10 DEF Original, Typed
    <3>2. PICK i \in 1 .. Len(held) : /\ held[i].id = id /\ held[i] \in Sound
                                      /\ instances'[id][1] = 2 /\ instances'[id][2] = i
      BY <1>15, <3>1
    <3>3. At(instances[id])' = held[i]
      BY <1>5, <3>2 DEF At
    <3>4. i \in Entries' /\ Shows(id, i)'
      BY <1>7, <1>12, <3>2, <3>3 DEF Entries, Shows, Entry
    <3>5. InFront(i)'
      <4>1. ASSUME NEW o \in Ids, instances'[o] # NoPointer
            PROVE  instances'[o][1] # slice'.arr
        BY <1>7, <1>15, <4>1
      <4>. QED
        BY <1>14, <4>1 DEF InFront, Behind, Adding, Toggling
    <3>. QED
      BY <1>14, <3>2, <3>3, <3>4, <3>5 DEF OldApart, Delisting, Toggling
  <2>2. ASSUME NEW id \in Ids, instances'[id][1] = 2
        PROVE  id \in Original'
    <3>1. instances'[id] # NoPointer
      BY <2>2 DEF NoPointer
    <3>2. id \in private'
      BY <1>1, <1>6, <1>15, <3>1
    <3>. QED
      BY <3>1, <3>2 DEF Original
  <2>. QED
    BY <1>14, <2>1, <2>2 DEF Apart, Adding, Toggling
<1>. QED
  BY <1>10, <1>11, <1>13, <1>16, <1>17, <1>18, <1>19, <1>20 DEF IInv, Down

\* Every step keeps the invariant.
LEMMA Inductive == IInv /\ [Next]_vars => IInv'
<1>1. ASSUME IInv, UNCHANGED vars
      PROVE  IInv'
  BY <1>1 DEF vars, IInv, Typed, FileSound, Down, SliceSound, PointersLead, SavedOrSaving,
      Current, RunsOrWill, Apart, Original, OldApart, Shows, InFront, Behind, Leads, At, Entries,
      Entry, Up
<1>2. ASSUME IInv, Next
      PROVE  IInv'
  BY <1>2, BootStep, ArrivalStep, AppendStep, StartStep, StopStep, DelistStep, ToggleStep,
     SaveStep, EditStep DEF Next
<1>. QED
  BY <1>1, <1>2

\* The inductive invariant of the registry holds for any requests, limits and
\* bounds, from any file the program has written.  (config.go, manager.go)
THEOREM RegistryInvariance == Spec => []IInv
BY Initially, Inductive, PTL DEF Spec

\* No two servers ever have one id or one port, in the program or in the file.
\* (AddServer)
THEOREM DistinctServers == Spec => []ServersAreDistinct
<1>1. IInv => ServersAreDistinct
  <2>. SUFFICES ASSUME IInv
                PROVE  ServersAreDistinct
    OBVIOUS
  <2>1. MaxServers \in Nat /\ slice.len \in 0 .. MaxServers
    BY RegistryAssumption DEF IInv, Typed
  <2>2. slice.arr \in 0 .. Len(heap)
    BY Arrays DEF IInv, Down, SliceSound, Up
  <2>3. disk \in Seq(Settings)
    <3>1. disk \in Seq(Sound)
      BY DEF IInv, FileSound
    <3>2. Len(disk) \in Nat /\ disk \in [1 .. Len(disk) -> Sound]
      BY <3>1, LenProperties
    <3>3. disk \in [1 .. Len(disk) -> Settings]
      BY <3>2 DEF Sound
    <3>. QED
      BY <3>2, <3>3, Sequence
  <2>4. ASSUME Up
        PROVE  Distinct(Servers) /\ \A i \in DOMAIN Servers : Servers[i] \in Settings
    BY <2>4, SliceEntries DEF IInv, SliceSound, Distinct, Sound
  <2>5. \A id \in Ids : instances[id] # NoPointer => At(instances[id]) \in Settings
    BY DEF IInv, PointersLead, Leads, Sound
  <2>. QED
    BY <2>1, <2>2, <2>3, <2>4, <2>5 DEF ServersAreDistinct, RegistryTypeOK, IInv, Typed, FileSound
<1>. QED
  BY <1>1, RegistryInvariance, PTL

\* When no request is being served the file is what the program holds, however
\* the requests before overlapped.  (Save, AddServer, RemoveServer, UpdateServer)
THEOREM FileUpToDate == Spec => []FileIsUpToDate
<1>1. IInv => FileIsUpToDate
  <2>. SUFFICES ASSUME IInv, Up, Quiet
                PROVE  disk = Servers
    BY DEF FileIsUpToDate
  <2>1. Current
    BY IdleHolds DEF IInv, SavedOrSaving, Quiet
  <2>2. /\ disk \in Seq(Sound) /\ Servers \in Seq(Sound)
        /\ Len(disk) = Len(Servers) /\ \A i \in 1 .. Len(disk) : disk[i] = Servers[i]
    BY <2>1, SliceEntries DEF IInv, FileSound, Current, Entries
  <2>. QED
    BY <2>2, SeqEqual
<1>. QED
  BY <1>1, RegistryInvariance, PTL

\* The flags a server of the start goes by are those of its entry, and nothing
\* spawns untracked, although a toggle may reach a cell that another server has
\* moved into.  (ToggleTracking, ToggleSpawning)
THEOREM FlagsStayEqual == Spec => []FlagsAgree
<1>1. IInv => FlagsAgree
  <2>. SUFFICES ASSUME IInv, NEW id \in Ids, instances[id] # NoPointer
                PROVE  LET s == At(instances[id]) IN
                       /\ s.spawn => s.tracking
                       /\ (Up /\ id \in private \cap ServerIDs) =>
                             /\ s.tracking = Servers[Index(id)].tracking
                             /\ s.spawn = Servers[Index(id)].spawn
    BY DEF FlagsAgree
  <2>1. At(instances[id]).spawn => At(instances[id]).tracking
    BY DEF IInv, PointersLead, Leads, Sound
  <2>2. ASSUME Up, id \in private
        PROVE  /\ At(instances[id]).tracking = Servers[Index(id)].tracking
               /\ At(instances[id]).spawn = Servers[Index(id)].spawn
    <3>1. PICK i \in Entries : Shows(id, i)
      BY <2>2 DEF IInv, Apart, Original, OldApart
    <3>2. Index(id) = i /\ Servers[i] = Entry(i)
      BY <2>2, <3>1, Listed, SliceEntries DEF IInv, Shows
    <3>. QED
      BY <3>1, <3>2 DEF Shows
  <2>. QED
    BY <2>1, <2>2
<1>. QED
  BY <1>1, RegistryInvariance, PTL

\* When no request is being served, every configured server runs.  (AddServer,
\* RemoveServer, startInstance)
THEOREM AllConfiguredRun == Spec => []ConfiguredRun
<1>1. IInv => ConfiguredRun
  <2>. SUFFICES ASSUME IInv, Up, Quiet, NEW id \in ServerIDs
                PROVE  instances[id] # NoPointer
    BY DEF ConfiguredRun
  <2>1. PICK i \in Entries : Entry(i).id = id
    BY Listed DEF IInv
  <2>. QED
    BY <2>1, IdleHolds DEF IInv, RunsOrWill, Quiet
<1>. QED
  BY <1>1, RegistryInvariance, PTL

------------------------------------------------------------------------------
(* ConfigFile: what a file that was cut is read as.                        *)

\* What the program may run with: no server keeps the deprecated setting.
Fine == {s \in Server : s["enabled"] = 0}
Configs == {c \in [key : {0, 1}, servers : Seq(Fine)] : Len(c.servers) <= MaxEntries}

\* What Load makes of a file that parses.
Understood(f) ==
    IF f = Absent THEN defaults
    ELSE IF isV1Format(f) THEN migrateV1(f)
    ELSE migrateEnabledField(Decoded(f), f)

\* f is some of what c is written as: the first servers, and of each some of the
\* settings.
Part(f, c) ==
    /\ f.state # "absent"
    /\ DOMAIN f.top \subseteq {"api-key"} /\ Above(f, "api-key") \in {0, 1}
    /\ DOMAIN f.servers = 1 .. Len(f.servers) /\ Len(f.servers) \in 0 .. Len(c.servers)
    /\ \A n \in 1 .. Len(f.servers) : \A k \in DOMAIN f.servers[n] :
          k \in Keys \ {"enabled"} /\ f.servers[n][k] = c.servers[n][k]

LEMMA KeysAre ==
    /\ Keys = {"id", "hook-port", "enabled", "tracking-enabled", "spawn-enabled",
                     "max-ships", "filters"}
    /\ \A i \in Nat : First(i) = {Order[j] : j \in 1 .. i}
<1>1. /\ Order[1] = "id" /\ Order[2] = "hook-port" /\ Order[3] = "enabled"
      /\ Order[4] = "tracking-enabled" /\ Order[5] = "spawn-enabled"
      /\ Order[6] = "max-ships" /\ Order[7] = "filters"
  BY DEF Order
<1>2. 1 .. 7 = {1, 2, 3, 4, 5, 6, 7}
  OBVIOUS
<1> QED
  BY <1>1, <1>2 DEF Keys, First

\* What is read of a part is part of what was written, and needs no migration.
LEMMA PartLoads ==
    ASSUME NEW c \in Configs, NEW f, Part(f, c)
    PROVE  /\ f # Absent /\ ~isV1Format(f)
           /\ Understood(f) = Decoded(f) /\ Decoded(f) \in Configs
           /\ \A n \in DOMAIN Decoded(f).servers :
                 /\ n \in DOMAIN c.servers
                 /\ \A k \in Keys :
                       Decoded(f).servers[n][k] \in {0, c.servers[n][k]}
<1> DEFINE d == Decoded(f)
           m == Len(f.servers)
<1>1. /\ m \in Nat /\ m <= Len(c.servers) /\ Len(c.servers) \in Nat /\ Len(c.servers) <= MaxEntries
      /\ \A n \in 1 .. Len(c.servers) : c.servers[n] \in Fine
      /\ DOMAIN f.servers = 1 .. m /\ DOMAIN c.servers = 1 .. Len(c.servers)
  BY DEF Part, Configs
<1>2. f # Absent /\ ~isV1Format(f)
  <2>1. f.servers = <<>> => ~Has(f, "hook-port")
    BY DEF Has, Part
  <2>2. f.servers = <<>> => "[dcs]" \notin DOMAIN f.top /\ ~Has(f, "[dcs]")
    BY DEF Has, Part
  <2>3. Absent.state = "absent"
    BY DEF Absent, File
  <2> QED
    BY <2>1, <2>2, <2>3 DEF isV1Format, Part
<1>3. /\ d = [key |-> Above(f, "api-key"), servers |-> d.servers]
      /\ d.servers = [n \in 1 .. m |-> [k \in Keys |->
                         IF k \in DOMAIN f.servers[n] THEN f.servers[n][k] ELSE 0]]
  BY <1>1 DEF Decoded, Missing
<1> HIDE DEF d
<1>4. ASSUME NEW n \in 1 .. m
      PROVE  /\ d.servers[n] \in Fine
             /\ \A k \in Keys : d.servers[n][k] \in {0, c.servers[n][k]}
  <2>1. c.servers[n] \in [Keys -> Numbers]
    BY <1>1 DEF Fine, Server
  <2>2. \A k \in Keys : d.servers[n][k] \in {0, c.servers[n][k]}
    BY <1>3 DEF Part
  <2>3. 0 \in Numbers
    BY ConfigFileAssumption DEF Numbers, AllOn
  <2>4. d.servers[n] \in [Keys -> Numbers]
    BY <1>3, <2>1, <2>2, <2>3
  <2>5. d.servers[n]["enabled"] = 0
    BY <1>3, KeysAre DEF Part
  <2> QED
    BY <2>2, <2>4, <2>5 DEF Fine, Server
<1>5. d.servers \in Seq(Fine) /\ Len(d.servers) = m
  <2>1. DOMAIN d.servers = 1 .. m /\ d.servers = [n \in 1 .. m |-> d.servers[n]]
    BY <1>3
  <2>2. \A n \in 1 .. m : d.servers[n] \in Fine
    BY <1>4
  <2>3. \A q : q = [n \in 1 .. m |-> q[n]] /\ (\A n \in 1 .. m : q[n] \in Fine)
                 => q \in Seq(Fine) /\ Len(q) = m
    <3>1. m \in Nat
      BY <1>1
    <3> HIDE DEF m, d, Fine
    <3> QED
      BY <3>1
  <2> QED
    BY <2>1, <2>2, <2>3
<1>6. d \in Configs
  <2>1. m <= MaxEntries
    BY <1>1, ConfigFileAssumption
  <2>2. Above(f, "api-key") \in {0, 1}
    BY DEF Part
  <2>3. \A a \in {0, 1}, q \in Seq(Fine) :
            [key |-> a, servers |-> q] \in [key : {0, 1}, servers : Seq(Fine)]
    OBVIOUS
  <2>4. d.servers \in Seq(Fine)
    BY <1>5
  <2>5. [key |-> Above(f, "api-key"), servers |-> d.servers]
            \in [key : {0, 1}, servers : Seq(Fine)]
    BY <2>2, <2>3, <2>4
  <2>6. d = [key |-> Above(f, "api-key"), servers |-> d.servers]
    BY <1>3
  <2>7. d \in [key : {0, 1}, servers : Seq(Fine)]
    BY <2>5, <2>6, Zenon
  <2> QED
    BY <1>5, <2>1, <2>7 DEF Configs
<1>7. migrateEnabledField(d, f) = d
  <2>1. \A n \in DOMAIN d.servers : Split(d.servers[n]) = d.servers[n]
    BY <1>3, <1>4 DEF Split, Fine
  <2>2. [n \in DOMAIN d.servers |-> Split(d.servers[n])] = d.servers
    BY <1>3, <2>1
  <2>3. [d EXCEPT !.servers = [n \in DOMAIN @ |-> Split(@[n])]] = d
    BY <1>3, <2>2
  <2> QED
    BY <2>3 DEF migrateEnabledField
<1>8. Understood(f) = d
  BY <1>2, <1>7 DEF Understood, d
<1>9. \A n \in DOMAIN d.servers :
          n \in DOMAIN c.servers /\ \A k \in Keys : d.servers[n][k] \in {0, c.servers[n][k]}
  <2>1. \A n \in DOMAIN d.servers : n \in 1 .. m /\ n \in DOMAIN c.servers
    BY <1>1, <1>3
  <2> QED
    BY <1>4, <2>1
<1> QED
  BY <1>2, <1>6, <1>8, <1>9 DEF d

\* What is written of a server.
LEMMA LinesAre ==
    ASSUME NEW s \in Fine
    PROVE  /\ DOMAIN Lines(s) = Keys \ {"enabled"}
           /\ \A k \in Keys \ {"enabled"} : Lines(s)[k] = s[k]
BY DEF Lines, Restrict, Fine

LEMMA MarshalIs ==
    ASSUME NEW c \in Configs
    PROVE  LET w == Marshal(c)
           IN  /\ w = [state |-> "text", top |-> w.top, servers |-> w.servers]
               /\ DOMAIN w.top = {"api-key"} /\ w.top["api-key"] = c.key
               /\ DOMAIN w.servers = 1 .. Len(c.servers) /\ Len(w.servers) = Len(c.servers)
               /\ Len(c.servers) \in Nat
               /\ \A n \in 1 .. Len(c.servers) :
                     c.servers[n] \in Fine /\ w.servers[n] = Lines(c.servers[n])
<1> DEFINE ls == [n \in DOMAIN c.servers |-> Lines(c.servers[n])]
           w == Marshal(c)
<1>1. /\ DOMAIN c.servers = 1 .. Len(c.servers) /\ Len(c.servers) \in Nat
      /\ \A n \in 1 .. Len(c.servers) : c.servers[n] \in Fine
  BY DEF Configs
<1>2. w = [state |-> "text", top |-> [k \in {"api-key"} |-> c.key], servers |-> ls]
  BY DEF Marshal, File
<1>3. DOMAIN ls = 1 .. Len(c.servers) /\ Len(ls) = Len(c.servers)
  BY <1>1
<1>4. \A n \in 1 .. Len(c.servers) : ls[n] = Lines(c.servers[n])
  BY <1>1
<1> HIDE DEF ls, w
<1> QED
  BY <1>1, <1>2, <1>3, <1>4 DEF w

\* A file that is written to its end is read as what was written.
LEMMA WrittenIsRead ==
    ASSUME NEW c \in Configs
    PROVE  Part(Marshal(c), c) /\ Decoded(Marshal(c)) = c
<1> DEFINE w == Marshal(c)
<1>1. /\ w.state = "text" /\ DOMAIN w.top = {"api-key"} /\ w.top["api-key"] = c.key
      /\ DOMAIN w.servers = 1 .. Len(c.servers) /\ Len(w.servers) = Len(c.servers)
      /\ Len(c.servers) \in Nat
      /\ \A n \in 1 .. Len(c.servers) :
            c.servers[n] \in Fine /\ w.servers[n] = Lines(c.servers[n])
  <2>1. w = [state |-> "text", top |-> w.top, servers |-> w.servers]
    BY MarshalIs
  <2>2. w.state = "text"
    BY <2>1
  <2> HIDE DEF w
  <2> QED
    BY <2>2, MarshalIs DEF w
<1> HIDE DEF w
<1>2. c.key \in {0, 1} /\ c = [key |-> c.key, servers |-> c.servers]
      /\ c.servers \in Seq(Fine)
  BY DEF Configs
<1>3. Above(w, "api-key") = c.key
  BY <1>1 DEF Above
<1>4. \A n \in 1 .. Len(c.servers) :
          /\ DOMAIN w.servers[n] = Keys \ {"enabled"}
          /\ \A k \in Keys \ {"enabled"} : w.servers[n][k] = c.servers[n][k]
  BY <1>1, LinesAre
<1>5. Part(w, c)
  BY <1>1, <1>2, <1>3, <1>4 DEF Part
<1>6. ASSUME NEW n \in 1 .. Len(c.servers)
      PROVE  [k \in Keys |-> IF k \in DOMAIN w.servers[n] THEN w.servers[n][k] ELSE 0]
                 = c.servers[n]
  <2>1. c.servers[n] \in [Keys -> Numbers] /\ c.servers[n]["enabled"] = 0
    BY <1>1 DEF Fine, Server
  <2> QED
    BY <1>4, <2>1
<1>7. Decoded(w).servers = c.servers
  <2>1. Decoded(w).servers =
            [n \in 1 .. Len(c.servers) |->
                [k \in Keys |-> IF k \in DOMAIN w.servers[n] THEN w.servers[n][k] ELSE 0]]
    BY <1>1 DEF Decoded, Missing
  <2>2. c.servers = [n \in 1 .. Len(c.servers) |-> c.servers[n]]
    BY <1>2
  <2> QED
    BY <1>6, <2>1, <2>2
<1>8. Decoded(w) = [key |-> c.key, servers |-> Decoded(w).servers]
  BY <1>3 DEF Decoded
<1> QED
  BY <1>2, <1>5, <1>7, <1>8 DEF w

\* An empty file, and one that is cut anywhere, is part of what was being written.
LEMMA EmptyIsPart ==
    ASSUME NEW c \in Configs
    PROVE  Part(Empty, c)
<1>1. /\ Empty.state = "text" /\ Empty.servers = <<>>
      /\ DOMAIN Empty.top = {}
  BY DEF Empty, File, NoLines
<1>2. Len(c.servers) \in Nat
  BY DEF Configs
<1> QED
  BY <1>1, <1>2 DEF Part, Above

LEMMA UpToIsPart ==
    ASSUME NEW c \in Configs, NEW m \in 0 .. Len(c.servers), NEW i \in 0 .. 7
    PROVE  LET f == UpTo(Marshal(c), m, i)
           IN  Part(f, c) /\ f = [state |-> "text", top |-> f.top, servers |-> f.servers]
<1> DEFINE w == Marshal(c)
           f == UpTo(w, m, i)
           ls == [n \in 1 .. m |->
                     IF n < m THEN w.servers[n]
                     ELSE Restrict(w.servers[n], First(i) \cap DOMAIN w.servers[n])]
<1>1. w = [state |-> "text", top |-> w.top, servers |-> w.servers]
  BY MarshalIs
<1>2. /\ DOMAIN w.top = {"api-key"} /\ w.top["api-key"] = c.key /\ Len(c.servers) \in Nat
      /\ \A n \in 1 .. Len(c.servers) :
            /\ DOMAIN w.servers[n] = Keys \ {"enabled"}
            /\ \A k \in Keys \ {"enabled"} : w.servers[n][k] = c.servers[n][k]
  BY MarshalIs, LinesAre
<1> HIDE DEF w
<1>3. f = [state |-> "text", top |-> w.top, servers |-> ls]
  <2>1. f = [w EXCEPT !.servers = ls]
    BY DEF UpTo
  <2> HIDE DEF ls, f
  <2>2. [w EXCEPT !.servers = ls] = [state |-> "text", top |-> w.top, servers |-> ls]
    BY <1>1
  <2> QED
    BY <2>1, <2>2
<1>4. DOMAIN ls = 1 .. m /\ Len(ls) = m /\ m \in Nat /\ m <= Len(c.servers)
  BY <1>2
<1>5. ASSUME NEW n \in 1 .. m, NEW k \in DOMAIN ls[n]
      PROVE  k \in Keys \ {"enabled"} /\ ls[n][k] = c.servers[n][k]
  <2>1. n \in 1 .. Len(c.servers)
    BY <1>2, <1>4
  <2>2. CASE n < m
    BY <1>2, <1>5, <2>1, <2>2
  <2>3. CASE ~(n < m)
    BY <1>2, <1>5, <2>1, <2>3 DEF Restrict
  <2> QED
    BY <2>2, <2>3
<1> HIDE DEF ls
<1>6. c.key \in {0, 1}
  BY DEF Configs
<1> DEFINE g == [state |-> "text", top |-> w.top, servers |-> ls]
<1>7. Above(g, "api-key") = c.key
  BY <1>2 DEF Above
<1>8. Part(g, c)
  BY <1>2, <1>4, <1>5, <1>6, <1>7 DEF Part
<1> QED
  BY <1>3, <1>8 DEF w

LEMMA CutIsPart ==
    ASSUME cfg \in Configs, NEW f \in Cut
    PROVE  Part(f, cfg)
<1> DEFINE all == Marshal(cfg)
<1>1. Len(all.servers) = Len(cfg.servers)
  BY MarshalIs
<1>2. PICK g \in {Empty} \cup {UpTo(all, m, i) : m \in 0 .. Len(cfg.servers), i \in 0 .. 7} :
          f = g \/ f = Garbled(g)
  BY <1>1 DEF Cut
<1>3. Part(g, cfg) /\ g = [state |-> "text", top |-> g.top, servers |-> g.servers]
  <2>1. Empty = [state |-> "text", top |-> NoLines, servers |-> <<>>]
    BY DEF Empty, File
  <2> QED
    BY <1>2, <2>1, EmptyIsPart, UpToIsPart
<1>4. /\ Garbled(g).state = "garbled" /\ Garbled(g).top = g.top
      /\ Garbled(g).servers = g.servers
  BY <1>3 DEF Garbled
<1>5. Part(Garbled(g), cfg)
  BY <1>3, <1>4 DEF Part, Above
<1> QED
  BY <1>2, <1>3, <1>5

------------------------------------------------------------------------------
(* What the settings are after a Load and after each request.              *)

LEMMA NumbersAre ==
    /\ {0, 1, 2} \subseteq Numbers /\ 1 .. MaxEntries \subseteq Numbers
    /\ Numbers \subseteq Int /\ MaxEntries \in Nat \ {0} /\ AllOn = 2
BY ConfigFileAssumption DEF Numbers, AllOn

LEMMA FineAre ==
    /\ \A s \in Fine, k \in Keys \ {"enabled"}, v \in Numbers :
          [s EXCEPT ![k] = v] \in Fine
    /\ \A id \in 1 .. MaxEntries : DefaultServerConfig(id) \in Fine
<1>1. \A s \in Fine, k \in Keys \ {"enabled"}, v \in Numbers :
          [s EXCEPT ![k] = v] \in Fine
  <2> SUFFICES ASSUME NEW s \in Fine, NEW k \in Keys \ {"enabled"},
                      NEW v \in Numbers
               PROVE  [s EXCEPT ![k] = v] \in Fine
    OBVIOUS
  <2>1. s \in [Keys -> Numbers] /\ s["enabled"] = 0
    BY DEF Fine, Server
  <2>2. [s EXCEPT ![k] = v] \in [Keys -> Numbers]
    BY <2>1
  <2>3. [s EXCEPT ![k] = v]["enabled"] = 0
    BY <2>1, KeysAre
  <2> QED
    BY <2>2, <2>3 DEF Fine, Server
<1>2. ASSUME NEW id \in 1 .. MaxEntries PROVE DefaultServerConfig(id) \in Fine
  <2>1. id \in Numbers
    BY NumbersAre
  <2> DEFINE d == DefaultServerConfig(id)
  <2>2. DOMAIN d = Keys /\ d = [k \in Keys |-> d[k]]
    BY DEF DefaultServerConfig
  <2>3. \A k \in Keys : d[k] \in {id, 0, 2, 1}
    BY NumbersAre DEF DefaultServerConfig
  <2>4. d["enabled"] = 0
    BY KeysAre DEF DefaultServerConfig
  <2> HIDE DEF d
  <2> QED
    BY <2>1, <2>2, <2>3, <2>4, NumbersAre DEF Fine, Server, d
<1> QED
  BY <1>1, <1>2

LEMMA ConfigsAre ==
    ASSUME NEW k \in {0, 1}, NEW q \in Seq(Fine), Len(q) <= MaxEntries
    PROVE  [key |-> k, servers |-> q] \in Configs
<1>1. [key |-> k, servers |-> q] \in [key : {0, 1}, servers : Seq(Fine)]
  OBVIOUS
<1> QED
  BY <1>1 DEF Configs

LEMMA PartsOfConfig ==
    ASSUME NEW c \in Configs
    PROVE  /\ c = [key |-> c.key, servers |-> c.servers] /\ c.key \in {0, 1}
           /\ c.servers \in Seq(Fine) /\ Len(c.servers) \in 0 .. MaxEntries
           /\ DOMAIN c.servers = 1 .. Len(c.servers)
           /\ \A n \in DOMAIN c.servers : c.servers[n] \in Fine
<1>1. c.servers \in Seq(Fine) /\ c.key \in {0, 1} /\ Len(c.servers) <= MaxEntries
      /\ c = [key |-> c.key, servers |-> c.servers]
  BY DEF Configs
<1> QED
  BY <1>1, NumbersAre

\* An old file, whatever its form, is understood as something to run with.
LEMMA OldIsUnderstood ==
    ASSUME NEW f, OldFile(f)
    PROVE  Understood(f) \in Configs
<1>1. /\ f.top \in [DOMAIN f.top -> Numbers] /\ Above(f, "api-key") \in {0, 1}
      /\ f.servers \in Seq(UNION {[K -> Numbers] : K \in SUBSET Keys})
      /\ Len(f.servers) <= MaxEntries
      /\ \/ Unsplit(f)
         \/ \A n \in DOMAIN f.servers : "enabled" \notin DOMAIN f.servers[n]
  BY DEF OldFile
<1>2. CASE f = Absent
  <2>1. Understood(f) = [key |-> 0, servers |-> <<>>]
    BY <1>2 DEF Understood, defaults
  <2> QED
    <3>1. <<>> \in Seq(Fine) /\ Len(<<>>) <= MaxEntries
      BY NumbersAre
    <3>2. [key |-> 0, servers |-> <<>>] \in Configs
      BY <3>1, ConfigsAre
    <3> QED
      BY <2>1, <3>2
<1>3. CASE f # Absent /\ isV1Format(f)
  <2>1. \A k : Above(f, k) \in Numbers
    BY <1>1, NumbersAre DEF Above
  <2>2. \A v \in Numbers : Or(v, 1) \in Numbers
    BY NumbersAre DEF Or
  <2>3. V1Filters(f) \in Numbers
    BY <2>1, NumbersAre DEF V1Filters
  <2> DEFINE s == [DefaultServerConfig(1) EXCEPT
                       !["hook-port"] = Or(Above(f, "hook-port"), 1),
                       !["tracking-enabled"] = 0, !["spawn-enabled"] = 0,
                       !["max-ships"] = Or(Above(f, "max-ships"), 1),
                       !["filters"] = V1Filters(f)]
  <2>4. s \in Fine
    <3>1. DefaultServerConfig(1) \in Fine
      BY FineAre, NumbersAre
    <3>2. \A a, b, d \in Numbers, t \in Fine :
              [t EXCEPT !["hook-port"] = a, !["tracking-enabled"] = 0, !["spawn-enabled"] = 0,
                        !["max-ships"] = b, !["filters"] = d] \in Fine
      BY NumbersAre, KeysAre DEF Fine, Server
    <3> QED
      BY <2>1, <2>2, <2>3, <3>1, <3>2
  <2>5. Understood(f) = [key |-> Above(f, "api-key"), servers |-> <<s>>]
    BY <1>3 DEF Understood, migrateV1
  <2> HIDE DEF s
  <2>6. <<s>> \in Seq(Fine) /\ Len(<<s>>) = 1
    BY <2>4
  <2> QED
    <3>1. Len(<<s>>) <= MaxEntries
      BY <2>6, NumbersAre
    <3>2. [key |-> Above(f, "api-key"), servers |-> <<s>>] \in Configs
      BY <1>1, <2>6, <3>1, ConfigsAre
    <3> QED
      BY <2>5, <3>2
<1>4. CASE f # Absent /\ ~isV1Format(f)
  <2> DEFINE d == Decoded(f)
             m == Len(f.servers)
  <2>1. /\ DOMAIN f.servers = 1 .. m /\ m \in Nat /\ m <= MaxEntries
        /\ \A n \in 1 .. m : \A k \in DOMAIN f.servers[n] : f.servers[n][k] \in Numbers
    BY <1>1
  <2>2. d = [key |-> Above(f, "api-key"), servers |-> d.servers]
        /\ d.servers = [n \in 1 .. m |-> [k \in Keys |->
                           IF k \in DOMAIN f.servers[n] THEN f.servers[n][k] ELSE 0]]
    BY <2>1 DEF Decoded, Missing
  <2>3. Understood(f) = migrateEnabledField(d, f)
    BY <1>4 DEF Understood
  <2> HIDE DEF d
  <2>4. ASSUME NEW n \in 1 .. m
        PROVE  /\ d.servers[n] \in Server
               /\ Split(d.servers[n]) \in Fine
               /\ "enabled" \notin DOMAIN f.servers[n] => d.servers[n] \in Fine
    <3>1. d.servers[n] \in Server
      BY <2>1, <2>2, NumbersAre DEF Server
    <3>2. Split(d.servers[n]) \in Fine
      BY <3>1, NumbersAre, KeysAre DEF Fine, Server, Split
    <3>3. "enabled" \notin DOMAIN f.servers[n] => d.servers[n]["enabled"] = 0
      BY <2>2, KeysAre
    <3> QED
      BY <3>1, <3>2, <3>3 DEF Fine
  <2>5. \A q : q = [n \in 1 .. m |-> q[n]] /\ (\A n \in 1 .. m : q[n] \in Fine)
                 => q \in Seq(Fine) /\ Len(q) = m
    <3> HIDE DEF m
    <3> QED
      BY <2>1
  <2>6. CASE Unsplit(f)
    <3> DEFINE q == [n \in 1 .. m |-> Split(d.servers[n])]
    <3>1. Understood(f) = [key |-> Above(f, "api-key"), servers |-> q]
      <4>1. DOMAIN d.servers = 1 .. m
        BY <2>2
      <4>2. Understood(f) = [d EXCEPT !.servers = q]
        BY <2>3, <2>6, <4>1 DEF migrateEnabledField
      <4> HIDE DEF q
      <4> QED
        BY <2>2, <4>2
    <3>2. q = [n \in 1 .. m |-> q[n]] /\ \A n \in 1 .. m : q[n] \in Fine
      BY <2>4
    <3> HIDE DEF q, m
    <3> QED
      BY <1>1, <2>1, <2>5, <3>1, <3>2, ConfigsAre
  <2>7. CASE ~Unsplit(f)
    <3>1. Understood(f) = d
      BY <2>3, <2>7 DEF migrateEnabledField
    <3>2. d.servers = [n \in 1 .. m |-> d.servers[n]] /\ \A n \in 1 .. m : d.servers[n] \in Fine
      BY <1>1, <2>1, <2>2, <2>4, <2>7
    <3> HIDE DEF m
    <3>3. d.servers \in Seq(Fine) /\ Len(d.servers) = m
      BY <2>5, <3>2
    <3>4. [key |-> Above(f, "api-key"), servers |-> d.servers] \in Configs
      BY <1>1, <2>1, <3>3, ConfigsAre
    <3> QED
      BY <2>2, <3>1, <3>4, Zenon
  <2> QED
    BY <2>6, <2>7
<1> QED
  BY <1>2, <1>3, <1>4

\* A migration that is repeated changes nothing: what is written after one is read
\* as what it gave, by a Load that has nothing to migrate.  (migrateV1,
\* migrateEnabledField, Save)
THEOREM MigrationIsRepeatable ==
    ASSUME NEW f, OldFile(f)
    PROVE  LET c == Understood(f)
               w == Marshal(c)
           IN  /\ w # Absent /\ ~isV1Format(w) /\ ~Migrated(w)
               /\ Decoded(w) = c /\ Understood(w) = c
<1>1. Understood(f) \in Configs
  BY OldIsUnderstood
<1>2. \A c \in Configs :
          /\ Marshal(c) # Absent /\ ~isV1Format(Marshal(c))
          /\ Decoded(Marshal(c)) = c /\ Understood(Marshal(c)) = c
  BY WrittenIsRead, PartLoads
<1>3. \A c \in Configs : ~Migrated(Marshal(c))
  BY <1>2 DEF Understood, Migrated
<1> QED
  BY <1>1, <1>2, <1>3

\* One setting of a server is changed, or two.
LEMMA ChangedStaysFine ==
    ASSUME cfg \in Configs, NEW n \in DOMAIN cfg.servers, NEW v \in Numbers,
           NEW w \in Numbers, NEW k \in Keys \ {"enabled"},
           NEW l \in Keys \ {"enabled"}
    PROVE  /\ [cfg EXCEPT !.servers[n][k] = v] \in Configs
           /\ [cfg EXCEPT !.servers[n][k] = v, !.servers[n][l] = w] \in Configs
<1>1. /\ cfg = [key |-> cfg.key, servers |-> cfg.servers] /\ cfg.key \in {0, 1}
      /\ cfg.servers \in Seq(Fine) /\ Len(cfg.servers) \in 0 .. MaxEntries
      /\ DOMAIN cfg.servers = 1 .. Len(cfg.servers) /\ cfg.servers[n] \in Fine
  BY PartsOfConfig
<1>2. ASSUME NEW s \in Fine
      PROVE  [cfg EXCEPT !.servers = [cfg.servers EXCEPT ![n] = s]] \in Configs
  <2> DEFINE q == [cfg.servers EXCEPT ![n] = s]
  <2>1. q \in Seq(Fine) /\ Len(q) = Len(cfg.servers)
    BY <1>1
  <2>2. [cfg EXCEPT !.servers = q] = [key |-> cfg.key, servers |-> q]
    BY <1>1
  <2> HIDE DEF q
  <2>3. [key |-> cfg.key, servers |-> q] \in Configs
    BY <1>1, <2>1, ConfigsAre
  <2> QED
    BY <2>2, <2>3 DEF q
<1> DEFINE s == [cfg.servers[n] EXCEPT ![k] = v]
           t == [s EXCEPT ![l] = w]
<1>3. s \in Fine
  BY <1>1, FineAre
<1>4. t \in Fine
  <2> HIDE DEF s
  <2> QED
    BY <1>3, FineAre
<1>5. [cfg EXCEPT !.servers[n][k] = v] = [cfg EXCEPT !.servers = [cfg.servers EXCEPT ![n] = s]]
  OBVIOUS
<1>6. [cfg EXCEPT !.servers[n][k] = v, !.servers[n][l] = w]
          = [cfg EXCEPT !.servers = [cfg.servers EXCEPT ![n] = t]]
  BY <1>1
<1> HIDE DEF s, t
<1>7. [cfg EXCEPT !.servers[n][k] = v] \in Configs
  BY <1>2, <1>3, <1>5
<1>8. [cfg EXCEPT !.servers[n][k] = v, !.servers[n][l] = w] \in Configs
  BY <1>2, <1>4, <1>6
<1> QED
  BY <1>7, <1>8

------------------------------------------------------------------------------
(* The file in step with the settings.                                     *)

FileTyped ==
    /\ pc \in {"off", "save", "opened", "run"} /\ cfg \in Configs
    /\ changes \in 0 .. MaxChanges
    /\ must \in BOOLEAN /\ failed \in BOOLEAN /\ whole \in BOOLEAN

\* Whatever lies there can be started from, or does not parse.
Parses == file.state # "garbled" => Understood(file) \in Configs

\* Between opening and writing, and after a save that did not end, the file is part
\* of what it was to hold.
Opened == pc = "opened" => ~whole /\ meant = cfg
CutOff == ~whole => meant \in Configs /\ Part(file, meant)

InStep == pc = "run" /\ whole /\ ~failed => ~isV1Format(file) /\ Decoded(file) = cfg

FileInv == FileTyped /\ Parses /\ Opened /\ CutOff /\ InStep

\* Every request changes settings into settings, and saves them.
LEMMA RequestSaves ==
    ASSUME FileTyped,
           \/ SetKey
           \/ \E id \in 1 .. MaxEntries : AddServer(id)
           \/ \E n \in DOMAIN cfg.servers :
                 RemoveServer(n) \/ ChangeServer(n) \/ ToggleServer(n)
    PROVE  Changing /\ \E c \in Configs : SaveBegins(c, FALSE)
<1>1. /\ cfg \in Configs
      /\ cfg = [key |-> cfg.key, servers |-> cfg.servers] /\ cfg.key \in {0, 1}
      /\ cfg.servers \in Seq(Fine) /\ Len(cfg.servers) \in 0 .. MaxEntries
      /\ DOMAIN cfg.servers = 1 .. Len(cfg.servers)
  BY PartsOfConfig DEF FileTyped
<1>2. Changing
  BY DEF SetKey, AddServer, RemoveServer, ChangeServer, ToggleServer
<1>3. ASSUME NEW q \in Seq(Fine), Len(q) <= MaxEntries
      PROVE  [cfg EXCEPT !.servers = q] \in Configs
  <2>1. [cfg EXCEPT !.servers = q] = [key |-> cfg.key, servers |-> q]
    BY <1>1
  <2>2. [key |-> cfg.key, servers |-> q] \in Configs
    BY <1>1, <1>3, ConfigsAre
  <2> QED
    BY <2>1, <2>2
<1>4. CASE SetKey
  <2>1. [cfg EXCEPT !.key = 1] = [key |-> 1, servers |-> cfg.servers]
    BY <1>1
  <2>2. [key |-> 1, servers |-> cfg.servers] \in Configs
    BY <1>1, ConfigsAre
  <2> QED
    BY <1>2, <1>4, <2>1, <2>2 DEF SetKey
<1>5. ASSUME NEW id \in 1 .. MaxEntries, AddServer(id)
      PROVE  \E c \in Configs : SaveBegins(c, FALSE)
  <2> DEFINE q == Append(cfg.servers, DefaultServerConfig(id))
  <2>1. DefaultServerConfig(id) \in Fine
    BY FineAre
  <2>2. Len(cfg.servers) < MaxEntries /\ SaveBegins([cfg EXCEPT !.servers = q], FALSE)
    BY <1>5 DEF AddServer
  <2>3. q \in Seq(Fine) /\ Len(q) = Len(cfg.servers) + 1
    BY <1>1, <2>1
  <2>4. Len(q) <= MaxEntries
    BY <1>1, <2>2, <2>3, NumbersAre
  <2> HIDE DEF q
  <2> QED
    BY <1>3, <2>2, <2>3, <2>4
<1>6. ASSUME NEW n \in DOMAIN cfg.servers, RemoveServer(n)
      PROVE  \E c \in Configs : SaveBegins(c, FALSE)
  <2> DEFINE q == SubSeq(cfg.servers, 1, n - 1) \o SubSeq(cfg.servers, n + 1, Len(cfg.servers))
  <2>1. SaveBegins([cfg EXCEPT !.servers = q], FALSE)
    BY <1>6 DEF RemoveServer, RemoveAt
  <2>2. n \in 1 .. Len(cfg.servers) /\ Len(cfg.servers) \in Nat
    BY <1>1
  <2>3. /\ SubSeq(cfg.servers, 1, n - 1) \in Seq(Fine)
        /\ Len(SubSeq(cfg.servers, 1, n - 1)) = n - 1
        /\ SubSeq(cfg.servers, n + 1, Len(cfg.servers)) \in Seq(Fine)
        /\ Len(SubSeq(cfg.servers, n + 1, Len(cfg.servers))) = Len(cfg.servers) - n
    BY <1>1, <2>2
  <2>4. q \in Seq(Fine) /\ Len(q) = Len(cfg.servers) - 1
    <3> DEFINE a == SubSeq(cfg.servers, 1, n - 1)
               b == SubSeq(cfg.servers, n + 1, Len(cfg.servers))
    <3>1. a \in Seq(Fine) /\ b \in Seq(Fine) /\ Len(a) = n - 1 /\ Len(b) = Len(cfg.servers) - n
      BY <2>3
    <3> HIDE DEF a, b
    <3>2. a \o b \in Seq(Fine) /\ Len(a \o b) = Len(a) + Len(b)
      BY <3>1
    <3>3. (n - 1) + (Len(cfg.servers) - n) = Len(cfg.servers) - 1
      BY <2>2
    <3> QED
      BY <3>1, <3>2, <3>3 DEF a, b
  <2>5. Len(q) <= MaxEntries
    BY <1>1, <2>4, NumbersAre
  <2> HIDE DEF q
  <2> QED
    BY <1>3, <2>1, <2>4, <2>5
<1>7. {"max-ships", "filters", "tracking-enabled", "spawn-enabled"} \subseteq Keys \ {"enabled"}
  BY KeysAre
<1>8. ASSUME NEW n \in DOMAIN cfg.servers, ChangeServer(n)
      PROVE  \E c \in Configs : SaveBegins(c, FALSE)
  <2>1. ShipLimits \subseteq Numbers /\ Filters \subseteq Numbers
    BY NumbersAre DEF ShipLimits, Filters
  <2>2. PICK v \in Numbers :
            \/ SaveBegins([cfg EXCEPT !.servers[n]["max-ships"] = v], FALSE)
            \/ SaveBegins([cfg EXCEPT !.servers[n]["filters"] = v], FALSE)
    BY <1>8, <2>1 DEF ChangeServer
  <2> QED
    BY <1>1, <1>7, <2>2, ChangedStaysFine
<1>9. ASSUME NEW n \in DOMAIN cfg.servers, ToggleServer(n)
      PROVE  \E c \in Configs : SaveBegins(c, FALSE)
  <2>1. PICK t \in {0, 1}, s \in {0, 1} :
            SaveBegins([cfg EXCEPT !.servers[n]["tracking-enabled"] = t,
                                    !.servers[n]["spawn-enabled"] = s], FALSE)
    BY <1>9 DEF ToggleServer
  <2>2. t \in Numbers /\ s \in Numbers
    BY NumbersAre
  <2> QED
    BY <1>1, <1>7, <2>1, <2>2, ChangedStaysFine
<1> QED
  BY <1>2, <1>4, <1>5, <1>6, <1>8, <1>9

\* Load runs with what the file means, and saves it again unless it says just that.
LEMMA LoadUnderstands ==
    ASSUME Load
    PROVE  /\ pc = "off" /\ file.state # "garbled" /\ cfg' = Understood(file)
           /\ UNCHANGED <<file, whole, meant, changes>>
           /\ \/ pc' = "save" /\ must' \in BOOLEAN /\ failed' = failed
              \/ /\ pc' = "run" /\ must' = must /\ failed' = FALSE
                 /\ ~isV1Format(file) /\ Decoded(file) = cfg'
<1>1. pc = "off" /\ file.state # "garbled" /\ changes' = changes
      /\ (LoadNone \/ LoadV1 \/ LoadServers)
  BY DEF Load
<1>2. CASE LoadNone
  BY <1>1, <1>2 DEF LoadNone, SaveBegins, Understood
<1>3. CASE LoadV1
  <2>1. ~isV1Format(Absent)
    BY DEF isV1Format, Absent, File, NoLines, Has
  <2> QED
    BY <1>1, <1>3, <2>1 DEF LoadV1, SaveBegins, Understood
<1>4. CASE LoadServers
  BY <1>1, <1>4 DEF LoadServers, SaveBegins, Runs, Migrated, Understood
<1> QED
  BY <1>1, <1>2, <1>3, <1>4

LEMMA FileInitially ==
    ASSUME FileInit
    PROVE  FileInv
<1>1. cfg \in Configs
  <2>1. <<>> \in Seq(Fine) /\ Len(<<>>) <= MaxEntries
    BY NumbersAre
  <2>2. [key |-> 0, servers |-> <<>>] \in Configs
    BY <2>1, ConfigsAre
  <2> QED
    BY <2>2 DEF FileInit, defaults
<1>2. FileTyped
  <2>1. 0 \in 0 .. MaxChanges
    BY ConfigFileAssumption
  <2> QED
    BY <1>1, <2>1 DEF FileInit, FileTyped
<1>3. Understood(file) \in Configs
  BY OldIsUnderstood, ConfigFileAssumption DEF FileInit
<1> QED
  BY <1>2, <1>3 DEF FileInv, FileInit, Parses, Opened, CutOff, InStep

\* No step makes the file mean something else than it is to say.
LEMMA FileStep ==
    ASSUME FileInv, [FileNext]_(fileVars)
    PROVE  FileInv'
<1> USE DEF FileInv
<1>1. CASE Load
  <2>1. cfg' \in Configs
    BY <1>1, LoadUnderstands DEF Parses
  <2>2. FileTyped'
    BY <1>1, <2>1, LoadUnderstands DEF FileTyped
  <2>3. Parses' /\ CutOff'
    BY <1>1, LoadUnderstands DEF Parses, CutOff
  <2>4. Opened' /\ InStep'
    BY <1>1, LoadUnderstands DEF Opened, InStep
  <2> QED
    BY <2>2, <2>3, <2>4
<1>2. ASSUME Changing, NEW c \in Configs, SaveBegins(c, FALSE)
      PROVE  FileInv'
  <2>1. /\ changes < MaxChanges /\ changes' = changes + 1 /\ pc' = "save" /\ must' = FALSE
        /\ cfg' = c /\ UNCHANGED <<file, failed, whole, meant>>
    BY <1>2 DEF Changing, SaveBegins
  <2>2. changes' \in 0 .. MaxChanges
    BY <2>1, ConfigFileAssumption DEF FileTyped
  <2>3. FileTyped'
    BY <2>1, <2>2 DEF FileTyped
  <2>4. Parses' /\ Opened' /\ CutOff' /\ InStep'
    BY <2>1 DEF Parses, Opened, CutOff, InStep
  <2> QED
    BY <2>3, <2>4
<1>3. CASE SaveOpens
  <2>1. file' = Empty /\ meant' = cfg /\ cfg' = cfg /\ whole' = FALSE /\ pc' = "opened"
        /\ UNCHANGED <<must, changes, failed>>
    BY <1>3 DEF SaveOpens
  <2>2. cfg \in Configs
    BY DEF FileTyped
  <2>3. Part(Empty, cfg)
    BY <2>2, EmptyIsPart
  <2>4. Understood(Empty) \in Configs
    BY <2>2, <2>3, PartLoads
  <2> QED
    BY <2>1, <2>2, <2>3, <2>4 DEF FileTyped, Parses, Opened, CutOff, InStep
<1>4. CASE SaveWrites
  <2>1. file' = Marshal(cfg) /\ cfg' = cfg /\ whole' = TRUE /\ failed' = FALSE
        /\ pc' = "run" /\ UNCHANGED <<must, changes>>
    BY <1>4 DEF SaveWrites
  <2>2. cfg \in Configs
    BY DEF FileTyped
  <2>3. /\ Decoded(Marshal(cfg)) = cfg /\ ~isV1Format(Marshal(cfg))
        /\ Understood(Marshal(cfg)) \in Configs
    BY <2>2, WrittenIsRead, PartLoads
  <2> QED
    BY <2>1, <2>2, <2>3 DEF FileTyped, Parses, Opened, CutOff, InStep
<1>5. CASE SaveFails \/ Crash
  <2>1. /\ \/ file' = file /\ pc # "opened"
           \/ pc = "opened" /\ file' \in Cut
        /\ pc' \in {"off", "run"} /\ (pc' = "run" => failed' = TRUE) /\ failed' \in {failed, TRUE}
        /\ UNCHANGED <<cfg, must, changes, whole, meant>>
    BY <1>5 DEF SaveFails, Crash
  <2>2. cfg \in Configs
    BY DEF FileTyped
  <2>3. ASSUME pc = "opened" /\ file' \in Cut
        PROVE  Part(file', cfg) /\ Understood(file') \in Configs
    BY <2>2, <2>3, CutIsPart, PartLoads
  <2>4. FileTyped' /\ Opened' /\ InStep'
    BY <2>1 DEF FileTyped, Opened, InStep
  <2>5. Parses' /\ CutOff'
    BY <2>1, <2>2, <2>3 DEF Parses, CutOff, Opened
  <2> QED
    BY <2>4, <2>5
<1>6. CASE UNCHANGED fileVars
  BY <1>6 DEF fileVars, FileTyped, Parses, Opened, CutOff, InStep
<1> QED
  BY <1>1, <1>2, <1>3, <1>4, <1>5, <1>6, RequestSaves DEF FileNext

\* FileInv is an inductive invariant of the file, its forms, saves and failures.
\* (Load, the migrations, save)
THEOREM FileInvariance == FileSpec => []FileInv
<1>1. FileInit => FileInv
  BY FileInitially
<1>2. FileInv /\ [FileNext]_(fileVars) => FileInv'
  BY FileStep
<1> QED
  BY <1>1, <1>2, PTL DEF FileSpec

\* The file of a program that runs is in a form that means what it runs with,
\* whatever form an earlier version left it in, however many saves ended early or
\* failed before, and however often the program died in one.  (Load, the
\* migrations, Save)
THEOREM FileStaysCurrent == FileSpec => []FileIsCurrent
<1>1. FileInv => FileIsCurrent
  <2> SUFFICES ASSUME FileInv
               PROVE  FileIsCurrent
    OBVIOUS
  <2>1. cfg \in Configs
    BY DEF FileInv, FileTyped
  <2>2. /\ cfg.key \in {0, 1} /\ Len(cfg.servers) <= MaxEntries
        /\ \A n \in DOMAIN cfg.servers :
              cfg.servers[n] \in Server /\ cfg.servers[n]["enabled"] = 0
    <3>1. cfg.key \in {0, 1} /\ Len(cfg.servers) \in 0 .. MaxEntries
          /\ \A n \in DOMAIN cfg.servers : cfg.servers[n] \in Fine
      BY <2>1, PartsOfConfig
    <3>2. \A i \in 0 .. MaxEntries : i <= MaxEntries
      BY NumbersAre
    <3>3. \A s \in Fine : s \in Server /\ s["enabled"] = 0
      BY DEF Fine
    <3> QED
      BY <3>1, <3>2, <3>3
  <2>3. ConfigTypeOK
    BY <2>2 DEF ConfigTypeOK, FileInv, FileTyped
  <2> QED
    BY <2>3 DEF FileIsCurrent, FileInv, InStep
<1> QED
  BY <1>1, FileInvariance, PTL

\* What the file was last made to say is what is read of it.
Meant == whole /\ file.state # "garbled" => Understood(file) = meant

LEMMA MeantStep ==
    ASSUME FileInv, Meant, [FileNext]_(fileVars)
    PROVE  Meant'
<1>1. CASE Load
  BY <1>1, LoadUnderstands DEF Meant
<1>2. ASSUME NEW c \in Configs, SaveBegins(c, FALSE)
      PROVE  Meant'
  BY <1>2 DEF SaveBegins, Meant
<1>3. CASE SaveOpens
  BY <1>3 DEF SaveOpens, Meant
<1>4. CASE SaveWrites
  <2>1. file' = Marshal(cfg) /\ meant' = meant /\ meant = cfg /\ cfg \in Configs
    BY <1>4 DEF SaveWrites, FileInv, FileTyped, Opened
  <2>2. Understood(Marshal(cfg)) = cfg
    BY <2>1, WrittenIsRead, PartLoads
  <2> QED
    BY <2>1, <2>2 DEF Meant
<1>5. CASE SaveFails \/ Crash
  <2>1. UNCHANGED <<whole, meant>> /\ (file' = file \/ pc = "opened")
    BY <1>5 DEF SaveFails, Crash
  <2>2. pc = "opened" => ~whole
    BY DEF FileInv, Opened
  <2> QED
    BY <2>1, <2>2 DEF Meant
<1>6. CASE UNCHANGED fileVars
  BY <1>6 DEF fileVars, Meant
<1> QED
  BY <1>1, <1>2, <1>3, <1>4, <1>5, <1>6, RequestSaves DEF FileNext, FileInv

\* Only Load starts the program.
LEMMA OnlyLoadStarts ==
    ASSUME FileInv, [FileNext]_(fileVars), Starts
    PROVE  Load
<1>1. pc = "off" /\ pc' # "off"
  BY DEF Starts
<1> QED
  BY <1>1, RequestSaves DEF FileNext, fileVars, SaveOpens, SaveWrites,
     SaveFails, Crash, Changing, FileInv

\* The program starts with what the file was last made to say, in whatever form and
\* after however many starts and saves that came to nothing; when the file was cut,
\* with some of that and with nothing else.  What an old file means is what the
\* migrations make of it.  (Load, the migrations, Save)
THEOREM StartsMeant ==
    ASSUME \A o \in OldFiles : Understood(o.file) = o.means
    PROVE  FileSpec => StartsAsMeant
<1> DEFINE Started ==
        Starts =>
            IF whole THEN cfg' = meant
            ELSE \A n \in DOMAIN cfg'.servers :
                    /\ n \in DOMAIN meant.servers
                    /\ \A k \in Keys : cfg'.servers[n][k] \in {0, meant.servers[n][k]}
<1>1. FileInit => Meant
  BY DEF FileInit, Meant
<1>2. FileInv /\ Meant /\ [FileNext]_(fileVars) => Meant'
  BY MeantStep
<1>3. FileInv /\ Meant /\ [FileNext]_(fileVars) => [Started]_(fileVars)
  <2> SUFFICES ASSUME FileInv, Meant, [FileNext]_(fileVars), Starts
               PROVE  Started
    BY DEF Started
  <2>1. cfg' = Understood(file) /\ file.state # "garbled"
    BY OnlyLoadStarts, LoadUnderstands
  <2>2. whole => cfg' = meant
    BY <2>1 DEF Meant
  <2>3. CASE ~whole
    <3>1. meant \in Configs /\ Part(file, meant)
      BY <2>3 DEF FileInv, CutOff
    <3>2. cfg' = Decoded(file)
      BY <2>1, <3>1, PartLoads
    <3>3. \A n \in DOMAIN cfg'.servers :
              /\ n \in DOMAIN meant.servers
              /\ \A k \in Keys : cfg'.servers[n][k] \in {0, meant.servers[n][k]}
      BY <3>1, <3>2, PartLoads
    <3> QED
      BY <2>3, <3>3
  <2> QED
    BY <2>2, <2>3
<1>4. FileSpec => [][Started]_(fileVars)
  BY <1>1, <1>2, <1>3, FileInvariance, PTL DEF FileSpec
<1> QED
  BY <1>4 DEF StartsAsMeant
=============================================================================
