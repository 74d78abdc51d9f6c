--------------------------- MODULE ShipCacheProofs ---------------------------
(***************************************************************************)
(* Proofs about the cache of ship metadata, for any vessels and fields.    *)
(*                                                                         *)
(* That whatever the file lacks is flagged or was learned during a save    *)
(* is not inductive: a save that is under way has to be described at each  *)
(* of its steps.  As long as nobody stops the program the loop is the only *)
(* saver, which is what makes that possible (LoopSaves).                   *)
(***************************************************************************)
EXTENDS ShipCache, TLAPS

\* The data, up to what was learned since the copy was taken, is t.
Holds(t) == \A m \in MMSI : data[m] = t[m] \/ m \in late

\* The loop's save, step by step.
LoopSaves ==
    (running /\ ~stopping) =>
        /\ at["loop"] \in {"waiting", "copied", "opened", "written"}
        /\ (at["loop"] = "waiting" /\ ~dirty) => Holds(file.table)
        /\ at["loop"] # "waiting" => dirty /\ Holds(copy["loop"])
        /\ at["loop"] = "opened" => file.torn
        /\ at["loop"] = "written" => file = Whole(copy["loop"])

\* Neither the file nor a copy knows what the cache does not, and a copy that is
\* about to replace the file knows all that is in it.
CopiesAreOld ==
    running =>
        /\ Within(file.table, data)
        /\ \A s \in Savers : Saving(s) => Within(copy[s], data)
        /\ (~stopping /\ at["loop"] = "copied") =>
               Within(file.table, copy["loop"])

CacheInv == CacheTypeOK /\ LoopSaves /\ CopiesAreOld

------------------------------------------------------------------------------
\* An empty table knows nothing.
LEMMA EmptyKnowsNothing == \A t : Within(Empty, t)
BY DEF Within, Empty

\* Merging an update into a table forgets nothing.
LEMMA MergeLearns ==
    ASSUME NEW t \in Table, NEW m \in MMSI, NEW u \in Meta
    PROVE  /\ [t EXCEPT ![m] = Merged(@, u)] \in Table
           /\ Within(t, [t EXCEPT ![m] = Merged(@, u)])
<1>1. Merged(t[m], u) \in Meta
  BY DEF Merged, Meta, Table
<1>2. \A f \in Fields : t[m][f] # Unknown => Merged(t[m], u)[f] # Unknown
  BY DEF Merged
<1> DEFINE new == [t EXCEPT ![m] = Merged(@, u)]
<1>3. new \in Table /\ \A k \in MMSI : new[k] = IF k = m THEN Merged(t[m], u) ELSE t[k]
  BY <1>1 DEF Table
<1> HIDE DEF new
<1>4. Within(t, new)
  BY <1>2, <1>3 DEF Within
<1> QED
  BY <1>3, <1>4 DEF new

LEMMA CacheInit == Init => CacheInv
<1> SUFFICES ASSUME Init PROVE CacheInv
  OBVIOUS
<1> USE DEF Init
<1>1. Empty \in Table
  BY DEF Empty, Table, Meta
<1>2. file \in File /\ ~file.torn
  BY <1>1 DEF File, Whole
<1>3. CacheTypeOK
  BY <1>1, <1>2 DEF CacheTypeOK, Asleep, Savers
<1>4. LoopSaves /\ CopiesAreOld
  BY DEF LoopSaves, CopiesAreOld
<1> QED
  BY <1>3, <1>4 DEF CacheInv

LEMMA NewKeeps == CacheInv /\ New => CacheInv'
<1> SUFFICES ASSUME CacheInv, New PROVE CacheInv'
  OBVIOUS
<1> USE DEF CacheInv, New
<1>1. Empty \in Table
  BY DEF Empty, Table, Meta
<1>2. CacheTypeOK'
  BY <1>1 DEF CacheTypeOK, Asleep, Savers, File
<1>3. LoopSaves'
  BY DEF LoopSaves, Holds, Asleep, Savers
<1>4. CopiesAreOld'
  BY DEF CopiesAreOld, Asleep, Savers, Saving, Within
<1> QED
  BY <1>2, <1>3, <1>4

LEMMA UpdateKeeps ==
    ASSUME CacheInv, NEW m \in MMSI, NEW u \in Meta, Update(m, u)
    PROVE  CacheInv'
<1> USE DEF CacheInv, Update
<1>1. data' \in Table /\ Within(data, data')
  BY MergeLearns DEF CacheTypeOK
<1>2. CacheTypeOK'
  BY <1>1 DEF CacheTypeOK, Dirtied
<1>3. ASSUME ~NoneSaving, NEW t, Holds(t) PROVE Holds(t)'
  BY <1>3 DEF Holds, CacheTypeOK, Table
<1>4. LoopSaves'
  BY <1>3 DEF LoopSaves, Dirtied, NoneSaving, Saving, Savers, Holds
<1>5. CopiesAreOld'
  <2>1. ASSUME NEW t, Within(t, data) PROVE Within(t, data')
    BY <1>1, <2>1 DEF Within
  <2> QED
    BY <1>1, <2>1 DEF CopiesAreOld, Saving, Within
<1> QED
  BY <1>2, <1>4, <1>5

LEMMA SaveKeeps ==
    ASSUME CacheInv, NEW s \in Savers, Save(s)
    PROVE  CacheInv'
<1> USE DEF CacheInv
<1>1. ~stopping => s = "loop"
  BY DEF CacheTypeOK, Save, SaveCopies, SaveOpens, SaveWrites, SaveFails, SaveClears, Clears, Savers
<1>2. CASE SaveCopies(s)
  <2> USE <1>2 DEF SaveCopies
  <2>1. CacheTypeOK'
    BY <1>1 DEF CacheTypeOK, Savers
  <2>2. LoopSaves'
    BY <1>1 DEF LoopSaves, CacheTypeOK, Holds, Savers
  <2>3. CopiesAreOld'
    BY <1>1 DEF CopiesAreOld, CacheTypeOK, Saving, Within, Savers
  <2> QED
    BY <2>1, <2>2, <2>3
<1>3. CASE SaveOpens(s)
  <2> USE <1>3 DEF SaveOpens
  <2>1. CacheTypeOK'
    BY <1>1 DEF CacheTypeOK, Savers, Torn, File, Empty, Table, Meta
  <2>2. LoopSaves'
    BY <1>1 DEF LoopSaves, CacheTypeOK, Holds, Savers, Torn
  <2>3. \A t : Within(file'.table, t)
    BY EmptyKnowsNothing DEF Torn
  <2>4. CopiesAreOld'
    BY <1>1, <2>3 DEF CopiesAreOld, CacheTypeOK, Saving, Within, Savers
  <2> QED
    BY <2>1, <2>2, <2>4
<1>4. CASE SaveWrites(s)
  <2> USE <1>4 DEF SaveWrites
  <2>1. Empty \in Table
    BY DEF Empty, Table, Meta
  <2>2. file' \in File /\ (file'.torn => file'.table = Empty)
    <3>1. Torn \in File /\ Torn.table = Empty
      BY <2>1 DEF Torn, File
    <3>2. Whole(copy[s]) \in File /\ ~Whole(copy[s]).torn
      BY DEF CacheTypeOK, Whole, File
    <3> QED
      BY <3>1, <3>2
  <2>3. CacheTypeOK'
    BY <1>1, <2>2 DEF CacheTypeOK, Savers
  <2>4. (running /\ ~stopping) => file' = Whole(copy[s])
    BY <1>1 DEF LoopSaves
  <2>5. LoopSaves'
    BY <1>1, <2>4 DEF LoopSaves, CacheTypeOK, Holds, Savers, Whole
  <2>6. (\A t : Within(file'.table, t)) \/ file'.table = copy[s]
    BY EmptyKnowsNothing DEF Torn, Whole
  <2>7. CopiesAreOld'
    BY <1>1, <2>6 DEF CopiesAreOld, CacheTypeOK, Saving, Within, Savers
  <2> QED
    BY <2>3, <2>5, <2>7
<1>5. CASE SaveFails(s)
  <2> USE <1>5 DEF SaveFails, Done
  <2>1. CacheTypeOK'
    BY <1>1 DEF CacheTypeOK, Savers
  <2>2. LoopSaves'
    BY <1>1 DEF LoopSaves, CacheTypeOK, Holds, Savers
  <2>3. CopiesAreOld'
    BY <1>1 DEF CopiesAreOld, CacheTypeOK, Saving, Within, Savers
  <2> QED
    BY <2>1, <2>2, <2>3
<1>6. CASE SaveClears(s)
  <2> USE <1>6 DEF SaveClears, Clears, Done
  <2>1. CacheTypeOK'
    BY <1>1 DEF CacheTypeOK, Savers
  <2>2. LoopSaves'
    BY <1>1 DEF LoopSaves, CacheTypeOK, Holds, Savers, Whole
  <2>3. CopiesAreOld'
    BY <1>1 DEF CopiesAreOld, CacheTypeOK, Saving, Within, Savers
  <2> QED
    BY <2>1, <2>2, <2>3
<1> QED
  BY <1>2, <1>3, <1>4, <1>5, <1>6 DEF Save

LEMMA EndingKeeps ==
    ASSUME CacheInv, SaveSkips \/ Stop \/ LoopEnds \/ Ends \/ UNCHANGED vars
    PROVE  CacheInv'
<1> USE DEF CacheInv
<1>1. CASE SaveSkips
  BY <1>1 DEF SaveSkips, Done, CacheTypeOK, LoopSaves, CopiesAreOld, Saving, Within, Holds, Savers
<1>2. CASE Stop
  BY <1>2 DEF Stop, CacheTypeOK, LoopSaves, CopiesAreOld, Saving, Within, Holds, Savers
<1>3. CASE LoopEnds
  BY <1>3 DEF LoopEnds, CacheTypeOK, LoopSaves, CopiesAreOld, Saving, Within, Holds, Savers
<1>4. CASE Ends
  BY <1>4 DEF Ends, CacheTypeOK, LoopSaves, CopiesAreOld
<1>5. CASE UNCHANGED vars
  BY <1>5 DEF vars, CacheTypeOK, LoopSaves, CopiesAreOld, Saving, Within, Holds
<1> QED
  BY <1>1, <1>2, <1>3, <1>4, <1>5

\* No step forgets: an update merges, and a save replaces the file by a copy that
\* knows all that was in it.
LEMMA StepLearns ==
    ASSUME CacheInv, Next \/ UNCHANGED vars
    PROVE  Learns
<1>1. CASE \E m \in MMSI, u \in Meta : Update(m, u)
  <2> PICK m \in MMSI, u \in Meta : Update(m, u)
    BY <1>1
  <2> QED
    BY MergeLearns DEF Update, Learns, CacheInv, CacheTypeOK
<1>2. CASE \E s \in Savers : Save(s)
  <2> PICK s \in Savers : Save(s)
    BY <1>2
  <2>1. data' = data
    BY DEF Save, SaveCopies, SaveOpens, SaveWrites, SaveFails, SaveClears
  <2>2. ~stopping /\ file' # file => s = "loop" /\ (SaveOpens(s) \/ SaveWrites(s))
    BY DEF Save, SaveCopies, SaveOpens, SaveWrites, SaveFails, SaveClears, CacheInv, CacheTypeOK, Savers
  <2>3. ASSUME running, ~stopping, file' # file PROVE Within(file.table, copy["loop"])
    BY <2>2, <2>3, EmptyKnowsNothing DEF SaveOpens, SaveWrites, CacheInv, CacheTypeOK, LoopSaves, CopiesAreOld
  <2> QED
    BY <2>1, <2>3 DEF Learns, Within
<1>3. CASE New \/ SaveSkips \/ Stop \/ LoopEnds \/ Ends \/ UNCHANGED vars
  BY <1>3 DEF New, SaveSkips, Stop, LoopEnds, Ends, vars, Learns, Within
<1> QED
  BY <1>1, <1>2, <1>3 DEF Next

------------------------------------------------------------------------------
\* The invariant holds throughout, for any vessels, fields and failures.
THEOREM CacheInvariance == Spec => []CacheInv
<1>1. CacheInv /\ [Next]_vars => CacheInv'
  BY NewKeeps, UpdateKeeps, SaveKeeps, EndingKeeps DEF Next
<1> QED
  BY CacheInit, <1>1, PTL DEF Spec

\* While nothing is being saved, what the file lacks will be saved, or was learned
\* during a save.  (Update, save)
THEOREM UnsavedFlagged == Spec => []UnsavedIsFlagged
<1>1. CacheInv => UnsavedIsFlagged
  BY DEF CacheInv, LoopSaves, Holds, UnsavedIsFlagged, NoneSaving, Saving, Savers
<1> QED
  BY CacheInvariance, <1>1, PTL

\* What is known is not forgotten, in memory or on disk.  (Update, save, load)
THEOREM CacheLearns == Spec => OnlyLearns
<1>1. CacheInv /\ [Next]_vars => [Learns]_vars
  BY StepLearns
<1> QED
  BY CacheInvariance, <1>1, PTL DEF Spec, OnlyLearns
=============================================================================
