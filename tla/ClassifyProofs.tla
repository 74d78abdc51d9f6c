---------------------------- MODULE ClassifyProofs ----------------------------
(***************************************************************************)
(* Proofs about the classification of a vessel and the choice of its       *)
(* model, for any types and lengths, servers, installations and filters.   *)
(*                                                                         *)
(* The cache is an instance of ShipCache, and what ShipCacheProofs proves  *)
(* of that for any vessels and fields is used here for the one vessel and  *)
(* its two fields (Proved).                                                *)
(***************************************************************************)
EXTENDS Classify, TLAPS

Proved == INSTANCE ShipCacheProofs WITH MMSI <- {Vessel}, Fields <- {"type", "length"},
                                        Values <- (Types \cup Lengths) \ {0}, Unknown <- 0

------------------------------------------------------------------------------
(* The tables of models.                                                   *)

\* A bracket has a bound and offers models.
Offers(b) == b.over \in Int /\ Head(b.models) \in ToSet(b.models)

\* Of the brackets of B that a length reaches, one is the highest.
HasHighest(B, l) ==
    /\ \A b \in B : Offers(b)
    /\ \E b \in {d \in B : Reaches(l, d)} : \A c \in {d \in B : Reaches(l, d)} : c.over <= b.over

\* Every bracket of the tables offers its first model.
LEMMA BracketOffers ==
    \A n \in Int :
        /\ \A x : Offers(Bracket(n, <<x>>))
        /\ \A x, y : Offers(Bracket(n, <<x, y>>))
        /\ \A x, y, z : Offers(Bracket(n, <<x, y, z>>))
        /\ \A v, w, x, y, z : Offers(Bracket(n, <<v, w, x, y, z>>))
<1>1. \A n, ms : Bracket(n, ms).over = n /\ Bracket(n, ms).models = ms
  BY DEF Bracket
<1>2. \A x : Head(<<x>>) \in ToSet(<<x>>)
  BY DEF ToSet
<1>3. \A x, y : Head(<<x, y>>) \in ToSet(<<x, y>>)
  BY DEF ToSet
<1>4. \A x, y, z : Head(<<x, y, z>>) \in ToSet(<<x, y, z>>)
  BY DEF ToSet
<1>5. \A v, w, x, y, z : Head(<<v, w, x, y, z>>) \in ToSet(<<v, w, x, y, z>>)
  BY DEF ToSet
<1> QED
  BY <1>1, <1>2, <1>3, <1>4, <1>5 DEF Offers

\* The bracket of no known length is reached by every length.
LEMMA FirstBracket ==
    ASSUME NEW l \in Nat, NEW b, Offers(b), b.over = -1
    PROVE  HasHighest({b}, l)
BY DEF HasHighest, Reaches, Offers

\* With one more bracket there is still a highest one that is reached.
LEMMA AnotherBracket ==
    ASSUME NEW l \in Nat, NEW B, HasHighest(B, l), NEW b, Offers(b)
    PROVE  HasHighest({b} \cup B, l)
<1> DEFINE reached(S) == {c \in S : Reaches(l, c)}
<1>1. PICK m \in reached(B) : \A c \in reached(B) : c.over <= m.over
  BY DEF HasHighest
<1>2. \A c \in {b} \cup B : Offers(c)
  BY DEF HasHighest
<1>3. CASE Reaches(l, b) /\ b.over > m.over
  BY <1>1, <1>2, <1>3 DEF HasHighest, Offers
<1>4. CASE ~Reaches(l, b) \/ b.over <= m.over
  BY <1>1, <1>2, <1>4 DEF HasHighest, Offers
<1> QED
  BY <1>1, <1>2, <1>3, <1>4 DEF Offers

\* That bracket may offer one to five models.
LEMMA SizedBracket ==
    ASSUME NEW l \in Nat, NEW B, HasHighest(B, l), NEW n \in Int
    PROVE  /\ \A x : HasHighest({Bracket(n, <<x>>)} \cup B, l)
           /\ \A x, y : HasHighest({Bracket(n, <<x, y>>)} \cup B, l)
           /\ \A x, y, z : HasHighest({Bracket(n, <<x, y, z>>)} \cup B, l)
           /\ \A v, w, x, y, z : HasHighest({Bracket(n, <<v, w, x, y, z>>)} \cup B, l)
<1> HIDE DEF HasHighest
<1> QED
  BY BracketOffers, AnotherBracket

\* The tables begin with a bracket of two or three models.
LEMMA UnsizedBracket ==
    ASSUME NEW l \in Nat
    PROVE  /\ \A x, y : HasHighest({Unsized(<<x, y>>)}, l)
           /\ \A x, y, z : HasHighest({Unsized(<<x, y, z>>)}, l)
<1>1. \A ms : Bracket(-1, ms).over = -1
  BY DEF Bracket
<1> QED
  BY <1>1, BracketOffers, FirstBracket DEF Unsized

\* Every category's table, bracket by bracket.
LEMMA TheBrackets ==
    ASSUME NEW c \in Categories, NEW l \in Nat
    PROVE  HasHighest(Brackets[c], l)
<1>1. HasHighest(Brackets["fishing"], l)
  <2> DEFINE B1 == {Unsized(<<"fishing_vessel", "trawler_ship", "diesel_trawler">>)}
             B2 == {Bracket(0, <<"diesel_trawler">>)} \cup B1
             B3 == {Bracket(44, <<"fishing_vessel">>)} \cup B2
             B4 == {Bracket(57, <<"trawler_ship">>)} \cup B3
  <2>1. HasHighest(B1, l)
    BY UnsizedBracket
  <2>2. HasHighest(B2, l)
    BY <2>1, SizedBracket
  <2>3. HasHighest(B3, l)
    BY <2>2, SizedBracket
  <2>4. HasHighest(B4, l)
    BY <2>3, SizedBracket
  <2>5. Brackets["fishing"] = B4
    BY DEF Brackets
  <2> HIDE DEF B1, B2, B3, B4
  <2> QED
    BY <2>4, <2>5
<1>2. HasHighest(Brackets["tug"], l)
  <2> DEFINE B1 == {Unsized(<<"jr_more_tug", "jr_more_tug_helipad", "HarborTug">>)}
             B2 == {Bracket(0, <<"HarborTug">>)} \cup B1
             B3 == {Bracket(42, <<"jr_more_tug", "jr_more_tug_helipad">>)} \cup B2
  <2>1. HasHighest(B1, l)
    BY UnsizedBracket
  <2>2. HasHighest(B2, l)
    BY <2>1, SizedBracket
  <2>3. HasHighest(B3, l)
    BY <2>2, SizedBracket
  <2>4. Brackets["tug"] = B3
    BY DEF Brackets
  <2> HIDE DEF B1, B2, B3
  <2> QED
    BY <2>3, <2>4
<1>3. HasHighest(Brackets["pleasure"], l)
  <2> DEFINE B1 == {Unsized(Yachts)}
             B2 == {Bracket(30, <<"yacht_helipad">>)} \cup B1
  <2>1. HasHighest(B1, l)
    BY UnsizedBracket DEF Boxships, Yachts
  <2>2. HasHighest(B2, l)
    BY <2>1, SizedBracket DEF Boxships, Yachts
  <2>3. Brackets["pleasure"] = B2
    BY DEF Brackets, Boxships, Yachts
  <2> HIDE DEF B1, B2
  <2> QED
    BY <2>2, <2>3
<1>4. HasHighest(Brackets["passenger"], l)
  <2> DEFINE B1 == {Unsized(Yachts)}
             B2 == {Bracket(30, <<"yacht_helipad">>)} \cup B1
             B3 == {Bracket(82, Boxships)} \cup B2
  <2>1. HasHighest(B1, l)
    BY UnsizedBracket DEF Boxships, Yachts
  <2>2. HasHighest(B2, l)
    BY <2>1, SizedBracket DEF Boxships, Yachts
  <2>3. HasHighest(B3, l)
    BY <2>2, SizedBracket DEF Boxships, Yachts
  <2>4. Brackets["passenger"] = B3
    BY DEF Brackets, Boxships, Yachts
  <2> HIDE DEF B1, B2, B3
  <2> QED
    BY <2>3, <2>4
<1>5. HasHighest(Brackets["cargo"], l)
  <2> DEFINE B1 == {Unsized(Boxships)}
             B2 == {Bracket(0, <<"old_vessel">>)} \cup B1
             B3 == {Bracket(82, Boxships)} \cup B2
  <2>1. HasHighest(B1, l)
    BY UnsizedBracket DEF Boxships, Yachts
  <2>2. HasHighest(B2, l)
    BY <2>1, SizedBracket DEF Boxships, Yachts
  <2>3. HasHighest(B3, l)
    BY <2>2, SizedBracket DEF Boxships, Yachts
  <2>4. Brackets["cargo"] = B3
    BY DEF Brackets, Boxships, Yachts
  <2> HIDE DEF B1, B2, B3
  <2> QED
    BY <2>3, <2>4
<1>6. HasHighest(Brackets["tanker"], l)
  <2> DEFINE B1 == {Unsized(<<"ievoli_ivory", "lng_tanker">>)}
             B2 == {Bracket(0, <<"old_vessel">>)} \cup B1
             B3 == {Bracket(145, <<"ievoli_ivory">>)} \cup B2
             B4 == {Bracket(217, <<"lng_tanker">>)} \cup B3
             B5 == {Bracket(351, <<"Seawise_Giant">>)} \cup B4
  <2>1. HasHighest(B1, l)
    BY UnsizedBracket
  <2>2. HasHighest(B2, l)
    BY <2>1, SizedBracket
  <2>3. HasHighest(B3, l)
    BY <2>2, SizedBracket
  <2>4. HasHighest(B4, l)
    BY <2>3, SizedBracket
  <2>5. HasHighest(B5, l)
    BY <2>4, SizedBracket
  <2>6. Brackets["tanker"] = B5
    BY DEF Brackets
  <2> HIDE DEF B1, B2, B3, B4, B5
  <2> QED
    BY <2>5, <2>6
<1>7. HasHighest(Brackets["other"], l)
  <2> DEFINE B1 == {Unsized(<<"old_vessel", "Ship_Tilde_Supply">>)}
             B2 == {Bracket(0, <<"diesel_trawler", "HarborTug">>)} \cup B1
             B3 == {Bracket(42, <<"trawler_ship", "La_Combattante_II">>)} \cup B2
             B4 == {Bracket(68, <<"ALBATROS", "CastleClass_01">>)} \cup B3
             B5 == {Bracket(84, <<"old_vessel", "CHAP_Project22160">>)} \cup B4
             B6 == {Bracket(105, <<"akademik_cherskiy", "kimedaka_skyicher", "akademik_cherskiy_pipe_laying",
                            "leander-gun-ariadne", "BDK-775">>)} \cup B5
             B7 == {Bracket(148, <<"container_ship", "HandyWind", "Ship_Tilde_Supply">>)} \cup B6
             B8 == {Bracket(217, <<"lng_tanker">>)} \cup B7
             B9 == {Bracket(351, <<"Seawise_Giant">>)} \cup B8
  <2>1. HasHighest(B1, l)
    BY UnsizedBracket
  <2>2. HasHighest(B2, l)
    BY <2>1, SizedBracket
  <2>3. HasHighest(B3, l)
    BY <2>2, SizedBracket
  <2>4. HasHighest(B4, l)
    BY <2>3, SizedBracket
  <2>5. HasHighest(B5, l)
    BY <2>4, SizedBracket
  <2>6. HasHighest(B6, l)
    BY <2>5, SizedBracket
  <2>7. HasHighest(B7, l)
    BY <2>6, SizedBracket
  <2>8. HasHighest(B8, l)
    BY <2>7, SizedBracket
  <2>9. HasHighest(B9, l)
    BY <2>8, SizedBracket
  <2>10. Brackets["other"] = B9
    BY DEF Brackets
  <2> HIDE DEF B1, B2, B3, B4, B5, B6, B7, B8, B9
  <2> QED
    BY <2>9, <2>10
<1> QED
  BY <1>1, <1>2, <1>3, <1>4, <1>5, <1>6, <1>7 DEF Categories

\* What is suited comes from a bracket of the category.
LEMMA SuitedIsABracket ==
    ASSUME NEW c \in Categories, NEW l \in Nat
    PROVE  \E b \in Brackets[c] : Suited(c, l) = b.models /\ Offers(b)
<1> DEFINE reached == {b \in Brackets[c] : Reaches(l, b)}
<1>1. HasHighest(Brackets[c], l)
  BY TheBrackets
<1>2. \E b \in reached : \A d \in reached : d.over <= b.over
  BY <1>1 DEF HasHighest
<1>3. \A b \in reached : b \in Brackets[c] /\ Offers(b)
  BY <1>1 DEF HasHighest
<1>4. Suited(c, l) = (CHOOSE b \in reached : \A d \in reached : d.over <= b.over).models
  BY DEF Suited
<1> HIDE DEF reached
<1> QED
  BY <1>2, <1>3, <1>4

\* The models that fit a category and a length.
Fitting(c, l) == ToSet(Suited(c, l)) \cup ToSet(Fallbacks)

\* Whatever the registry knows, pick takes one of the choices or a universal model.
LEMMA PickFits ==
    ASSUME NEW r, NEW c \in Categories, NEW l \in Nat
    PROVE  pick(r, Suited(c, l)) \subseteq Fitting(c, l)
<1>1. Head(Suited(c, l)) \in ToSet(Suited(c, l))
  BY SuitedIsABracket DEF Offers
<1>2. \A i \in DOMAIN Fallbacks : Fallbacks[i] \in ToSet(Fallbacks)
  BY DEF ToSet
<1> QED
  BY <1>1, <1>2 DEF pick, Fitting

\* What fits is among the models of the tables.
LEMMA FittingAreModels ==
    ASSUME NEW c \in Categories, NEW l \in Nat
    PROVE  Fitting(c, l) \subseteq Models
<1>1. PICK b \in Brackets[c] : Suited(c, l) = b.models
  BY SuitedIsABracket
<1> QED
  BY <1>1 DEF Fitting, Models

\* ShipCategory gives a category for every code.
LEMMA CategoryTyped == \A t : ShipCategory(t) \in Categories
<1>1. DOMAIN CategoryTypes \subseteq Categories /\ "other" \in Categories
  BY DEF Categories, CategoryTypes
<1> QED
  BY <1>1 DEF ShipCategory

\* An unknown type is none of the named categories'.
LEMMA UnknownIsOther == ShipCategory(0) = "other"
<1>1. \A c \in DOMAIN CategoryTypes : 0 \notin CategoryTypes[c]
  BY DEF CategoryTypes
<1> QED
  BY <1>1 DEF ShipCategory

\* A model is never the absent one.
LEMMA ModelsAreNamed == None \notin Models
BY DEF None, Models, Fallbacks, Brackets, Boxships, Yachts, Bracket, Unsized, ToSet, Categories

\* "It won't try to spawn anything you don't have" (README.md:90): for every type and
\* length, and whatever installation is reported, some model is chosen, one that
\* fits, and one that is not installed only when nothing that fits is.
\* (dcsUnitType, pick)
THEOREM ModelIsInstalled ==
    ASSUME NEW t, NEW l \in Nat, NEW S
    PROVE  LET chosen == dcsUnitType(Report(S), t, l)
               good == Fitting(ShipCategory(t), l)
           IN  /\ chosen # {} /\ chosen \subseteq good
               /\ \A m \in chosen : m \in S \/ S \cap good = {}
<1> DEFINE c == ShipCategory(t)
           choices == Suited(c, l)
           usable == {i \in DOMAIN Fallbacks : Fallbacks[i] \in S}
           first == {i \in usable : \A j \in usable : i <= j}
<1>1. c \in Categories
  BY CategoryTyped
<1>2. \A m : isAvailable(Report(S), m) <=> m \in S
  BY DEF isAvailable, Report
<1>3. DOMAIN Fallbacks = 1..3 /\ ToSet(Fallbacks) = {Fallbacks[i] : i \in 1..3}
  BY DEF Fallbacks, ToSet
<1>4. usable # {} => first # {}
  <2>1. usable \subseteq {1, 2, 3}
    BY <1>3
  <2> HIDE DEF usable
  <2> QED
    BY <2>1
<1>5. Head(choices) \in ToSet(choices)
  BY <1>1, SuitedIsABracket DEF Offers
<1> HIDE DEF c, choices
<1>6. dcsUnitType(Report(S), t, l) =
          IF {m \in ToSet(choices) : m \in S} # {} THEN {m \in ToSet(choices) : m \in S}
          ELSE IF usable # {} THEN {Fallbacks[i] : i \in first} ELSE {Head(choices)}
  BY <1>2 DEF dcsUnitType, pick, c, choices
<1>7. Fitting(c, l) = ToSet(choices) \cup ToSet(Fallbacks)
  BY DEF Fitting, choices
<1>8. CASE {m \in ToSet(choices) : m \in S} # {}
  BY <1>6, <1>7, <1>8 DEF c
<1>9. CASE {m \in ToSet(choices) : m \in S} = {} /\ usable # {}
  BY <1>3, <1>4, <1>6, <1>7, <1>9 DEF c
<1>10. CASE {m \in ToSet(choices) : m \in S} = {} /\ usable = {}
  <2>1. \A m \in ToSet(Fallbacks) : m \notin S
    BY <1>3, <1>10
  <2> QED
    BY <1>5, <1>6, <1>7, <1>10, <2>1 DEF c
<1> QED
  BY <1>8, <1>9, <1>10

------------------------------------------------------------------------------
(* The cache: its steps here are those of ShipCacheProofs' instance.       *)

\* Its initial state.
LEMMA SameInit == Cache!Init => Proved!Init
BY DEF Cache!Init, Proved!Init, Cache!Empty, Proved!Empty, Cache!Whole, Proved!Whole,
       Cache!Asleep, Proved!Asleep, Cache!Savers, Proved!Savers

\* Its types.
LEMMA SameTypes == Proved!CacheTypeOK => Cache!CacheTypeOK
BY DEF Cache!CacheTypeOK, Proved!CacheTypeOK, Cache!Table, Proved!Table, Cache!Meta, Proved!Meta,
       Cache!File, Proved!File, Cache!Empty, Proved!Empty, Cache!Savers, Proved!Savers

\* Its promise.
LEMMA SameLearns == Proved!Learns => Cache!Learns
BY DEF Cache!Learns, Proved!Learns, Cache!Within, Proved!Within

\* Its start.
LEMMA SameNew == Cache!New => Proved!New
BY DEF Cache!New, Proved!New, Cache!Asleep, Proved!Asleep, Cache!Savers, Proved!Savers,
       Cache!Empty, Proved!Empty

\* Its updates.
LEMMA SameUpdate ==
    ASSUME NEW u, Cache!Update(Vessel, u)
    PROVE  Proved!Update(Vessel, u)
BY DEF Cache!Update, Proved!Update, Cache!Merged, Proved!Merged, Cache!Dirtied, Proved!Dirtied,
       Cache!NoneSaving, Proved!NoneSaving, Cache!Saving, Proved!Saving, Cache!Savers, Proved!Savers

\* Its saves.
LEMMA SameSave ==
    ASSUME NEW s \in Cache!Savers, Cache!Save(s)
    PROVE  s \in Proved!Savers /\ Proved!Save(s)
BY DEF Cache!Savers, Proved!Savers, Cache!Save, Proved!Save,
       Cache!SaveCopies, Proved!SaveCopies, Cache!SaveOpens, Proved!SaveOpens,
       Cache!SaveWrites, Proved!SaveWrites, Cache!SaveFails, Proved!SaveFails,
       Cache!SaveClears, Proved!SaveClears, Cache!Clears, Proved!Clears, Cache!Done, Proved!Done,
       Cache!Torn, Proved!Torn, Cache!Whole, Proved!Whole, Cache!Empty, Proved!Empty

\* Its end.
LEMMA SameEnding ==
    /\ Cache!SaveSkips => Proved!SaveSkips
    /\ Cache!Stop => Proved!Stop
    /\ Cache!LoopEnds => Proved!LoopEnds
    /\ Cache!Ends => Proved!Ends
BY DEF Cache!SaveSkips, Proved!SaveSkips, Cache!Stop, Proved!Stop, Cache!LoopEnds, Proved!LoopEnds,
       Cache!Ends, Proved!Ends, Cache!Done, Proved!Done

\* What an update tells the cache is what ShipCache calls metadata.
LEMMA SameMeta == ASSUME NEW u \in Meta PROVE u \in Proved!Meta
<1>1. u \in [{"type", "length"} -> Types \cup Lengths]
  BY DEF Meta
<1> QED
  BY <1>1 DEF Proved!Meta

\* Whatever happens, the cache takes one of its steps or none.
LEMMA CacheKept ==
    ASSUME Proved!CacheInv,
           \/ Start
           \/ \E u \in Meta : Cached(u)
           \/ \E s \in Cache!Savers : Cache!Save(s)
           \/ Cache!SaveSkips \/ Cache!Stop \/ Cache!LoopEnds \/ Cache!Ends
           \/ UNCHANGED cacheVars
    PROVE  Proved!CacheInv' /\ Proved!Learns
<1>1. Proved!Next \/ UNCHANGED Proved!vars
  <2>1. CASE Start
    BY <2>1, SameNew DEF Start, Proved!Next
  <2>2. ASSUME NEW u \in Meta, Cached(u) PROVE <1>1
    <3>1. CASE UNCHANGED cacheVars
      BY <3>1 DEF cacheVars, Proved!vars
    <3>2. CASE Cache!Update(Vessel, u)
      BY <3>2, SameUpdate, SameMeta DEF Proved!Next
    <3> QED
      BY <2>2, <3>1, <3>2 DEF Cached
  <2>3. CASE \E s \in Cache!Savers : Cache!Save(s)
    BY <2>3, SameSave DEF Proved!Next
  <2>4. CASE Cache!SaveSkips \/ Cache!Stop \/ Cache!LoopEnds \/ Cache!Ends
    BY <2>4, SameEnding DEF Proved!Next
  <2>5. CASE UNCHANGED cacheVars
    BY <2>5 DEF cacheVars, Proved!vars
  <2> QED
    BY <2>1, <2>2, <2>3, <2>4, <2>5
<1>2. Proved!Learns
  BY <1>1, Proved!StepLearns
<1>3. Proved!CacheInv'
  BY <1>1, Proved!NewKeeps, Proved!UpdateKeeps, Proved!SaveKeeps, Proved!EndingKeeps DEF Proved!Next
<1> QED
  BY <1>2, <1>3

\* The cache, its file and every copy hold a type and a length.
MetaKept ==
    /\ cached \in Meta
    /\ file.table[Vessel] \in Meta
    /\ \A s \in Cache!Savers : copy[s][Vessel] \in Meta

\* Knowing nothing is metadata.
LEMMA UnknownIsMeta == Unknown \in Meta /\ Cache!Empty[Vessel] \in Meta
<1>1. Unknown \in Meta
  BY ClassifyAssumption DEF Unknown, Meta
<1>2. Cache!Empty[Vessel] = [f \in {"type", "length"} |-> 0]
  BY DEF Cache!Empty
<1> DEFINE g == [f \in {"type", "length"} |-> 0]
<1>3. g \in [{"type", "length"} -> {0}] /\ g["type"] \in Types /\ g["length"] \in Lengths
  BY ClassifyAssumption
<1> HIDE DEF g
<1>4. g \in Meta
  BY <1>3 DEF Meta
<1> QED
  BY <1>1, <1>2, <1>4 DEF g

\* Merging, in the client and in the cache, gives metadata.
LEMMA MergedIsMeta ==
    ASSUME NEW g \in Meta, NEW u \in Meta
    PROVE  /\ Merged(g, u) \in Meta
           /\ Merged(g, u).type = IF u.type > 0 THEN u.type ELSE g.type
           /\ Merged(g, u).length = IF u.length > 0 THEN u.length ELSE g.length
           /\ Cache!Merged(g, u) \in Meta
<1>1. /\ Merged(g, u) \in Meta
      /\ Merged(g, u).type = IF u.type > 0 THEN u.type ELSE g.type
      /\ Merged(g, u).length = IF u.length > 0 THEN u.length ELSE g.length
  BY DEF Merged, Meta
<1> DEFINE h == Cache!Merged(g, u)
<1>2. /\ g["type"] \in Types /\ u["type"] \in Types
      /\ g["length"] \in Lengths /\ u["length"] \in Lengths
  BY DEF Meta
<1>3. h = [f \in {"type", "length"} |-> IF u[f] = 0 THEN g[f] ELSE u[f]]
  BY DEF Cache!Merged
<1>4. h \in [{"type", "length"} -> Types \cup Lengths] /\ h["type"] \in Types /\ h["length"] \in Lengths
  BY <1>2, <1>3
<1> HIDE DEF h
<1>5. h \in Meta
  BY <1>4 DEF Meta
<1> QED
  BY <1>1, <1>5 DEF h

\* The cache is told metadata, and writes and loads what it was told.
LEMMA MetaStaysKept ==
    ASSUME Proved!CacheInv, MetaKept,
           \/ Start
           \/ \E u \in Meta : Cached(u)
           \/ \E s \in Cache!Savers : Cache!Save(s)
           \/ Cache!SaveSkips \/ Cache!Stop \/ Cache!LoopEnds \/ Cache!Ends
           \/ UNCHANGED cacheVars
    PROVE  MetaKept'
<1> USE DEF MetaKept, cached
<1>0. /\ data \in [{Vessel} -> Proved!Meta] /\ DOMAIN copy = Cache!Savers
      /\ Cache!Savers = {"loop", "stop"} /\ copy = [s \in Cache!Savers |-> copy[s]]
  BY DEF Proved!CacheInv, Proved!CacheTypeOK, Proved!Table, Proved!Savers, Cache!Savers
<1>1. CASE Start
  BY <1>1, UnknownIsMeta DEF Start, Cache!New
<1>2. ASSUME NEW u \in Meta, Cached(u) PROVE MetaKept'
  <2>1. CASE UNCHANGED cacheVars
    BY <2>1 DEF cacheVars
  <2>2. CASE Cache!Update(Vessel, u)
    <3>1. UNCHANGED <<file, copy>> /\ data' = [data EXCEPT ![Vessel] = Cache!Merged(@, u)]
      BY <2>2 DEF Cache!Update
    <3>2. data'[Vessel] = Cache!Merged(data[Vessel], u)
      BY <1>0, <3>1
    <3> QED
      BY <3>1, <3>2, MergedIsMeta
  <2> QED
    BY <1>2, <2>1, <2>2 DEF Cached
<1>3. ASSUME NEW s \in Cache!Savers, Cache!Save(s) PROVE MetaKept'
  <2>1. CASE Cache!SaveCopies(s)
    BY <1>0, <2>1 DEF Cache!SaveCopies
  <2>2. CASE Cache!SaveOpens(s)
    BY <2>2, UnknownIsMeta DEF Cache!SaveOpens, Cache!Torn
  <2>3. CASE Cache!SaveWrites(s)
    BY <2>3, UnknownIsMeta DEF Cache!SaveWrites, Cache!Torn, Cache!Whole
  <2>4. CASE Cache!SaveFails(s) \/ Cache!SaveClears(s)
    BY <2>4 DEF Cache!SaveFails, Cache!SaveClears
  <2> QED
    BY <1>3, <2>1, <2>2, <2>3, <2>4 DEF Cache!Save
<1>4. CASE Cache!SaveSkips \/ Cache!Stop \/ Cache!LoopEnds \/ Cache!Ends
  BY <1>4 DEF Cache!SaveSkips, Cache!Stop, Cache!LoopEnds, Cache!Ends
<1>5. CASE UNCHANGED cacheVars
  BY <1>5 DEF cacheVars
<1> QED
  BY <1>1, <1>2, <1>3, <1>4, <1>5

------------------------------------------------------------------------------
(* The feed and the tables.                                                *)

FeedTyped ==
    /\ dims \in Meta
    /\ update \in Update
    /\ entry \in [Servers -> Entry]
    /\ registry \in [Servers -> Registry]
    /\ filters \in [Servers -> FilterSets]
    /\ order \in [Servers -> Models \cup {None}]
    /\ told \in [Servers -> Models \cup {None}]
    /\ raced \in [Servers -> BOOLEAN]

\* What the state of an entry says of its model, of a spawn order that is out and
\* of what DCS was told.
EntryStands(s) ==
    /\ entry[s].category = ShipCategory(entry[s].type)
    /\ entry[s].state # "none" => entry[s].model \in Models
    /\ (entry[s].state = "pending" /\ told[s] = None) =>
           entry[s].model \in Fitting(entry[s].category, entry[s].length)
    /\ entry[s].state = "spawned" => told[s] # None /\ (raced[s] \/ entry[s].model = told[s])
    /\ order[s] # None =>
           entry[s].state = "pending" /\ (raced[s] \/ entry[s].model = order[s])

FeedInv == FeedTyped /\ \A s \in Servers : EntryStands(s)

ClassifyInv == Proved!CacheInv /\ MetaKept /\ FeedInv

\* Without a report, and with one.
LEMMA RegistryForms ==
    /\ NoReport \in Registry
    /\ \A S \in Installs : Report(S) \in Registry
BY ClassifyAssumption DEF NoReport, Report, Registry

\* A vessel that is in no table is of no type.
LEMMA NoEntryForm ==
    /\ NoEntry \in Entry /\ NoEntry.state = "none"
    /\ NoEntry.category = ShipCategory(NoEntry.type)
<1>1. NoEntry.category = "other" /\ NoEntry.type = 0 /\ NoEntry.state = "none"
  BY DEF NoEntry
<1>2. "other" \in Categories
  BY DEF Categories
<1>3. NoEntry \in Entry
  BY <1>2, ClassifyAssumption DEF NoEntry, Entry
<1> QED
  BY <1>1, <1>3, UnknownIsOther

\* No update.
LEMMA NoUpdateForm == NoUpdate \in Update
BY UnknownIsMeta DEF NoUpdate, Update

\* A start leaves nothing in any table.
LEMMA StartFeeds ==
    ASSUME FeedTyped, Start
    PROVE  FeedInv'
<1> USE DEF Start, Fresh
<1>1. FeedTyped'
  BY UnknownIsMeta, NoUpdateForm, NoEntryForm, RegistryForms DEF FeedTyped
<1>2. ASSUME NEW s \in Servers PROVE EntryStands(s)'
  <2>1. entry'[s] = NoEntry /\ order'[s] = None
    OBVIOUS
  <2> QED
    BY <2>1, NoEntryForm DEF EntryStands
<1> QED
  BY <1>1, <1>2 DEF FeedInv

\* At first nothing is in any table.
LEMMA InitFeeds == Init => FeedInv
<1> SUFFICES ASSUME Init PROVE FeedInv
  OBVIOUS
<1> USE DEF Init, Fresh
<1>1. FeedTyped
  BY UnknownIsMeta, NoUpdateForm, NoEntryForm, RegistryForms DEF FeedTyped
<1>2. ASSUME NEW s \in Servers PROVE EntryStands(s)
  <2>1. entry[s] = NoEntry /\ order[s] = None
    OBVIOUS
  <2> QED
    BY <2>1, NoEntryForm DEF EntryStands
<1> QED
  BY <1>1, <1>2 DEF FeedInv

\* The client, the filters and the model reports leave the tables alone.
LEMMA FeedKeeps ==
    ASSUME FeedInv,
           \/ \E meta \in Meta : handleStaticData(meta)
           \/ \E t \in Types : handlePosition(t)
           \/ \E s \in Servers :
                 \/ Filter(s) \/ Drop(s)
                 \/ \E S \in Installs : setAvailableModels(s, S)
                 \/ \E F \in FilterSets : SetFilters(s, F)
           \/ UNCHANGED feedVars
    PROVE  FeedInv'
<1> USE DEF FeedInv
<1>1. UNCHANGED <<entry, order, told, raced>>
  BY DEF handleStaticData, handlePosition, Filter, Drop, setAvailableModels, SetFilters, feedVars
<1>2. \A s \in Servers : EntryStands(s)'
  BY <1>1 DEF EntryStands
<1>3. dims' \in Meta /\ update' \in Update /\ registry' \in [Servers -> Registry]
      /\ filters' \in [Servers -> FilterSets]
  <2>1. ASSUME NEW meta \in Meta, handleStaticData(meta) PROVE <1>3
    BY <2>1, MergedIsMeta DEF handleStaticData, FeedTyped
  <2>2. ASSUME NEW t \in Types, handlePosition(t) PROVE <1>3
    <3>1. [type |-> t, length |-> 0] \in Meta
      BY ClassifyAssumption DEF Meta
    <3>2. update' = [meta |-> Merged(dims, [type |-> t, length |-> 0]), todo |-> Servers, past |-> {}]
          /\ UNCHANGED <<dims, registry, filters>>
      BY <2>2 DEF handlePosition
    <3>3. Merged(dims, [type |-> t, length |-> 0]) \in Meta
      BY <3>1, MergedIsMeta DEF FeedTyped
    <3>4. update' \in Update
      BY <3>2, <3>3 DEF Update
    <3> QED
      BY <3>2, <3>4 DEF FeedTyped
  <2>3. ASSUME NEW s \in Servers, Filter(s) \/ Drop(s) PROVE <1>3
    <3>1. update' \in Update
      <4>1. CASE Filter(s)
        <5> DEFINE past == IF ShipCategory(update.meta.type) \in filters[s] THEN {s} ELSE {}
        <5>1. update' = [update EXCEPT !.todo = @ \ {s}, !.past = past]
          BY <4>1 DEF Filter
        <5>2. past \subseteq Servers
          OBVIOUS
        <5> HIDE DEF past
        <5> QED
          BY <5>1, <5>2 DEF FeedTyped, Update
      <4>2. CASE Drop(s)
        BY <4>2 DEF Drop, FeedTyped, Update
      <4> QED
        BY <2>3, <4>1, <4>2
    <3> QED
      BY <2>3, <3>1 DEF Filter, Drop, FeedTyped
  <2>4. ASSUME NEW s \in Servers, NEW S \in Installs, setAvailableModels(s, S) PROVE <1>3
    BY <2>4, RegistryForms DEF setAvailableModels, FeedTyped
  <2>5. ASSUME NEW s \in Servers, NEW F \in FilterSets, SetFilters(s, F) PROVE <1>3
    BY <2>5 DEF SetFilters, FeedTyped
  <2>6. CASE UNCHANGED feedVars
    BY <2>6 DEF feedVars, FeedTyped
  <2> QED
    BY <2>1, <2>2, <2>3, <2>4, <2>5, <2>6
<1>4. FeedTyped'
  BY <1>1, <1>3 DEF FeedTyped
<1> QED
  BY <1>2, <1>4

\* A tick's steps, each with the entry of its server.
LEMMA TickKeeps ==
    ASSUME FeedInv, NEW s \in Servers, TickNext(s)
    PROVE  FeedInv'
<1> USE DEF FeedInv
<1>0. /\ entry[s] \in Entry /\ order[s] \in Models \cup {None} /\ EntryStands(s)
      /\ None \notin Models
      /\ DOMAIN entry = Servers
  BY ModelsAreNamed DEF FeedTyped
<1>1. UNCHANGED <<dims, update, registry, filters>>
  BY DEF TickNext, PlanSpawn, CommitSpawn, SendFails, Reorder, Recall, Forget
<1>2. /\ entry' \in [Servers -> Entry]
      /\ order' \in [Servers -> Models \cup {None}]
      /\ told' \in [Servers -> Models \cup {None}]
      /\ raced' \in [Servers -> BOOLEAN]
      /\ \A t \in Servers \ {s} : entry'[t] = entry[t] /\ order'[t] = order[t]
                                    /\ told'[t] = told[t] /\ raced'[t] = raced[t]
      /\ EntryStands(s)'
  <2>1. CASE PlanSpawn(s)
    <3>1. entry[s].model \in Models
      BY <1>0, <2>1 DEF PlanSpawn, EntryStands
    <3> QED
      BY <1>0, <2>1, <3>1 DEF PlanSpawn, FeedTyped, EntryStands
  <2>2. CASE CommitSpawn(s)
    <3>1. [entry[s] EXCEPT !.state = "spawned"] \in Entry
      BY <1>0 DEF Entry
    <3>2. entry' = [entry EXCEPT ![s] = [entry[s] EXCEPT !.state = "spawned"]]
      BY <2>2 DEF CommitSpawn
    <3>3. entry' \in [Servers -> Entry] /\ entry'[s] = [entry[s] EXCEPT !.state = "spawned"]
          /\ \A t \in Servers \ {s} : entry'[t] = entry[t]
      BY <3>1, <3>2 DEF FeedTyped
    <3>4. /\ entry'[s].state = "spawned" /\ entry'[s].category = entry[s].category
          /\ entry'[s].type = entry[s].type /\ entry'[s].model = entry[s].model
      BY <1>0, <3>3 DEF Entry
    <3>5. /\ told' = [told EXCEPT ![s] = order[s]] /\ order' = [order EXCEPT ![s] = None]
          /\ raced' = raced /\ order[s] # None
      BY <2>2 DEF CommitSpawn
    <3> QED
      BY <1>0, <3>3, <3>4, <3>5 DEF FeedTyped, EntryStands
  <2>3. CASE SendFails(s)
    BY <1>0, <2>3 DEF SendFails, FeedTyped, EntryStands
  <2>4. CASE Reorder(s)
    <3>1. entry[s].model \in Models
      BY <1>0, <2>4 DEF Reorder, EntryStands
    <3> QED
      BY <1>0, <2>4, <3>1 DEF Reorder, FeedTyped, EntryStands
  <2>5. CASE Recall(s)
    <3>1. [entry[s] EXCEPT !.state = "pending"] \in Entry
      BY <1>0 DEF Entry
    <3>2. entry' = [entry EXCEPT ![s] = [entry[s] EXCEPT !.state = "pending"]]
          /\ UNCHANGED <<order, told, raced>> /\ entry[s].state = "spawned"
      BY <2>5 DEF Recall
    <3>3. entry' \in [Servers -> Entry] /\ entry'[s] = [entry[s] EXCEPT !.state = "pending"]
          /\ \A t \in Servers \ {s} : entry'[t] = entry[t]
      BY <3>1, <3>2 DEF FeedTyped
    <3>4. /\ entry'[s].state = "pending" /\ entry'[s].category = entry[s].category
          /\ entry'[s].type = entry[s].type /\ entry'[s].model = entry[s].model
      BY <1>0, <3>3 DEF Entry
    <3> QED
      BY <1>0, <3>2, <3>3, <3>4 DEF FeedTyped, EntryStands
  <2>6. CASE Forget(s)
    <3>1. /\ entry' = [entry EXCEPT ![s] = NoEntry] /\ order' = [order EXCEPT ![s] = None]
          /\ told' = [told EXCEPT ![s] = None] /\ raced' = [raced EXCEPT ![s] = FALSE]
      BY <2>6 DEF Forget
    <3>2. entry'[s] = NoEntry /\ order'[s] = None
      BY <3>1 DEF FeedTyped
    <3>3. EntryStands(s)'
      BY <3>2, NoEntryForm DEF EntryStands
    <3> QED
      BY <3>1, <3>3, NoEntryForm DEF FeedTyped
  <2> QED
    BY <2>1, <2>2, <2>3, <2>4, <2>5, <2>6 DEF TickNext
<1>3. FeedTyped'
  BY <1>1, <1>2 DEF FeedTyped
<1>4. ASSUME NEW t \in Servers \ {s} PROVE EntryStands(t)'
  <2>1. EntryStands(t)
    OBVIOUS
  <2> QED
    BY <1>2, <2>1 DEF EntryStands
<1> QED
  BY <1>2, <1>3, <1>4

\* What an entry is told to know is metadata, and no less than it, or for a new one
\* the cache, knew; and an update that says nothing leaves an entry as it is.
LEMMA KnownIsMeta ==
    ASSUME NEW e \in Entry, NEW u \in Meta, MetaKept
    PROVE  /\ Known(e, u) \in Meta
           /\ e.state = "none" =>
                /\ cached.type > 0 => Known(e, u).type > 0
                /\ cached.length > 0 => Known(e, u).length > 0
           /\ e.state # "none" =>
                /\ e.type > 0 => Known(e, u).type > 0
                /\ e.length > 0 => Known(e, u).length > 0
           /\ e.state # "none" /\ u = Unknown =>
                Known(e, u).type = e.type /\ Known(e, u).length = e.length
<1>0. /\ e.type \in Types /\ e.length \in Lengths /\ u.type \in Types /\ u.length \in Lengths
      /\ Types \subseteq Nat /\ Lengths \subseteq Nat /\ cached \in Meta
      /\ cached.type \in Types /\ cached.length \in Lengths
  BY ClassifyAssumption DEF Entry, Meta, MetaKept
<1>1. CASE e.state = "none"
  <2>1. Known(e, u) = Merged(cached, u)
    BY <1>1 DEF Known
  <2>2. /\ Merged(cached, u) \in Meta
        /\ Merged(cached, u).type = IF u.type > 0 THEN u.type ELSE cached.type
        /\ Merged(cached, u).length = IF u.length > 0 THEN u.length ELSE cached.length
    BY <1>0, MergedIsMeta
  <2> HIDE DEF cached
  <2> QED
    BY <1>0, <1>1, <2>1, <2>2
<1>2. CASE e.state # "none"
  <2> DEFINE old == [type |-> 0, length |-> e.length]
  <2>1. old \in Meta /\ old.type = 0 /\ old.length = e.length
    BY <1>0, ClassifyAssumption DEF Meta
  <2>2. Known(e, u) = [type |-> IF e.type = 0 THEN u.type ELSE e.type,
                       length |-> Merged(old, u).length]
    BY <1>2 DEF Known
  <2>3. Merged(old, u).length = IF u.length > 0 THEN u.length ELSE e.length
    BY <2>1, MergedIsMeta
  <2>4. u = Unknown => u.type = 0 /\ u.length = 0
    BY DEF Unknown
  <2> HIDE DEF old
  <2>5. /\ Known(e, u).type = (IF e.type = 0 THEN u.type ELSE e.type)
        /\ Known(e, u).length = (IF u.length > 0 THEN u.length ELSE e.length)
        /\ Known(e, u) \in Meta
    BY <1>0, <2>2, <2>3 DEF Meta
  <2> QED
    BY <1>0, <1>2, <2>4, <2>5
<1> QED
  BY <1>1, <1>2

\* An update reaches a table.
LEMMA ApplyFeeds ==
    ASSUME MetaKept, FeedInv, NEW s \in Servers, Apply(s)
    PROVE  /\ FeedInv'
           /\ \E m \in Meta : Cached(m)
           /\ dims' = dims
           /\ KnownOf(IF entry[s].state = "none" THEN cached ELSE entry[s])
                  \subseteq KnownOf(entry'[s])
           /\ \A t \in Servers \ {s} : entry'[t] = entry[t]
<1> USE DEF FeedInv
<1> DEFINE e == entry[s]
           u == update.meta
           known == Known(e, u)
<1>0. /\ e \in Entry /\ u \in Meta /\ EntryStands(s) /\ None \notin Models
      /\ e.type \in Types /\ e.length \in Lengths
      /\ e.state \in {"none", "pending", "spawned"}
  BY ModelsAreNamed DEF FeedTyped, Update, Entry
<1>1. /\ Cached(known) /\ update' = [update EXCEPT !.past = {}]
      /\ UNCHANGED <<dims, registry, filters, order, told>>
  BY DEF Apply
<1>2. PICK m \in IF Rematched(e, u) THEN dcsUnitType(registry[s], known.type, known.length)
                                     ELSE {e.model} :
          /\ entry' = [entry EXCEPT ![s] =
                 [state |-> IF e.state = "none" THEN "pending" ELSE e.state,
                  type |-> known.type, length |-> known.length,
                  category |-> Categorised(e, known.type), model |-> m]]
          /\ raced' = [raced EXCEPT ![s] = @ \/ (order[s] # None /\ m # order[s])]
  BY DEF Apply
<1>3. /\ known \in Meta /\ known.type \in Types /\ known.length \in Lengths
      /\ known.length \in Nat
      /\ e.state = "none" =>
                /\ cached.type > 0 => known.type > 0
                /\ cached.length > 0 => known.length > 0
      /\ e.state # "none" =>
                /\ e.type > 0 => known.type > 0
                /\ e.length > 0 => known.length > 0
      /\ e.state # "none" /\ u = Unknown => known.type = e.type /\ known.length = e.length
  <2>1. \A g \in Meta : g.type \in Types /\ g.length \in Lengths /\ g.length \in Nat
    BY ClassifyAssumption DEF Meta
  <2> QED
    BY <1>0, <2>1, KnownIsMeta
<1> HIDE DEF known
<1> DEFINE c == ShipCategory(known.type)
           new == [state |-> IF e.state = "none" THEN "pending" ELSE e.state,
                   type |-> known.type, length |-> known.length,
                   category |-> c, model |-> m]
<1>4. c \in Categories
  BY CategoryTyped
<1>5. Rematched(e, u) => m \in Fitting(c, known.length) /\ m \in Models
  BY <1>2, <1>3, <1>4, PickFits, FittingAreModels DEF dcsUnitType
<1>6. ~Rematched(e, u) => m = e.model /\ e.state # "none" /\ m \in Models
  BY <1>0, <1>2 DEF Rematched, EntryStands
<1> HIDE DEF c
<1>7. /\ new \in Entry
      /\ new.state = IF e.state = "none" THEN "pending" ELSE e.state
      /\ new.type = known.type /\ new.length = known.length
      /\ new.category = c /\ new.model = m
  BY <1>0, <1>3, <1>4, <1>5, <1>6 DEF Entry
<1>8. entry' = [entry EXCEPT ![s] = new]
  BY <1>2 DEF Categorised, c
<1> HIDE DEF new
<1>9. entry' \in [Servers -> Entry] /\ entry'[s] = new /\ \A t \in Servers \ {s} : entry'[t] = entry[t]
  BY <1>7, <1>8 DEF FeedTyped
<1>10. /\ raced' \in [Servers -> BOOLEAN]
       /\ raced'[s] = (raced[s] \/ (order[s] # None /\ m # order[s]))
       /\ \A t \in Servers \ {s} : raced'[t] = raced[t]
  <2> DEFINE r == raced[s] \/ (order[s] # None /\ m # order[s])
  <2>1. r \in BOOLEAN /\ raced' = [raced EXCEPT ![s] = r]
    BY <1>2 DEF FeedTyped
  <2> HIDE DEF r
  <2>2. raced' \in [Servers -> BOOLEAN] /\ raced'[s] = r /\ \A t \in Servers \ {s} : raced'[t] = raced[t]
    BY <2>1 DEF FeedTyped
  <2> QED
    BY <2>2 DEF r
<1>11. FeedTyped'
  <2>1. update' \in Update
    BY <1>1 DEF FeedTyped, Update
  <2> QED
    BY <1>1, <1>9, <1>10, <2>1 DEF FeedTyped
<1>12. EntryStands(s)'
  <2>1. new.category = ShipCategory(new.type) /\ new.model \in Models
    BY <1>5, <1>6, <1>7 DEF c
  <2>2. ASSUME new.state = "pending", told[s] = None
        PROVE  new.model \in Fitting(new.category, new.length)
    <3>1. CASE Rematched(e, u)
      BY <1>5, <1>7, <3>1
    <3>2. CASE ~Rematched(e, u)
      <4>1. e.state = "pending" /\ u = Unknown
        BY <1>6, <1>7, <2>2, <3>2 DEF Rematched
      <4>2. new.type = e.type /\ new.length = e.length /\ new.category = e.category
        BY <1>0, <1>3, <1>7, <4>1 DEF EntryStands, c
      <4> QED
        BY <1>0, <1>6, <1>7, <2>2, <3>2, <4>1, <4>2 DEF EntryStands
    <3> QED
      BY <3>1, <3>2
  <2>3. ASSUME new.state = "spawned"
        PROVE  told[s] # None /\ (raced'[s] \/ new.model = told[s])
    <3>1. e.state = "spawned" /\ m = e.model
      BY <1>6, <1>7, <2>3 DEF Rematched
    <3> QED
      BY <1>0, <1>7, <1>10, <3>1 DEF EntryStands
  <2>4. ASSUME order[s] # None
        PROVE  new.state = "pending" /\ (raced'[s] \/ new.model = order[s])
    BY <1>0, <1>7, <1>10, <2>4 DEF EntryStands
  <2> QED
    BY <1>1, <1>9, <2>1, <2>2, <2>3, <2>4 DEF EntryStands
<1>13. ASSUME NEW t \in Servers \ {s} PROVE EntryStands(t)'
  <2>1. EntryStands(t)
    OBVIOUS
  <2> QED
    BY <1>1, <1>9, <1>10, <2>1 DEF EntryStands
<1>14. KnownOf(IF e.state = "none" THEN cached ELSE e) \subseteq KnownOf(new)
  <2>1. \A k, n : (k.type > 0 => n.type > 0) /\ (k.length > 0 => n.length > 0) =>
                      KnownOf(k) \subseteq KnownOf(n)
    BY DEF KnownOf
  <2> QED
    BY <1>3, <1>7, <2>1
<1> QED
  BY <1>1, <1>3, <1>9, <1>11, <1>12, <1>13, <1>14

\* Every step, of the feed, the tables and the cache.
LEMMA ClassifyStep ==
    ASSUME ClassifyInv, Next \/ UNCHANGED vars
    PROVE  /\ ClassifyInv'
           /\ Cache!Learns
           /\ \/ dims' = Unknown /\ update' = NoUpdate
              \/ /\ KnownOf(dims) \subseteq KnownOf(dims')
                 /\ \A s \in Servers : entry'[s].state = "none" \/
                       KnownOf(IF entry[s].state = "none" THEN cached ELSE entry[s])
                           \subseteq KnownOf(entry'[s])
<1> DEFINE Kept == /\ KnownOf(dims) \subseteq KnownOf(dims')
                   /\ \A s \in Servers : entry'[s].state = "none" \/
                         KnownOf(IF entry[s].state = "none" THEN cached ELSE entry[s])
                             \subseteq KnownOf(entry'[s])
           Result == /\ ClassifyInv' /\ Cache!Learns
                     /\ (dims' = Unknown /\ update' = NoUpdate) \/ Kept
<1> USE DEF ClassifyInv
<1>1. CASE Start
  <2>1. FeedInv'
    BY <1>1, StartFeeds DEF FeedInv
  <2>2. dims' = Unknown /\ update' = NoUpdate
    BY <1>1 DEF Start
  <2> QED
    BY <1>1, <2>1, <2>2, CacheKept, MetaStaysKept, SameLearns
<1>2. ASSUME NEW s \in Servers, Apply(s) PROVE Result
  <2>1. /\ FeedInv'
        /\ \E m \in Meta : Cached(m)
        /\ dims' = dims
        /\ KnownOf(IF entry[s].state = "none" THEN cached ELSE entry[s])
               \subseteq KnownOf(entry'[s])
        /\ \A t \in Servers \ {s} : entry'[t] = entry[t]
    BY <1>2, ApplyFeeds
  <2>2. Kept
    BY <2>1
  <2>3. Proved!CacheInv' /\ Proved!Learns /\ MetaKept'
    BY <2>1, CacheKept, MetaStaysKept
  <2> QED
    BY <2>1, <2>2, <2>3, SameLearns
<1>3. ASSUME UNCHANGED cacheVars, FeedInv', Kept PROVE Result
  BY <1>3, CacheKept, MetaStaysKept, SameLearns
<1>4. ASSUME \/ \E meta \in Meta : handleStaticData(meta)
             \/ \E t \in Types : handlePosition(t)
             \/ \E s \in Servers :
                   \/ Filter(s) \/ Drop(s)
                   \/ \E S \in Installs : setAvailableModels(s, S)
                   \/ \E F \in FilterSets : SetFilters(s, F)
      PROVE  Result
  <2>1. FeedInv'
    BY <1>4, FeedKeeps
  <2>2. entry' = entry /\ UNCHANGED cacheVars
    BY <1>4 DEF handleStaticData, handlePosition, Filter, Drop, setAvailableModels, SetFilters
  <2>3. KnownOf(dims) \subseteq KnownOf(dims')
    <3>1. ASSUME NEW meta \in Meta, handleStaticData(meta) PROVE <2>3
      <4>1. dims' = Merged(dims, meta) /\ dims \in Meta
        BY <3>1 DEF handleStaticData, FeedInv, FeedTyped
      <4>2. (dims.type > 0 => dims'.type > 0) /\ (dims.length > 0 => dims'.length > 0)
        BY <4>1, MergedIsMeta
      <4> QED
        BY <4>2 DEF KnownOf
    <3>2. CASE dims' = dims
      BY <3>2
    <3> QED
      BY <1>4, <3>1, <3>2 DEF handlePosition, Filter, Drop, setAvailableModels, SetFilters
  <2>4. Kept
    BY <2>2, <2>3
  <2> QED
    BY <1>3, <2>1, <2>2, <2>4
<1>5. ASSUME NEW s \in Servers, TickNext(s) PROVE Result
  <2>1. FeedInv'
    BY <1>5, TickKeeps
  <2>2. dims' = dims /\ UNCHANGED cacheVars
    BY <1>5 DEF TickNext, PlanSpawn, CommitSpawn, SendFails, Reorder, Recall, Forget
  <2>3. ASSUME NEW t \in Servers, entry'[t].state # "none"
        PROVE  entry[t].state # "none" /\ KnownOf(entry[t]) \subseteq KnownOf(entry'[t])
    <3>1. entry[t] \in Entry /\ DOMAIN entry = Servers /\ entry[s] \in Entry /\ EntryStands(s)
      BY DEF FeedInv, FeedTyped
    <3>2. CASE entry'[t] = entry[t]
      BY <2>3, <3>2
    <3>3. CASE t = s /\ CommitSpawn(s)
      <4>1. entry[s].state # "none" /\ entry' = [entry EXCEPT ![s].state = "spawned"]
        BY <3>1, <3>3 DEF CommitSpawn, EntryStands
      <4>2. entry'[s].type = entry[s].type /\ entry'[s].length = entry[s].length
        BY <3>1, <4>1 DEF Entry
      <4> QED
        BY <3>3, <4>1, <4>2 DEF KnownOf
    <3>4. CASE t = s /\ Recall(s)
      <4>1. entry[s].state # "none" /\ entry' = [entry EXCEPT ![s].state = "pending"]
        BY <3>4 DEF Recall
      <4>2. entry'[s].type = entry[s].type /\ entry'[s].length = entry[s].length
        BY <3>1, <4>1 DEF Entry
      <4> QED
        BY <3>4, <4>1, <4>2 DEF KnownOf
    <3>5. CASE t = s /\ Forget(s)
      BY <2>3, <3>1, <3>5, NoEntryForm DEF Forget
    <3>6. t # s => entry'[t] = entry[t]
      BY <1>5, <3>1 DEF TickNext, PlanSpawn, CommitSpawn, SendFails, Reorder, Recall, Forget
    <3>7. PlanSpawn(s) \/ SendFails(s) \/ Reorder(s) => entry' = entry
      BY DEF PlanSpawn, SendFails, Reorder
    <3> QED
      BY <1>5, <3>2, <3>3, <3>4, <3>5, <3>6, <3>7 DEF TickNext
  <2>4. Kept
    BY <2>2, <2>3
  <2> QED
    BY <1>3, <2>1, <2>2, <2>4
<1>6. ASSUME CacheNext \/ UNCHANGED vars PROVE Result
  <2>1. UNCHANGED feedVars
    BY <1>6 DEF CacheNext, vars
  <2>2. FeedInv' /\ Kept
    BY <2>1, FeedKeeps DEF feedVars
  <2>3. UNCHANGED cacheVars
        \/ (\E s \in Cache!Savers : Cache!Save(s))
        \/ Cache!SaveSkips \/ Cache!Stop \/ Cache!LoopEnds \/ Cache!Ends
    BY <1>6 DEF CacheNext, vars
  <2> QED
    BY <2>2, <2>3, CacheKept, MetaStaysKept, SameLearns
<1> QED
  BY <1>1, <1>2, <1>4, <1>5, <1>6 DEF Next, FeedNext

\* The invariant holds at first.
LEMMA ClassifyInit == Init => ClassifyInv
<1> SUFFICES ASSUME Init PROVE ClassifyInv
  OBVIOUS
<1>1. Cache!Init
  BY DEF Init
<1>2. Proved!CacheInv
  BY <1>1, SameInit, Proved!CacheInit
<1>3. MetaKept
  <2>1. data = Cache!Empty /\ file.table = Cache!Empty /\ \A s \in Cache!Savers : copy[s] = Cache!Empty
    BY <1>1 DEF Cache!Init, Cache!Whole
  <2> QED
    BY <2>1, UnknownIsMeta DEF MetaKept, cached
<1> QED
  BY <1>2, <1>3, InitFeeds DEF ClassifyInv

------------------------------------------------------------------------------
\* What every entry says of its model, of orders and of DCS, and the cache's own
\* invariant, hold throughout, for any types, lengths, servers and installations.
THEOREM ClassifyInvariance == Spec => []ClassifyInv
<1>1. ClassifyInv /\ [Next]_vars => ClassifyInv'
  BY ClassifyStep
<1> QED
  BY ClassifyInit, <1>1, PTL DEF Spec

\* Types, and the category of every tracked vessel is that of its type.
\* (OnAISUpdate)
THEOREM ClassifyTyped == Spec => []ClassifyTypeOK
<1>1. ClassifyInv => ClassifyTypeOK
  <2> SUFFICES ASSUME ClassifyInv PROVE ClassifyTypeOK
    OBVIOUS
  <2>1. Cache!CacheTypeOK
    BY SameTypes DEF ClassifyInv, Proved!CacheInv
  <2> QED
    BY <2>1 DEF ClassifyInv, MetaKept, FeedInv, FeedTyped, EntryStands, ClassifyTypeOK
<1> QED
  BY <1>1, ClassifyInvariance, PTL

\* A vessel that has not been in DCS is down for a model of its category and
\* length, or a universal one.  (OnAISUpdate, pick)
THEOREM PendingFits == Spec => []PendingModelFits
<1>1. ClassifyInv => PendingModelFits
  BY DEF ClassifyInv, FeedInv, EntryStands, PendingModelFits, Fitting
<1> QED
  BY <1>1, ClassifyInvariance, PTL

\* The table names the model DCS was told of, but for a ship whose model was chosen
\* anew while its spawn order was out.  (tick, OnAISUpdate)
THEOREM ModelsAreTold == Spec => []TableNamesModel
<1>1. ClassifyInv => TableNamesModel
  BY DEF ClassifyInv, FeedInv, EntryStands, TableNamesModel
<1> QED
  BY <1>1, ClassifyInvariance, PTL

\* Type and length, once known, stay known along the chain from the client to the
\* file, and no vessel is entered without what the cache has.
THEOREM KnownStays == Spec => KnownStaysKnown
<1>1. ClassifyInv /\ [Next]_vars
        => [/\ Cache!Learns
            /\ \/ dims' = Unknown /\ update' = NoUpdate
               \/ /\ KnownOf(dims) \subseteq KnownOf(dims')
                  /\ \A s \in Servers : entry'[s].state = "none" \/
                        KnownOf(IF entry[s].state = "none" THEN cached ELSE entry[s])
                            \subseteq KnownOf(entry'[s])]_vars
  BY ClassifyStep
<1> QED
  BY <1>1, ClassifyInvariance, PTL DEF Spec, KnownStaysKnown
=============================================================================
