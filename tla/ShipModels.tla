------------------------------ MODULE ShipModels ------------------------------
(***************************************************************************)
(* How an AIS ship type and a length in metres choose a DCS unit type      *)
(* (internal/coordinator/shipmatch.go).  Each category has brackets of     *)
(* length, each with the models that suit it; of those the DCS             *)
(* installation has, one is taken at random.                               *)
(***************************************************************************)
EXTENDS Integers, Sequences, SequencesExt

Categories == {"fishing", "tug", "pleasure", "passenger", "cargo", "tanker", "other"}

CategoryTypes ==
    [fishing |-> {30}, tug |-> {31, 32, 52}, pleasure |-> {36, 37},
     passenger |-> 60..69, cargo |-> 70..79, tanker |-> 80..89]

ShipCategory(type) ==
    IF \E c \in DOMAIN CategoryTypes : type \in CategoryTypes[c]
    THEN CHOOSE c \in DOMAIN CategoryTypes : type \in CategoryTypes[c]
    ELSE "other"

\* A bracket holds the lengths above over, up to the next bracket.
Bracket(n, ms) == [over |-> n, models |-> ms]
Unsized(ms) == Bracket(-1, ms)

Boxships == <<"container_ship", "HandyWind">>
Yachts == <<"yacht_ship", "yacht_helipad">>

Brackets ==
    [fishing |->
        {Bracket(57, <<"trawler_ship">>), Bracket(44, <<"fishing_vessel">>),
         Bracket(0, <<"diesel_trawler">>),
         Unsized(<<"fishing_vessel", "trawler_ship", "diesel_trawler">>)},
     tug |->
        {Bracket(42, <<"jr_more_tug", "jr_more_tug_helipad">>),
         Bracket(0, <<"HarborTug">>),
         Unsized(<<"jr_more_tug", "jr_more_tug_helipad", "HarborTug">>)},
     pleasure |-> {Bracket(30, <<"yacht_helipad">>), Unsized(Yachts)},
     passenger |->
        {Bracket(82, Boxships), Bracket(30, <<"yacht_helipad">>), Unsized(Yachts)},
     cargo |->
        {Bracket(82, Boxships), Bracket(0, <<"old_vessel">>), Unsized(Boxships)},
     tanker |->
        {Bracket(351, <<"Seawise_Giant">>), Bracket(217, <<"lng_tanker">>),
         Bracket(145, <<"ievoli_ivory">>), Bracket(0, <<"old_vessel">>),
         Unsized(<<"ievoli_ivory", "lng_tanker">>)},
     other |->
        {Bracket(351, <<"Seawise_Giant">>), Bracket(217, <<"lng_tanker">>),
         Bracket(148, <<"container_ship", "HandyWind", "Ship_Tilde_Supply">>),
         Bracket(105, <<"akademik_cherskiy", "kimedaka_skyicher",
                        "akademik_cherskiy_pipe_laying",
                        "leander-gun-ariadne", "BDK-775">>),
         Bracket(84, <<"old_vessel", "CHAP_Project22160">>),
         Bracket(68, <<"ALBATROS", "CastleClass_01">>),
         Bracket(42, <<"trawler_ship", "La_Combattante_II">>),
         Bracket(0, <<"diesel_trawler", "HarborTug">>),
         Unsized(<<"old_vessel", "Ship_Tilde_Supply">>)}]

Fallbacks == <<"Ship_Tilde_Supply", "old_vessel", "HandyWind">>

Models ==
    ToSet(Fallbacks) \cup UNION {ToSet(b.models) : b \in UNION {Brackets[c] : c \in Categories}}

Reaches(length, b) == length > b.over

\* The models for a length: the choices of <category>ByLength.
Suited(category, length) ==
    LET reached == {b \in Brackets[category] : Reaches(length, b)} IN
    (CHOOSE b \in reached : \A c \in reached : c.over <= b.over).models

\* What the registry knows: with no report, everything is taken to be there.
Registry == [loaded : BOOLEAN, models : SUBSET Models]
NoReport == [loaded |-> FALSE, models |-> {}]
Report(S) == [loaded |-> TRUE, models |-> S]

isAvailable(r, name) == ~r.loaded \/ name \in r.models

\* What pick may return: any of the choices DCS has; else the first universal
\* model it has; else the first choice all the same.
pick(r, choices) ==
    LET installed == {m \in ToSet(choices) : isAvailable(r, m)}
        universal == {i \in DOMAIN Fallbacks : isAvailable(r, Fallbacks[i])}
    IN  IF installed # {} THEN installed
        ELSE IF universal # {}
             THEN {Fallbacks[i] : i \in {i \in universal : \A j \in universal : i <= j}}
             ELSE {Head(choices)}

\* The DCS unit types a vessel may be given.
dcsUnitType(r, type, length) == pick(r, Suited(ShipCategory(type), length))
=============================================================================
