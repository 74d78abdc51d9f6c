------------------------------ MODULE ShipMatch ------------------------------
(***************************************************************************)
(* What the tables of ShipModels promise, evaluated by TLC as assumptions  *)
(* over both ends of every range of type codes, the lengths around every   *)
(* cut and several installations.                                          *)
(***************************************************************************)
EXTENDS ShipModels

\* Codes at both ends of every range, and in the gaps.
Codes == {0, 29, 30, 31, 32, 33, 35, 36, 37, 38, 52, 53, 59, 60, 69, 70, 79, 80, 89, 90}

\* Every length at which a bracket begins, the next, and some beyond.
Metres ==
    LET bounds == {b.over : b \in UNION {Brackets[c] : c \in Categories}} \ {-1} IN
    (bounds \cup {n + 1 : n \in bounds} \cup {20, 110, 111, 140, 141, 400}) \ {0}

BaseGame ==
    {"HandyWind", "Seawise_Giant", "Ship_Tilde_Supply", "HarborTug",
     "La_Combattante_II", "BDK-775", "CastleClass_01", "leander-gun-ariadne"}
Currenthill == {"ALBATROS", "CHAP_Project22160"}
Installations ==
    {{}, BaseGame, BaseGame \cup Currenthill, Models \ Currenthill, Models,
     {"old_vessel"}, {"HandyWind", "HarborTug"}}

\* Lengths of the models, as README.md lists them (Ship models).
Size ==
    ("BDK-775" :> 112) @@ ("leander-gun-ariadne" :> 110) @@
    [HandyWind |-> 180, Seawise_Giant |-> 457, Ship_Tilde_Supply |-> 180,
     HarborTug |-> 20, La_Combattante_II |-> 46, CastleClass_01 |-> 74,
     diesel_trawler |-> 38, fishing_vessel |-> 50, trawler_ship |-> 65,
     yacht_ship |-> 20, yacht_helipad |-> 40, container_ship |-> 180,
     old_vessel |-> 100, ievoli_ivory |-> 190, lng_tanker |-> 245,
     jr_more_tug |-> 65, akademik_cherskiy |-> 116, ALBATROS |-> 71,
     CHAP_Project22160 |-> 94]
Sized == DOMAIN Size

OfCategory(c) == UNION {ToSet(b.models) : b \in Brackets[c]}

\* A model is one of the vessel's category or a universal one; "it won't try to
\* spawn anything you don't have" (README.md:90): one that DCS has reported to
\* lack is chosen only when it has none of the preferred ones nor of the
\* universal ones.
ASSUME InstalledIfPossible ==
    \A t \in Codes, l \in Metres \cup {0}, S \in Installations :
        LET c == ShipCategory(t)
            good == ToSet(Suited(c, l)) \cup ToSet(Fallbacks)
        IN  \A m \in dcsUnitType(Report(S), t, l) :
                /\ m \in OfCategory(c) \cup ToSet(Fallbacks)
                /\ m \notin S => S \cap good = {}

\* "Bigger ships get bigger models" (README.md:90): of two vessels of one
\* category and of different brackets, with everything installed, the longer
\* one's model is not the shorter.
ASSUME BiggerIsNotSmaller ==
    \A c \in Categories, k, l \in Metres :
        (k < l /\ Suited(c, k) # Suited(c, l)) =>
            \A m \in pick(NoReport, Suited(c, k)) \cap Sized,
               n \in pick(NoReport, Suited(c, l)) \cap Sized : Size[m] <= Size[n]

\* The brackets of these categories are cut half way between the sizes of their
\* models, so that a vessel of known length is offered one as close in size as
\* any other of the category.  Cargo and passenger ships are cut at 82 m, between
\* models of 100 and 180 m, and other at 217 m: there it does not hold.
ASSUME CutHalfWay ==
    \A c \in {"fishing", "tug", "pleasure", "tanker", "other"} :
        \A l \in Metres \ (IF c = "other" THEN 181..217 ELSE {}) :
            LET Gap(m) == IF Size[m] > l THEN Size[m] - l ELSE l - Size[m] IN
            \E m \in ToSet(Suited(c, l)) \cap Sized :
                \A n \in OfCategory(c) \cap Sized : Gap(m) <= Gap(n)
=============================================================================
