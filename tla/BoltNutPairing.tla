---------------------------- MODULE BoltNutPairing ----------------------------
(***************************************************************************)
(* The two engines that pair a bolt with a nut.  The one of                *)
(* compatibility_engine.py compares two records of the bolt and nut        *)
(* libraries; the one of strength_compatibility.py compares two strength   *)
(* classes, which it looks up in bolt_nut_strength_classes.json.  They do  *)
(* not call each other and each has its own table of the smallest nut      *)
(* class a bolt class may have.                                            *)
(*                                                                         *)
(* A tolerance class is "external" (its letter is lower case) or           *)
(* "internal"; a coating list is a set.                                    *)
(***************************************************************************)
EXTENDS LibraryChecks

CONSTANTS
    Numeral,        \* the numbers of the nut classes that are numbers
    FamilyOf        \* the organisation each standard of a record begins with

(* float() of the names of the nut classes that either table refers to.    *)
ASSUME NumeralAssumption ==
    /\ \A n \in DOMAIN Numeral : Numeral[n] \in Int
    /\ {"04", "4", "5", "6", "8", "9", "10", "12"} \subseteq DOMAIN Numeral
    /\ Numeral["04"] = 4 /\ Numeral["4"] = 4 /\ Numeral["5"] = 5 /\ Numeral["6"] = 6
    /\ Numeral["8"] = 8 /\ Numeral["9"] = 9 /\ Numeral["10"] = 10 /\ Numeral["12"] = 12

Note(holds, text) == IF holds THEN {text} ELSE {}
Both(a, b) == ~Empty(a) /\ ~Empty(b)
Temperature(r) == <<Get(r, "operating_temperature_min_c"),
                    Get(r, "operating_temperature_max_c")>>
Coatings(r) == IF "coating_compatibility" \in DOMAIN r THEN r["coating_compatibility"] ELSE {}

-----------------------------------------------------------------------------
(* compatibility_engine.py                                                 *)

MinimumNutClass ==
    [b \in {"3.6", "4.6", "4.8", "5.6", "5.8", "6.8", "6.9", "8.8", "9.8", "10.9", "12.9"} |->
        CASE b = "3.6" -> "04"
          [] b \in {"4.6", "4.8"} -> "4"
          [] b \in {"5.6", "5.8"} -> "5"
          [] b \in {"6.8", "6.9"} -> "6"
          [] b = "8.8" -> "8"
          [] b = "9.8" -> "9"
          [] b = "10.9" -> "10"
          [] b = "12.9" -> "12"]

Diameter(r) == GetOr(r, "nominal_diameter_mm", "diameter_mm")
PitchOf(r) == GetOr(r, "pitch_mm", "pitch_coarse_mm")

NutTooWeak(bolt, nut) ==
    /\ Get(bolt, "property_class") \in DOMAIN MinimumNutClass
    /\ Get(nut, "property_class") \in DOMAIN Numeral
    /\ Numeral[nut["property_class"]] < Numeral[MinimumNutClass[bolt["property_class"]]]

PairingErrors(bolt, nut) ==
    LET known == Null \notin {Diameter(bolt), Diameter(nut)}
        a == Get(bolt, "coarse_or_fine")
        b == Get(nut, "coarse_or_fine")
    IN  Note(~known, "no diameter") \cup Note(known /\ Diameter(bolt) # Diameter(nut), "diameter")
        \cup Note(/\ Null \notin {PitchOf(bolt), PitchOf(nut)}
                  /\ PitchOf(bolt) # PitchOf(nut), "pitch")
        \cup Note(Both(a, b) /\ a # b, "coarse/fine")
        \cup Note(NutTooWeak(bolt, nut), "nut class")

PairingWarnings(bolt, nut) ==
    LET Tolerance(r) == Get(r, "thread_tolerance_class")
        boltClass == Get(bolt, "property_class")
        nutClass == Get(nut, "property_class")
        tb == Temperature(bolt)
        tn == Temperature(nut)
        Standard(r) == Get(r, "source_standard")
        Lube(r) == Get(r, "lubrication_state")
    IN  Note(/\ Both(Tolerance(bolt), Tolerance(nut))
             /\ <<Tolerance(bolt), Tolerance(nut)>> # <<"external", "internal">>, "tolerance")
        \cup Note(/\ boltClass \in DOMAIN MinimumNutClass
                  /\ ~Empty(nutClass) /\ nutClass \notin DOMAIN Numeral, "not compared")
        \cup Note(~Empty(boltClass) /\ boltClass \notin DOMAIN MinimumNutClass, "bolt class")
        \cup Note(/\ \A t \in {tb[1], tb[2], tn[1], tn[2]} : IsNumber(t)
                  /\ tb[1] > tn[2] \/ tn[1] > tb[2] \/ tb[1] > tb[2] \/ tn[1] > tn[2],
                  "temperature")
        \cup Note(/\ Coatings(bolt) # {} /\ Coatings(nut) # {}
                  /\ Coatings(bolt) \cap Coatings(nut) = {}, "coating")
        \cup Note(/\ "locking_type" \in DOMAIN nut
                  /\ nut["locking_type"] \notin {Null, Blank, "None"}
                  /\ Get(nut, "reusable") = FALSE, "not reusable")
        \cup Note(/\ Both(Standard(bolt), Standard(nut))
                  /\ FamilyOf[Standard(bolt)] # FamilyOf[Standard(nut)], "standard family")
        \cup Note(Both(Lube(bolt), Lube(nut)) /\ Lube(bolt) # Lube(nut), "lubrication")

(* check_bolt_nut_compatibility *)
Pairing(bolt, nut) ==
    [compatible |-> PairingErrors(bolt, nut) = {}, errors |-> PairingErrors(bolt, nut),
     warnings |-> PairingWarnings(bolt, nut)]

-----------------------------------------------------------------------------
(* strength_classes.py: rs are the bolt or the nut classes.                *)

MatchesDiameter(r, d) ==
    \/ d = Null
    \/ /\ Get(r, "diameter_min_mm") = Null \/ r["diameter_min_mm"] <= d
       /\ Get(r, "diameter_max_mm") = Null \/ d <= r["diameter_max_mm"]

(* list_bolt_strength_classes, list_nut_property_classes: wanted has the   *)
(* fields that must be equal.                                              *)
ListClasses(rs, wanted, d) ==
    {i \in DOMAIN rs : /\ \A f \in DOMAIN wanted : Get(rs[i], f) = wanted[f]
                       /\ MatchesDiameter(rs[i], d)}

(* get_bolt_strength_class, get_nut_property_class: the first of the name. *)
GetClass(rs, designation) ==
    LET S == {i \in DOMAIN rs : Get(rs[i], "designation") = designation}
    IN  IF S = {} \/ Empty(designation) THEN Null
        ELSE rs[CHOOSE i \in S : \A j \in S : i <= j]

(* resolve_strength_properties: a value given by hand, then that of the    *)
(* record, then what the designation says.                                 *)
ResolvedFields == {"nominal_tensile_strength_mpa", "min_tensile_strength_mpa",
                   "yield_ratio", "min_yield_strength_mpa", "proof_stress_mpa"}

ResolveStrength(rs, designation, manual) ==
    LET r == GetClass(rs, designation)
        Derived(f) ==
            IF ~ParsesIso898(designation) THEN Null
            ELSE IF f = "nominal_tensile_strength_mpa" THEN 100 * ClassParts[designation][1]
            ELSE IF f = "yield_ratio" THEN ClassParts[designation][2] ELSE Null
    IN  [f \in ResolvedFields |->
            IF f \in DOMAIN manual THEN <<manual[f], "manual_override">>
            ELSE IF r # Null /\ Get(r, f) # Null THEN <<r[f], "library_record">>
            ELSE IF Derived(f) # Null THEN <<Derived(f), "derived_from_strength_class">>
            ELSE <<Null, Null>>]

-----------------------------------------------------------------------------
(* strength_compatibility.py                                               *)

MinimumNumeral ==
    [b \in {"4.6", "4.8", "5.6", "5.8", "6.8", "8.8", "9.8", "10.9", "12.9"} |->
        CASE b \in {"4.6", "4.8"} -> 4
          [] b \in {"5.6", "5.8"} -> 5
          [] b = "6.8" -> 6
          [] b = "8.8" -> 8
          [] b = "9.8" -> 9
          [] b = "10.9" -> 10
          [] b = "12.9" -> 12]

StandardFamily(s) ==
    IF s \in {"ISO 898", "ISO 898-1", "ISO 898-2"} THEN "iso_898"
    ELSE IF s \in {"ISO 3506", "ISO 3506-1", "ISO 3506-2"} THEN "iso_3506" ELSE s

Stainless(r) == r["material_family"] \in {"stainless_a2", "stainless_a4"}

NutName(n) == CHOOSE c \in DOMAIN Numeral : Numeral[c] = n /\ (n = 4 <=> c = "04")

RecommendedMinimum(designation) ==
    IF designation \notin DOMAIN MinimumNumeral THEN Null
    ELSE LET S == {n \in {4, 5, 6, 8, 9, 10, 12} : n >= MinimumNumeral[designation]}
         IN  IF S = {} THEN Null ELSE NutName(CHOOSE n \in S : \A m \in S : n <= m)

Unknown == [status |-> "unknown", recommended |-> Null, strength |-> "unknown", reasons |-> {},
            warnings |-> {}]
Raised == [Unknown EXCEPT !.status = "error"]

OpenEnded(r) == Null \in {Get(r, "diameter_min_mm"), Get(r, "diameter_max_mm")}

(* check_bolt_nut_strength_compatibility, for a diameter, a standard and a *)
(* material family that may be Null.  The warning of a diameter outside    *)
(* formats all four bounds as numbers: a missing one raises a TypeError.   *)
StrengthPairing(bolts, nuts, boltClass, nutClass, d, standard, family) ==
    LET bolt == GetClass(bolts, boltClass)
        nut == GetClass(nuts, nutClass)
        evaluated == /\ bolt["designation"] \in DOMAIN MinimumNumeral
                     /\ nut["designation"] \in DOMAIN Numeral
        strength == IF ~evaluated THEN "unevaluated"
                    ELSE IF Numeral[nut["designation"]] < MinimumNumeral[bolt["designation"]]
                         THEN "fail" ELSE "pass"
        outside == ~(MatchesDiameter(bolt, d) /\ MatchesDiameter(nut, d))
        reasons ==
            Note(strength = "fail", "strength")
            \cup Note(Stainless(bolt) # Stainless(nut), "material")
            \cup Note(StandardFamily(bolt["standard"]) # StandardFamily(nut["standard"]),
                      "standard")
    IN  IF Null \in {bolt, nut} THEN Unknown
        ELSE IF outside /\ (OpenEnded(bolt) \/ OpenEnded(nut)) THEN Raised
        ELSE [status |-> IF reasons # {} THEN "not_compatible"
                         ELSE IF outside THEN "conditionally_compatible" ELSE "compatible",
              recommended |-> RecommendedMinimum(bolt["designation"]),
              strength |-> strength, reasons |-> reasons,
              warnings |->
                 Note(~evaluated, "strength_pairing_unevaluated")
                 \cup Note(family \notin {Null, bolt["material_family"]},
                           "material_family_mismatch_input")
                 \cup Note(/\ standard # Null
                           /\ StandardFamily(standard) # StandardFamily(bolt["standard"]),
                           "standard_mismatch_input")
                 \cup Note(outside, "diameter_out_of_range")
                 \cup Note(~Empty(Get(bolt, "engineering_warning")),
                           "bolt_class_engineering_warning")]

=============================================================================
