------------------------- MODULE AssemblyIntelligence -------------------------
(***************************************************************************)
(* calculation_engine/assembly_intelligence.py and                         *)
(* strength_class_report.py: the fourteen checks of one assembly, made by  *)
(* the engines of the library, and their score.                            *)
(*                                                                         *)
(* lib maps the key of each library to its records, and "bolt classes" and *)
(* "nut classes" to those of bolt_nut_strength_classes.json.  An assembly  *)
(* maps each argument of assess_assembly to a value or Null.               *)
(***************************************************************************)
EXTENDS BoltNutPairing, FrictionAdvice

CONSTANT RegisteredStandards   \* backend.standards, which no code changes

Arguments ==
    {"bolt_designation", "nut_designation", "bolt_strength_class", "nut_property_class",
     "nominal_diameter_mm", "thread_designation", "bolt_size", "washer_standard",
     "friction_condition_id", "standard_name", "oem_reference", "automotive_reference",
     "intended_operating_temperature_c", "intended_coating"}

First(rs, Holds(_)) ==
    LET S == {i \in DOMAIN rs : Holds(rs[i])}
    IN  IF S = {} THEN Null ELSE rs[CHOOSE i \in S : \A j \in S : i <= j]

(* Mutant of ResolveBolt: the first of the name.                           *)
ResolveBoltFirst(lib, designation, d) ==
    LET Named(r) == Get(r, "designation") = designation
    IN  IF Empty(designation) THEN Null ELSE First(lib["bolt library"], Named)

(* _resolve_bolt: one of the diameter, or else one of another diameter.    *)
ResolveBolt(lib, designation, d) ==
    LET Named(r) == Get(r, "designation") = designation
        Sized_(r) == Named(r) /\ d \in {Null, Get(r, "diameter_mm")}
        sized == First(lib["bolt library"], Sized_)
    IN  IF Empty(designation) THEN Null
        ELSE IF sized # Null THEN sized ELSE First(lib["bolt library"], Named)

(* _resolve_nut: find_nut compares the name of the size in the thread.     *)
ThreadSize(r) ==
    IF Get(r, "thread") \in {Null, Blank, Unparseable} THEN Null ELSE r["thread"].d

ResolveNut(lib, designation, d) ==
    LET Named(r) == Get(r, "designation") = designation
        Sized_(r) == Named(r) /\ d \in {Null, ThreadSize(r)}
        sized == First(lib["nut library"], Sized_)
    IN  IF Empty(designation) THEN Null
        ELSE IF sized # Null THEN sized ELSE First(lib["nut library"], Named)

Verdict(assessed, holds) ==
    IF ~assessed THEN "insufficient_data" ELSE IF holds THEN "compatible" ELSE "incompatible"

-----------------------------------------------------------------------------
(* The checks.                                                             *)

CheckDimensional(bolt, nut) ==
    Verdict(Null \notin {bolt, nut},
            Null \notin {bolt, nut} /\ Pairing(bolt, nut).compatible)

CheckStrength(lib, boltClass, nutClass, d) ==
    LET result == StrengthPairing(lib["bolt classes"], lib["nut classes"], boltClass, nutClass,
                                  d, Null, Null)
    IN  IF result.status = "error" THEN "error"
        ELSE Verdict(~Empty(boltClass) /\ ~Empty(nutClass) /\ result.status # "unknown",
                     result.status = "compatible")

CheckThread(lib, designation, d) ==
    LET rs == lib["thread library"] IN
    Verdict(~Empty(designation),
            \E i \in DOMAIN rs : /\ Get(rs[i], "designation") = designation
                                 /\ d \in {Null, Get(rs[i], "nominal_diameter_mm")})

(* find_washer_for_bolt *)
WashersFor(lib, size) ==
    {i \in DOMAIN lib["washer library"] : size \in BoltSizes(lib["washer library"][i])}

CheckBoltWasher(lib, size) == Verdict(~Empty(size), WashersFor(lib, size) # {})

(* The field that is compared is "standard", which no washer record has:   *)
(* theirs is "source_standard".                                            *)
CheckWasherDiameter(lib, size, standard) ==
    Verdict(~Empty(size) /\ ~Empty(standard) /\ WashersFor(lib, size) # {},
            \E i \in WashersFor(lib, size) : Get(lib["washer library"][i], "standard") = standard)

CheckFriction(lib, id) ==
    LET answer == FrictionReadiness(lib, id, FALSE, FALSE) IN
    IF Empty(id) THEN "insufficient_data"
    ELSE IF Refusal(lib, id) # Null THEN "incompatible"
    ELSE Verdict(answer.scenarios # Null, TRUE)

CheckRegistered(name) == Verdict(~Empty(name), name \in RegisteredStandards)

(* A record with one end of its range is not compared.                     *)
CheckTemperature(bolt, nut, t) ==
    LET Lowest(r) == Get(r, "operating_temperature_min_c")
        Highest(r) == Get(r, "operating_temperature_max_c")
        Outside(r) == /\ Null \notin {Lowest(r), Highest(r)}
                      /\ ~(Lowest(r) <= t /\ t <= Highest(r))
    IN  Verdict(/\ t # Null /\ Null \notin {bolt, nut}
                /\ \E r \in {bolt, nut} : Lowest(r) # Null,
                \A r \in {bolt, nut} : ~Outside(r))

CheckCoating(bolt, nut, coating) ==
    LET given == ~Empty(coating) /\ Null \notin {bolt, nut} IN
    Verdict(given /\ Coatings(bolt) \cup Coatings(nut) # {},
            \A r \in {bolt, nut} : Coatings(r) = {} \/ coating \in Coatings(r))

-----------------------------------------------------------------------------
(* assess_assembly and its report (assembly_intelligence_report.py).  The  *)
(* score is the fraction <<compatible, assessed>>.  What the strength      *)
(* check raises nobody catches: there is no assessment.                    *)

Blocked == "blocked_authoritative_source"

Checks(lib, a) ==
    LET d == a["nominal_diameter_mm"]
        bolt == ResolveBolt(lib, a["bolt_designation"], d)
        nut == ResolveNut(lib, a["nut_designation"], d)
    IN  [bolt_nut_dimensional |-> CheckDimensional(bolt, nut),
         bolt_washer |-> CheckBoltWasher(lib, a["bolt_size"]),
         washer_diameter |-> CheckWasherDiameter(lib, a["bolt_size"], a["washer_standard"]),
         thread |-> CheckThread(lib, a["thread_designation"], d),
         strength_class |-> CheckStrength(lib, a["bolt_strength_class"],
                                          a["nut_property_class"], d),
         friction_condition |-> CheckFriction(lib, a["friction_condition_id"]),
         operating_temperature |->
             CheckTemperature(bolt, nut, a["intended_operating_temperature_c"]),
         coating |-> CheckCoating(bolt, nut, a["intended_coating"]),
         standard |-> CheckRegistered(a["standard_name"]),
         oem_recommendation |-> CheckRegistered(a["oem_reference"]),
         automotive_recommendation |-> CheckRegistered(a["automotive_reference"]),
         intended_use |-> Blocked, material |-> Blocked, defence_recommendation |-> Blocked]

StrengthRaises(lib, a) ==
    CheckStrength(lib, a["bolt_strength_class"], a["nut_property_class"],
                  a["nominal_diameter_mm"]) = "error"

NoAssessment == [error |-> "strength_class"]

Assess(lib, a) ==
    LET checks == Checks(lib, a)
        With(v) == {c \in DOMAIN checks : checks[c] = v}
        assessed == With("compatible") \cup With("incompatible")
    IN  IF StrengthRaises(lib, a) THEN NoAssessment ELSE
        [checks |-> checks,
         overall |-> IF assessed = {} THEN "not_assessable" ELSE "assessed",
         score |-> IF assessed = {} THEN Null
                   ELSE <<Cardinality(With("compatible")), Cardinality(assessed)>>,
         coverage |-> <<Cardinality(assessed), Cardinality(DOMAIN checks)>>,
         critical |-> With("incompatible"),
         risk |-> IF With("incompatible") # {} THEN "critical"
                  ELSE IF assessed = {} THEN "not_assessable"
                  ELSE "no_critical_incompatibility_detected"]

-----------------------------------------------------------------------------
(* strength_class_report.collect_strength_class_snapshot *)

StrengthSnapshot(lib, boltClass, nutClass, d, manual) ==
    LET bolts == lib["bolt classes"]
        bolt == GetClass(bolts, boltClass)
        status == StrengthPairing(bolts, lib["nut classes"], boltClass, nutClass, d,
                                  Null, Null).status
    IN  IF status = "error" THEN NoAssessment ELSE
        [properties |-> IF bolt = Null THEN <<>>
                        ELSE ResolveStrength(bolts, bolt["designation"], manual),
         compatibility |-> IF Empty(boltClass) \/ Empty(nutClass) THEN Null ELSE status,
         standard |-> IF bolt = Null THEN Null ELSE bolt["standard"],
         verification |-> IF bolt = Null THEN Null ELSE bolt["verification_status"],
         manual_override |-> manual # <<>>]

=============================================================================
