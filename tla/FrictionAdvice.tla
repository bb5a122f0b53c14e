---------------------------- MODULE FrictionAdvice ----------------------------
(***************************************************************************)
(* calculation_engine/friction_readiness.py, friction_recommendations.py   *)
(* and material_intelligence.py: what may be said of a friction condition  *)
(* or of a material from its record.  lib maps the key of each library to  *)
(* its records; an answer is a record, or <<"error", why>>.  Coefficients  *)
(* are in thousandths.                                                     *)
(***************************************************************************)
EXTENDS LibraryChecks

Conditions(lib) == lib["friction condition library"]

ById(rs, id) ==
    LET S == {i \in DOMAIN rs : Get(rs[i], "id") = id}
    IN  IF S = {} THEN Null ELSE rs[CHOOSE i \in S : \A j \in S : i <= j]

(* None is none of the codes that a request is refused with.               *)
ASSUME NoCode ==
    Null \notin {"unknown_friction_condition_id", "broken_reference",
                 "missing_source_traceability"}

(* _resolve_raw_record, _check_reference_integrity,                        *)
(* _check_source_traceability: why a condition is refused, or Null.        *)
Refusal(lib, id) ==
    LET r == ById(Conditions(lib), id) IN
    IF r = Null THEN "unknown_friction_condition_id"
    ELSE IF \/ Dangling(<<r>>, "coating_id", Values(lib["coating library"], "id")) # {}
            \/ Dangling(<<r>>, "lubricant_id", Values(lib["lubrication library"], "id")) # {}
         THEN "broken_reference"
    ELSE IF Empty(Get(r, "source_reference")) THEN "missing_source_traceability" ELSE Null

Pair(r, low, high) == Get(r, low) # Null /\ Get(r, high) # Null
HasOverall(r) ==
    Pair(r, "overall_friction_coefficient_min", "overall_friction_coefficient_max")
HasSplit(r) ==
    Pair(r, "mu_thread_min", "mu_thread_max") /\ Pair(r, "mu_bearing_min", "mu_bearing_max")
HasK(r) == Pair(r, "k_factor_min", "k_factor_max")
Low(r) == r["overall_friction_coefficient_min"]
High(r) == r["overall_friction_coefficient_max"]

(* assess_friction_readiness.  The nominal estimate is doubled: it is the  *)
(* middle of the range.                                                    *)
FrictionReadiness(lib, id, geometry, preload) ==
    LET r == ById(Conditions(lib), id)
        separated == HasSplit(r) /\ geometry /\ preload
        reference == Get(r, "verification_status") = "reference_only"
        Reason(holds, text) == IF holds THEN {text} ELSE {}
    IN  IF Refusal(lib, id) # Null THEN <<"error", Refusal(lib, id)>>
        ELSE [mode |-> IF separated THEN "mode_b_separated_model"
                       ELSE IF HasOverall(r) THEN "mode_a_combined_estimate" ELSE "blocked",
              decomposition |-> separated,
              blocking |->
                 IF separated THEN {}
                 ELSE IF HasOverall(r)
                 THEN {"unsupported_friction_model"}
                      \cup Reason(~HasSplit(r), "insufficient_friction_data")
                      \cup Reason(~geometry, "missing_joint_geometry")
                 ELSE {"insufficient_friction_data"},
              scenarios |-> IF ~separated /\ HasOverall(r)
                            THEN <<Low(r), Low(r) + High(r), High(r)>> ELSE Null,
              warnings |-> Reason(~separated /\ HasOverall(r), "combined")
                           \cup Reason(reference, "reference_only_source")]

(* _referenced_status_and_warning: that of the coating, and of the         *)
(* lubricant only when there is no coating.                                *)
ReferencedStatus(lib, r) ==
    LET coating == ById(lib["coating library"], r["coating_id"])
        lubricant == ById(lib["lubrication library"], r["lubricant_id"])
    IN  IF ~Empty(Get(r, "coating_id")) /\ coating # Null THEN Get(coating, "status")
        ELSE IF ~Empty(Get(r, "lubricant_id")) /\ lubricant # Null THEN Get(lubricant, "status")
        ELSE Null

(* generate_friction_warnings *)
FrictionWarnings(lib, id) ==
    LET r == ById(Conditions(lib), id)
        readiness == FrictionReadiness(lib, id, FALSE, FALSE)
        Reason(holds, text) == IF holds THEN {text} ELSE {}
    IN  Reason(Get(r, "friction_model") = "combined_or_unspecified", "combined")
        \cup Reason(Get(r, "verification_status") = "reference_only", "reference_only")
        \cup Reason(ReferencedStatus(lib, r) = "restricted_legacy", "restricted_legacy")
        \cup Reason(readiness.blocking # {} /\ ~readiness.decomposition, "torque")

Levels == <<"warnings_only", "comparison_only", "engineering_recommendation_ready",
            "production_recommendation_ready">>
Rank(level) == CHOOSE n \in DOMAIN Levels : Levels[n] = level

MinimumLevel ==
    [reference_comparison |-> "comparison_only",
     engineering_calculation |-> "engineering_recommendation_ready",
     production_release |-> "production_recommendation_ready"]

(* assess_recommendation_readiness, for an intended use or Null.           *)
Recommendation(lib, id, use) ==
    LET r == ById(Conditions(lib), id)
        complete == ~Empty(Get(r, "coating_id")) \/ ~Empty(Get(r, "lubricant_id"))
        compares == complete /\ HasOverall(r)
        level == IF compares THEN "comparison_only" ELSE "warnings_only"
        short == use \in DOMAIN MinimumLevel /\ Rank(level) < Rank(MinimumLevel[use])
    IN  IF Refusal(lib, id) # Null THEN <<"error", Refusal(lib, id)>>
        ELSE [available |-> complete, level |-> level,
              capabilities |-> (IF compares THEN {"reference_comparison"} ELSE {})
                               \cup (IF HasSplit(r) \/ HasK(r) THEN {"torque_sensitivity"} ELSE {}),
              warnings |-> FrictionWarnings(lib, id)
                           \cup (IF short THEN {"intended_use"} ELSE {})]

(* compare_friction_conditions, _width_relation *)
Comparison(lib, a, b) ==
    LET ra == ById(Conditions(lib), a)
        rb == ById(Conditions(lib), b)
        wa == High(ra) - Low(ra)
        wb == High(rb) - Low(rb)
        width == IF wa = wb THEN "equal_width"
                 ELSE IF wa < wb THEN "a_narrower" ELSE "b_narrower"
    IN  IF Refusal(lib, a) # Null THEN <<"error", Refusal(lib, a)>>
        ELSE IF Refusal(lib, b) # Null THEN <<"error", Refusal(lib, b)>>
        ELSE IF ~HasOverall(ra) \/ ~HasOverall(rb)
        THEN [range |-> "not_comparable", width |-> "not_comparable"]
        ELSE [range |-> IF <<Low(ra), High(ra)>> = <<Low(rb), High(rb)>> THEN "identical"
                        ELSE IF High(ra) < Low(rb) THEN "a_lower"
                        ELSE IF High(rb) < Low(ra) THEN "b_lower" ELSE "overlapping",
              width |-> width]

-----------------------------------------------------------------------------
(* material_intelligence.py.  A requirement maps the fields it bounds to   *)
(* their least value; a family may be asked for beside it.  The field      *)
(* "material" of a record is the set of the families that its text names.  *)

Materials(lib) == lib["material library"]
RequirementFields == {"rp02_mpa", "rm_mpa", "elastic_modulus_mpa"}

OfFamily(r, family) ==
    Empty(family) \/ ("material" \in DOMAIN r /\ family \in r["material"])

MatchMaterials(lib, requirement, family) ==
    LET Meets(r) ==
            /\ \A f \in DOMAIN requirement : Get(r, f) # Null /\ r[f] >= requirement[f]
            /\ OfFamily(r, family)
    IN  Where(Materials(lib), Meets)

Relation(a, b) ==
    IF Null \in {a, b} THEN "not_comparable"
    ELSE IF a > b THEN "a_higher" ELSE IF a < b THEN "b_higher" ELSE "equal"

(* compare_materials *)
CompareMaterials(lib, a, b) ==
    LET ra == ById(Materials(lib), a)
        rb == ById(Materials(lib), b)
    IN  IF Null \in {ra, rb} THEN <<"error", "unknown material">>
        ELSE [f \in RequirementFields |->
                 Relation(Get(ra, f), Get(rb, f))]

(* The level is that of the whole library, whatever the candidates are.    *)
MaterialLevel(rs) ==
    IF rs = <<>> THEN "data_insufficient"
    ELSE IF \/ Values(rs, "validation_status") = {"reference_only"}
            \/ Values(rs, "approval_status") = {"pending"}
    THEN "comparison_only" ELSE "engineering_recommendation_ready"

(* _margin_ratio: the least r[f] / requirement[f].                         *)
MarginFields(r, requirement) == {f \in DOMAIN requirement : requirement[f] > 0}
LessMargin(r, f, s, g, requirement) == r[f] * requirement[g] < s[g] * requirement[f]
HigherMargin(r, s, requirement) ==
    \E g \in MarginFields(s, requirement) : \A f \in MarginFields(r, requirement) :
        LessMargin(s, g, r, f, requirement)

(* Higher margins first, then the lower id (a number here), then the order *)
(* of the file.                                                            *)
MaterialBefore(rs, requirement, i, j) ==
    IF \A f \in DOMAIN requirement : requirement[f] = 0 THEN i < j
    ELSE \/ HigherMargin(rs[i], rs[j], requirement)
         \/ /\ ~HigherMargin(rs[j], rs[i], requirement)
            /\ rs[i]["id"] < rs[j]["id"] \/ (rs[i]["id"] = rs[j]["id"] /\ i < j)

(* recommend_materials *)
RecommendMaterials(lib, requirement, family) ==
    LET rs == Materials(lib)
        level == MaterialLevel(rs)
        matched == IF level = "data_insufficient" THEN {}
                   ELSE MatchMaterials(lib, requirement, family)
        Place(i) == Cardinality({j \in matched : MaterialBefore(rs, requirement, j, i)}) + 1
    IN  [level |-> level,
         candidates |-> [n \in 1..Cardinality(matched) |->
                            CHOOSE i \in matched : Place(i) = n],
         missing |-> level # "engineering_recommendation_ready",
         blocking |-> (IF level = "engineering_recommendation_ready" THEN {}
                       ELSE {"approval_pending"})
                      \cup (IF matched = {} THEN {"no_candidates"} ELSE {})]

=============================================================================
