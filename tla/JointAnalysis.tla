---------------------------- MODULE JointAnalysis ----------------------------
(***************************************************************************)
(* backend/calculation_engine/joint_analysis.py and the rules of           *)
(* backend/torque_recommendation over it: which quantities of a joint can  *)
(* be computed from the inputs that were given, what is found critical,    *)
(* how complete the picture is, and whether a torque may be recommended.   *)
(*                                                                         *)
(* Forces and thresholds are integers, in parts of the yield force of the  *)
(* bolt; the load factor Phi is 1/2, and an axial load is given by its     *)
(* half, which is what both the bolt and the parts get of it.  Torque is   *)
(* linear in preload, with a positive coefficient, so the window compares  *)
(* preloads.  An input is a record:                                        *)
(*   geometry      diameter and pitch: "absent", "good" or "degenerate"    *)
(*   rp            Rp0,2 given            ratio, maxRatio, fail, warn      *)
(*   friction      both friction values   parts of the yield force         *)
(*                 and the bearing        bolt, joint  segments given      *)
(*                 diameter given         axial, clamp, applied  loads     *)
(* A number that is not given is NoValue.                                  *)
(***************************************************************************)
EXTENDS Integers, FiniteSets

CONSTANT NoValue

Given(x) == x # NoValue

(* TorqueRecommendationRequest: the ratios and thresholds are positive, the*)
(* clamp load is not negative, and the axial load is any.                  *)
Positive == {NoValue} \cup (Nat \ {0})
Input ==
    [geometry : {"absent", "good", "degenerate"}, rp : BOOLEAN, friction : BOOLEAN,
     bolt : BOOLEAN, joint : BOOLEAN, ratio : Positive, maxRatio : Positive,
     axial : {NoValue} \cup Int, clamp : {NoValue} \cup Nat, applied : Positive,
     fail : Positive, warn : Positive]

(* _TRACKED_QUANTITIES.                                                    *)
TrackedQuantities ==
    {"stress_area_mm2", "target_preload_n", "bolt_stiffness", "joint_stiffness",
     "phi", "bolt_load_increase_n", "residual_clamp_load_n",
     "recommended_torque_nm", "preload_from_applied_torque_n",
     "torque_window_min_nm", "torque_window_max_nm", "yield_utilization",
     "safety_factor"}

(* tensile_stress_area_mm2 raises where the minor diameter is not positive,*)
(* and the endpoint answers 422.                                           *)
Raises(i) == i.geometry = "degenerate"

HasArea(i) == i.geometry = "good"
HasPreload(i) == HasArea(i) /\ i.rp /\ Given(i.ratio)
HasPhi(i) == i.bolt /\ i.joint
TorqueGeometryReady(i) == HasArea(i) /\ i.friction

(* An axial load that is not given is taken as none.                       *)
AxialLoad(i) == IF Given(i.axial) THEN i.axial ELSE 0

Preload(i) == i.ratio
ServiceForce(i) == IF HasPhi(i) THEN Preload(i) + AxialLoad(i) ELSE Preload(i)
Residual(i) == Preload(i) - AxialLoad(i)

(* The torque window, as the preloads of its ends.                         *)
HasMin(i) == TorqueGeometryReady(i) /\ Given(i.clamp)
HasMax(i) == TorqueGeometryReady(i) /\ i.rp /\ Given(i.maxRatio)
WindowMin(i) == IF HasPhi(i) THEN i.clamp + AxialLoad(i) ELSE i.clamp
WindowMax(i) == i.maxRatio

(* evaluate_safety: what is missing is reported before what is invalid.    *)
SafetyStatus(i) ==
    IF ~HasPreload(i) \/ ~Given(i.fail) THEN "missing_input"
    ELSE IF \/ ServiceForce(i) < 0
            \/ Given(i.warn) /\ i.warn >= i.fail THEN "invalid_input"
    ELSE IF ServiceForce(i) > i.fail THEN "fail"
    ELSE IF Given(i.warn) /\ ServiceForce(i) > i.warn THEN "warn"
    ELSE "pass"

Evaluable(i) == SafetyStatus(i) \in {"pass", "warn", "fail"}

(* What analyze_joint fills in.                                            *)
Evaluated(i) ==
    {q \in TrackedQuantities :
        CASE q = "stress_area_mm2" -> HasArea(i)
          [] q = "target_preload_n" -> HasPreload(i)
          [] q = "bolt_stiffness" -> i.bolt
          [] q = "joint_stiffness" -> i.joint
          [] q = "phi" -> HasPhi(i)
          [] q \in {"bolt_load_increase_n", "residual_clamp_load_n"} ->
                HasPhi(i) /\ HasPreload(i)
          [] q = "recommended_torque_nm" -> TorqueGeometryReady(i) /\ HasPreload(i)
          [] q = "preload_from_applied_torque_n" ->
                TorqueGeometryReady(i) /\ Given(i.applied)
          [] q = "torque_window_min_nm" -> HasMin(i)
          [] q = "torque_window_max_nm" -> HasMax(i)
          [] q = "yield_utilization" -> Evaluable(i)
          [] q = "safety_factor" -> Evaluable(i) /\ ServiceForce(i) > 0}

(* A negative residual clamp load, a window whose ends are the wrong way   *)
(* round, and a stress above the threshold.                                *)
CriticalFindings(i) ==
    {f \in {"residual_clamp_load_negative", "torque_window_inverted",
            "yield_utilization_fail"} :
        CASE f = "residual_clamp_load_negative" ->
                HasPhi(i) /\ HasPreload(i) /\ Residual(i) < 0
          [] f = "torque_window_inverted" ->
                HasMin(i) /\ HasMax(i) /\ WindowMin(i) > WindowMax(i)
          [] f = "yield_utilization_fail" -> SafetyStatus(i) = "fail"}

(* The formulas whose trace is not APPROVED; each adds a warning.          *)
ProvisionalTraces(i) ==
    {"VDI2230_RESULT"}
    \cup {f \in {"VDI2230_AS", "VDI2230_PRELOAD", "VDI2230_CB", "VDI2230_CC",
                 "RESIDUAL_CLAMP_LOAD", "PRELOAD_FROM_TORQUE", "SAFETY_FACTOR"} :
            CASE f = "VDI2230_AS" -> HasArea(i)
              [] f = "VDI2230_PRELOAD" -> HasPreload(i)
              [] f = "VDI2230_CB" -> i.bolt
              [] f = "VDI2230_CC" -> i.joint
              [] f = "RESIDUAL_CLAMP_LOAD" -> HasPhi(i) /\ HasPreload(i)
              [] f = "PRELOAD_FROM_TORQUE" -> TorqueGeometryReady(i) /\ Given(i.applied)
              [] f = "SAFETY_FACTOR" -> Evaluable(i) /\ ServiceForce(i) > 0}

FormulaTrace(i) ==
    ProvisionalTraces(i)
    \cup (IF HasPhi(i) THEN {"VDI2230_PHI"} ELSE {})
    \cup (IF HasPhi(i) /\ HasPreload(i) THEN {"VDI2230_FS"} ELSE {})

Warnings(i) ==
    ProvisionalTraces(i)
    \cup (IF Given(i.axial) THEN {} ELSE {"no_axial_load"})
    \cup (IF HasMin(i) /\ ~HasPhi(i) THEN {"min_without_phi"} ELSE {})
    \cup (IF SafetyStatus(i) = "warn" THEN {"yield_utilization_warn"} ELSE {})

Readiness(i) ==
    IF Evaluated(i) = {} THEN "insufficient_data"
    ELSE IF HasMin(i) /\ HasMax(i) /\ Evaluable(i) THEN "full"
    ELSE IF HasMin(i) \/ HasMax(i) THEN "torque_window_partial"
    ELSE "partial"

(* Mutant of Classify: critical findings are left to the safety status.    *)
ClassifyUncritical(i) ==
    IF "recommended_torque_nm" \notin Evaluated(i) \/ SafetyStatus(i) = "fail"
    THEN <<"not_applicable", "NOT_APPLICABLE">>
    ELSE IF Readiness(i) = "full" THEN <<"recommended", "MEDIUM">>
    ELSE <<"recommended", "LOW">>

(* classify: the status and the confidence of a recommendation.            *)
Classify(i) ==
    IF \/ CriticalFindings(i) # {}
       \/ "recommended_torque_nm" \notin Evaluated(i)
       \/ Readiness(i) = "insufficient_data"
    THEN <<"not_applicable", "NOT_APPLICABLE">>
    ELSE IF Readiness(i) # "full" THEN <<"recommended", "LOW">>
    ELSE IF SafetyStatus(i) = "pass" /\ Warnings(i) = {} /\ ProvisionalTraces(i) = {}
    THEN <<"recommended", "HIGH">>
    ELSE <<"recommended", "MEDIUM">>

(* recommend_torque: the torque is withheld unless it is recommended.      *)
Recommend(i) ==
    LET status == Classify(i)[1]
        computed == IF "recommended_torque_nm" \in Evaluated(i) THEN Preload(i)
                    ELSE NoValue
    IN  [status |-> status, confidence |-> Classify(i)[2],
         recommended |-> IF status = "recommended" THEN computed ELSE NoValue,
         calculated |-> computed,
         readiness |-> Readiness(i), critical |-> CriticalFindings(i),
         sources |-> FormulaTrace(i), coverage |-> Cardinality(Evaluated(i))]

-----------------------------------------------------------------------------

(* What a torque must satisfy to be recommended, from the inputs alone: it *)
(* is known, the joint does not open under the load, the bolt stays below  *)
(* the threshold that was given, and the required clamp load can be had    *)
(* within the limit.                                                       *)
SafeTorque(i, torque) ==
    /\ i.geometry = "good" /\ i.rp /\ i.friction /\ torque = i.ratio
    /\ i.bolt /\ i.joint => torque >= AxialLoad(i)
    /\ Given(i.fail) /\ (Given(i.warn) => i.warn < i.fail) =>
          torque + (IF i.bolt /\ i.joint THEN AxialLoad(i) ELSE 0) <= i.fail
    /\ Given(i.clamp) /\ Given(i.maxRatio) =>
          i.clamp + (IF i.bolt /\ i.joint THEN AxialLoad(i) ELSE 0) <= i.maxRatio

=============================================================================
