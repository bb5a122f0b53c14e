---------------------------- MODULE LibraryChecks ----------------------------
(***************************************************************************)
(* backend/library/validator.py, strength_validator.py and the checks of   *)
(* population.py: what is flagged in the records of the engineering        *)
(* library.                                                                *)
(*                                                                         *)
(* A record is a function from the fields it has to their values; a value *)
(* is a number, a text (Blank if empty) or Null.  Lengths are in           *)
(* micrometres, areas in hundredths of a square millimetre.  A designation *)
(* is what its pattern finds, [d, p] with p Null in "M10", or Unparseable; *)
(* a hardness range is Blank, <<low, high>> or Unparseable.  A check is    *)
(* the set of the indices it flags; a report is a set of <<check, index>>. *)
(***************************************************************************)
EXTENDS Integers, Sequences, FiniteSets

CONSTANTS
    Null, Blank, Unparseable,
    ThreadSchemaVersion, KnownThreadFields, KnownThreadSeries,
    KnownBoltClasses, KnownNutClasses,
    KnownMaterialGrades,
    ClassParts,         \* the two numbers of each designation like "8.8"
    CoarsePitch         \* _ISO_724_COARSE_PITCH_MM

(* None, "" and a text without a match are not numbers.                    *)
ASSUME NoNumbers == \A v \in {Null, Blank, Unparseable} : v \notin Int

Get(r, f) == IF f \in DOMAIN r THEN r[f] ELSE Null
GetOr(r, f, g) == IF f \in DOMAIN r THEN r[f] ELSE Get(r, g)
IsNumber(v) == v \in Int
IsPositive(v) == IsNumber(v) /\ v > 0
Empty(v) == v \in {Null, Blank}
Abs(n) == IF n < 0 THEN -n ELSE n

Where(rs, Bad(_)) == {i \in DOMAIN rs : Bad(rs[i])}

(* Every record whose key an earlier one has; some records have none.      *)
Repeated(rs, Keyed(_), Key(_)) ==
    {i \in DOMAIN rs :
        Keyed(rs[i]) /\ \E j \in 1..(i - 1) : Keyed(rs[j]) /\ Key(rs[j]) = Key(rs[i])}

Always(r) == TRUE

(* Both numbers, and the first above the second.                           *)
Inverted(low, high) == IsNumber(low) /\ IsNumber(high) /\ low > high

-----------------------------------------------------------------------------
(* Any library.                                                            *)

DuplicateIds(rs) ==
    LET HasId(r) == "id" \in DOMAIN r
        Id(r) == r["id"]
    IN  Repeated(rs, HasId, Id)

MissingFields(rs, fields) ==
    LET Bad(r) == \E f \in fields : Empty(Get(r, f)) IN Where(rs, Bad)

UnitMismatches(rs, units) ==
    LET Bad(r) == "unit" \in DOMAIN r /\ r["unit"] \notin units
    IN  IF units = {} THEN {} ELSE Where(rs, Bad)

InvalidThreads(rs, field) ==
    LET Bad(r) == field \in DOMAIN r /\ r[field] \in {Null, Unparseable} IN Where(rs, Bad)

InvalidMaterials(rs) ==
    LET Bad(r) == "material" \in DOMAIN r /\ r["material"] \notin KnownMaterialGrades
    IN  Where(rs, Bad)

BrokenCompatibility(rs) ==
    LET Bad(r) == \/ Get(r, "bolt_class") \notin KnownBoltClasses
                  \/ Get(r, "minimum_nut_class") \notin KnownNutClasses
    IN  Where(rs, Bad)

MissingSource(rs) ==
    LET Bad(r) == Empty(Get(r, "source")) /\ Empty(Get(r, "source_standard"))
    IN  Where(rs, Bad)

VerifiedMissingRevision(rs) ==
    LET Bad(r) == /\ \/ Get(r, "validation_status") = "validated"
                     \/ Get(r, "verification_status") = "verified"
                  /\ Empty(Get(r, "revision"))
    IN  Where(rs, Bad)

TemperatureRange(rs) ==
    LET Bad(r) == Inverted(Get(r, "operating_temperature_min_c"),
                           Get(r, "operating_temperature_max_c"))
    IN  Where(rs, Bad)

DuplicateDesignation(rs) ==
    LET Key(r) == <<Get(r, "designation"), Get(r, "source_standard"),
                    GetOr(r, "nominal_diameter_mm", "diameter_mm")>>
    IN  Repeated(rs, Always, Key)

-----------------------------------------------------------------------------
(* Threads.                                                                *)

IsMetric(r) == Get(r, "thread_series") = "ISO_METRIC"
Sized(r) == IsNumber(Get(r, "nominal_diameter_mm")) /\ IsNumber(Get(r, "pitch_mm"))

(* backend/library/thread_geometry.py, and ISO 898-1 for the stress area.  *)
MinorExternal(d, p) == d - (12269 * p) \div 10000
MinorInternal(d, p) == d - (10825 * p) \div 10000
StressArea(d, p) ==
    LET x == (d - (9382 * p) \div 10000) \div 10 IN (((x * x) \div 100) * 7854) \div 10000

Off(v, expected, tolerance) == ~IsNumber(v) \/ Abs(v - expected) > tolerance

DuplicateThreads(rs) ==
    LET Key(r) == <<Get(r, "designation"), Get(r, "pitch_mm")>>
    IN  Repeated(rs, Always, Key)

NonPositiveThreads(rs) ==
    LET Bad(r) == \E f \in {"nominal_diameter_mm", "pitch_mm"} : ~IsPositive(Get(r, f))
    IN  Where(rs, Bad)

DesignationDiameter(rs) ==
    LET Bad(r) ==
            /\ IsMetric(r)
            /\ \/ Get(r, "designation") \in {Null, Unparseable}
               \/ Get(r, "nominal_diameter_mm") # r["designation"].d
    IN  Where(rs, Bad)

PitchTypeOf ==
    [s \in {"Coarse", "Fine", "Extra Fine"} |->
        IF s = "Coarse" THEN "coarse" ELSE IF s = "Fine" THEN "fine" ELSE "extra_fine"]

PitchTypeSeries(rs) ==
    LET Bad(r) ==
            /\ IsMetric(r)
            /\ \/ Get(r, "pitch_type") \notin {"coarse", "fine", "extra_fine"}
               \/ Get(r, "series") \notin DOMAIN PitchTypeOf
               \/ Get(r, "pitch_type") # PitchTypeOf[r["series"]]
    IN  Where(rs, Bad)

SchemaVersion(rs) ==
    LET Bad(r) == Get(r, "schema_version") # ThreadSchemaVersion IN Where(rs, Bad)

UnknownFields(rs) ==
    LET Bad(r) == ~(DOMAIN r \subseteq KnownThreadFields) IN Where(rs, Bad)

SeriesScope(rs) ==
    LET Bad(r) == Get(r, "thread_series") \notin KnownThreadSeries IN Where(rs, Bad)

MinorDiameters(rs) ==
    LET Bad(r) ==
            LET d == Get(r, "nominal_diameter_mm")
                p == Get(r, "pitch_mm")
            IN  /\ IsMetric(r) /\ Sized(r)
                /\ \/ Off(Get(r, "minor_diameter_external_mm"), MinorExternal(d, p), 1)
                   \/ Off(Get(r, "minor_diameter_internal_mm"), MinorInternal(d, p), 1)
    IN  Where(rs, Bad)

StressAreas(rs) ==
    LET Bad(r) == /\ IsMetric(r) /\ Sized(r)
                  /\ Off(Get(r, "stress_area_mm2"),
                         StressArea(r["nominal_diameter_mm"], r["pitch_mm"]), 5)
    IN  Where(rs, Bad)

ThreadReport(rs) ==
    ({"duplicate"} \X DuplicateThreads(rs)) \cup ({"size"} \X NonPositiveThreads(rs))
    \cup ({"diameter"} \X DesignationDiameter(rs)) \cup ({"pitch_type"} \X PitchTypeSeries(rs))
    \cup ({"schema"} \X SchemaVersion(rs)) \cup ({"field"} \X UnknownFields(rs))
    \cup ({"series"} \X SeriesScope(rs)) \cup ({"minor"} \X MinorDiameters(rs))
    \cup ({"stress_area"} \X StressAreas(rs))

(* find_pitch_series_violations: the last coarse record of a diameter is   *)
(* the one that counts.                                                    *)
PitchSeries(rs) ==
    LET CoarseOf(d) == {i \in DOMAIN rs : /\ Get(rs[i], "series") = "Coarse"
                                          /\ Get(rs[i], "nominal_diameter_mm") = d}
        Last(S) == CHOOSE i \in S : \A j \in S : j <= i
        Bad(r) == /\ Get(r, "series") \in {"Fine", "Extra Fine"}
                  /\ IsNumber(Get(r, "nominal_diameter_mm"))
                  /\ CoarseOf(r["nominal_diameter_mm"]) # {}
                  /\ r["pitch_mm"] >= rs[Last(CoarseOf(r["nominal_diameter_mm"]))]["pitch_mm"]
    IN  Where(rs, Bad)

-----------------------------------------------------------------------------
(* Bolts and nuts.                                                         *)

NonPositiveOr(rs, f, g) ==
    LET Bad(r) == (f \in DOMAIN r \/ g \in DOMAIN r) /\ ~IsPositive(GetOr(r, f, g))
    IN  Where(rs, Bad)

NonPositiveDiameter(rs) == NonPositiveOr(rs, "nominal_diameter_mm", "diameter_mm")
NonPositivePitch(rs) == NonPositiveOr(rs, "pitch_mm", "pitch_coarse_mm")
NonPositiveStressArea(rs) == NonPositiveOr(rs, "stress_area_mm2", "stress_area_mm2")

(* The pitch a designation names, or else the coarse one of ISO 724.       *)
NamedPitch(des) ==
    IF des.p # Null THEN des.p
    ELSE IF des.d \in DOMAIN CoarsePitch THEN CoarsePitch[des.d] ELSE Null

PitchDesignation(rs) ==
    LET Bad(r) ==
            LET des == IF Empty(Get(r, "thread")) THEN Get(r, "designation") ELSE r["thread"]
            IN  /\ IsNumber(Get(r, "pitch_mm"))
                /\ \/ des \in {Null, Unparseable}
                   \/ NamedPitch(des) \notin {Null, r["pitch_mm"]}
    IN  Where(rs, Bad)

BoltClassFormat(rs) ==
    LET Bad(r) == Get(r, "property_class") \notin DOMAIN ClassParts IN Where(rs, Bad)
NutClassFormat(rs) ==
    LET Bad(r) == Get(r, "property_class") \notin KnownNutClasses IN Where(rs, Bad)

NotWider(r, flats, corners) ==
    /\ IsNumber(Get(r, flats)) /\ IsNumber(Get(r, corners))
    /\ r[corners] <= r[flats]

(* Only hexagons: other heads use the fields for something else.           *)
HeadGeometry(rs) ==
    LET Bad(r) == /\ Get(r, "head_type") \in {"Hex", "Flange"}
                  /\ NotWider(r, "head_across_flats_mm", "head_across_corners_mm")
    IN  Where(rs, Bad)
NutGeometry(rs) ==
    LET Bad(r) == NotWider(r, "width_across_flats_mm", "width_across_corners_mm")
    IN  Where(rs, Bad)

StrengthOrder(rs) ==
    LET Bad(r) == \/ Inverted(Get(r, "proof_strength_mpa"), Get(r, "yield_strength_mpa"))
                  \/ Inverted(Get(r, "yield_strength_mpa"),
                              Get(r, "minimum_tensile_strength_mpa"))
    IN  Where(rs, Bad)

HardnessText(rs) ==
    LET Bad(r) == LET h == Get(r, "hardness_range") IN
                  ~Empty(h) /\ (h = Unparseable \/ h[1] > h[2])
    IN  Where(rs, Bad)

LockNutPrinciple(rs) ==
    LET Bad(r) == /\ \/ Get(r, "nut_family") = "Lock nut"
                     \/ Get(r, "locking_type") \in {"Nylon insert", "All-metal"}
                  /\ Empty(Get(r, "locking_principle"))
    IN  Where(rs, Bad)

PrevailingReuse(rs) ==
    LET Bad(r) == /\ \/ ~Empty(Get(r, "prevailing_torque_category"))
                     \/ Get(r, "nut_family") = "Prevailing torque nut"
                  /\ Get(r, "reusable") = Null
    IN  Where(rs, Bad)

Common(rs) ==
    ({"id"} \X DuplicateIds(rs)) \cup ({"temperature"} \X TemperatureRange(rs))
    \cup ({"source"} \X MissingSource(rs))

Fasteners(rs) ==
    Common(rs)
    \cup ({"duplicate"} \X DuplicateDesignation(rs)) \cup ({"diameter"} \X NonPositiveDiameter(rs))
    \cup ({"pitch"} \X NonPositivePitch(rs)) \cup ({"designation"} \X PitchDesignation(rs))
    \cup ({"hardness"} \X HardnessText(rs)) \cup ({"revision"} \X VerifiedMissingRevision(rs))

BoltReport(rs) ==
    Fasteners(rs)
    \cup ({"class"} \X BoltClassFormat(rs)) \cup ({"stress_area"} \X NonPositiveStressArea(rs))
    \cup ({"head"} \X HeadGeometry(rs)) \cup ({"strength"} \X StrengthOrder(rs))

NutReport(rs) ==
    Fasteners(rs)
    \cup ({"class"} \X NutClassFormat(rs)) \cup ({"width"} \X NutGeometry(rs))
    \cup ({"locking"} \X LockNutPrinciple(rs)) \cup ({"reuse"} \X PrevailingReuse(rs))

-----------------------------------------------------------------------------
(* Washers and joint hardware: a dimension that is not known is Null.      *)

NonPositiveKnown(rs, fields) ==
    LET Bad(r) == \E f \in fields : Get(r, f) # Null /\ ~IsPositive(r[f]) IN Where(rs, Bad)

InnerNotLess(rs) ==
    LET Bad(r) == NotWider(r, "inner_diameter_mm", "outer_diameter_mm") IN Where(rs, Bad)

BoltSizes(r) == IF Get(r, "compatible_bolt_sizes") = Null THEN {} ELSE r["compatible_bolt_sizes"]

BoltSizeFormat(rs) ==
    LET Bad(r) == Unparseable \in BoltSizes(r) IN Where(rs, Bad)

WasherReport(rs) ==
    Common(rs)
    \cup ({"duplicate"} \X DuplicateDesignation(rs))
    \cup ({"size"} \X NonPositiveKnown(rs, {"inner_diameter_mm", "outer_diameter_mm",
                                            "thickness_mm"}))
    \cup ({"inner"} \X InnerNotLess(rs)) \cup ({"bolt_size"} \X BoltSizeFormat(rs))

HardwareIdentity(rs) == MissingFields(rs, {"designation", "source_standard"})

HardwareReport(rs) ==
    Common(rs)
    \cup ({"size"} \X NonPositiveKnown(rs, {"inner_diameter_mm", "outer_diameter_mm",
                                            "length_mm"}))
    \cup ({"identity"} \X HardwareIdentity(rs))

-----------------------------------------------------------------------------
(* Lubrication and friction conditions.  The pairs are _FRICTION_MIN_MAX_  *)
(* FIELD_PAIRS; all but the first need a source.                           *)

FrictionPairs ==
    {<<"friction_coefficient_min", "friction_coefficient_max">>,
     <<"overall_friction_coefficient_min", "overall_friction_coefficient_max">>,
     <<"mu_thread_min", "mu_thread_max">>, <<"mu_bearing_min", "mu_bearing_max">>,
     <<"k_factor_min", "k_factor_max">>}

Ends(pairs) == UNION {{p[1], p[2]} : p \in pairs}
SourcedFields ==
    Ends(FrictionPairs \ {<<"friction_coefficient_min", "friction_coefficient_max">>})
    \cup {"scatter_percent", "max_temperature_c"}

(* Mutant of FrictionMinMax: the overall coefficient is not compared.      *)
FrictionSplitOnly(rs) ==
    LET Bad(r) == \E p \in FrictionPairs :
            p[1] # "overall_friction_coefficient_min" /\ Inverted(Get(r, p[1]), Get(r, p[2]))
    IN  Where(rs, Bad)

FrictionMinMax(rs) ==
    LET Bad(r) == \E p \in FrictionPairs : Inverted(Get(r, p[1]), Get(r, p[2]))
    IN  Where(rs, Bad)

FrictionNegative(rs) ==
    LET Bad(r) == \E f \in Ends(FrictionPairs) \cup {"scatter_percent"} :
                     IsNumber(Get(r, f)) /\ r[f] < 0
    IN  Where(rs, Bad)

FrictionAsymmetric(rs) ==
    LET Bad(r) == \E p \in FrictionPairs : (Get(r, p[1]) = Null) # (Get(r, p[2]) = Null)
    IN  Where(rs, Bad)

FrictionOneSided(rs) ==
    LET Set(r, side) == \E f \in side : Get(r, f) # Null
        Bad(r) == Set(r, {"mu_thread_min", "mu_thread_max"})
                      # Set(r, {"mu_bearing_min", "mu_bearing_max"})
    IN  Where(rs, Bad)

FrictionUnsourced(rs) ==
    LET Bad(r) == /\ \E f \in SourcedFields : Get(r, f) # Null
                  /\ Empty(Get(r, "source_reference"))
    IN  Where(rs, Bad)

LegacyWarning(rs) ==
    LET Bad(r) == /\ Get(r, "status") = "restricted_legacy"
                  /\ Empty(Get(r, "regulatory_warning"))
    IN  Where(rs, Bad)

DuplicateCombination(rs) ==
    LET Key(r) == [f \in {"coating_id", "lubricant_id", "surface_condition",
                          "thread_condition", "bearing_condition", "source_reference"} |->
                     IF f \in DOMAIN r THEN r[f] ELSE Blank]
    IN  Repeated(rs, Always, Key)

Dangling(rs, field, known) ==
    LET Bad(r) == ~Empty(Get(r, field)) /\ r[field] \notin known IN Where(rs, Bad)

LubricationReport(rs) ==
    ({"id"} \X DuplicateIds(rs)) \cup ({"min_max"} \X FrictionMinMax(rs))
    \cup ({"negative"} \X FrictionNegative(rs)) \cup ({"asymmetric"} \X FrictionAsymmetric(rs))
    \cup ({"one_sided"} \X FrictionOneSided(rs)) \cup ({"unsourced"} \X FrictionUnsourced(rs))
    \cup ({"legacy"} \X LegacyWarning(rs))

FrictionReport(rs) == LubricationReport(rs) \cup ({"duplicate"} \X DuplicateCombination(rs))

-----------------------------------------------------------------------------
(* Strength classes (strength_validator.py).                               *)

StrengthNumbers ==
    {"nominal_tensile_strength_mpa", "min_tensile_strength_mpa",
     "min_yield_strength_mpa", "proof_stress_mpa", "hardness_min", "hardness_max",
     "diameter_min_mm", "diameter_max_mm", "elongation_percent", "proof_load_stress_mpa"}

StrengthRange(rs, low, high) ==
    LET Bad(r) == Inverted(Get(r, low), Get(r, high)) IN Where(rs, Bad)

(* The ratio in tenths: in (0, 1].                                         *)
YieldRatio(rs) ==
    LET Bad(r) == Get(r, "yield_ratio") # Null /\ r["yield_ratio"] \notin 1..10
    IN  Where(rs, Bad)

VerificationStatus(rs) ==
    LET Bad(r) == Get(r, "verification_status")
                      \notin {"validated", "reference_only", "provisional"}
    IN  Where(rs, Bad)

(* A bound that is not in the record does not limit its range.             *)
Overlap(r, s) ==
    LET Below(lo, hi) == lo = Null \/ hi = Null \/ lo <= hi IN
    /\ Below(Get(r, "diameter_min_mm"), Get(s, "diameter_max_mm"))
    /\ Below(Get(s, "diameter_min_mm"), Get(r, "diameter_max_mm"))

(* Mutant of DuplicateRange: only records with the same range.             *)
DuplicateSameRange(rs) ==
    {i \in DOMAIN rs : \E j \in 1..(i - 1) :
        \A f \in {"standard", "designation", "diameter_min_mm", "diameter_max_mm"} :
            Get(rs[i], f) = Get(rs[j], f)}

DuplicateRange(rs) ==
    {i \in DOMAIN rs : \E j \in 1..(i - 1) :
        /\ Get(rs[i], "standard") = Get(rs[j], "standard")
        /\ Get(rs[i], "designation") = Get(rs[j], "designation")
        /\ Overlap(rs[i], rs[j])}

(* parse_iso898_bolt_designation: hundreds of MPa and tenths.              *)
ParsesIso898(des) ==
    des \in DOMAIN ClassParts /\ ClassParts[des][1] \in 1..20 /\ ClassParts[des][2] \in 1..9

Iso898Designation(rs) ==
    LET Bad(r) ==
            /\ Get(r, "standard") = "ISO 898-1"
            /\ LET des == Get(r, "designation") IN
               \/ ~ParsesIso898(des)
               \/ Get(r, "nominal_tensile_strength_mpa") \notin {Null, 100 * ClassParts[des][1]}
               \/ Get(r, "yield_ratio") \notin {Null, ClassParts[des][2]}
    IN  Where(rs, Bad)

NutStrengthReport(rs) ==
    ({"value"} \X NonPositiveKnown(rs, StrengthNumbers))
    \cup ({"designation"} \X MissingFields(rs, {"designation"}))
    \cup ({"diameter"} \X StrengthRange(rs, "diameter_min_mm", "diameter_max_mm"))
    \cup ({"hardness"} \X StrengthRange(rs, "hardness_min", "hardness_max"))
    \cup ({"status"} \X VerificationStatus(rs)) \cup ({"duplicate"} \X DuplicateRange(rs))

BoltStrengthReport(rs) ==
    NutStrengthReport(rs)
    \cup ({"yield"} \X StrengthRange(rs, "min_yield_strength_mpa", "min_tensile_strength_mpa"))
    \cup ({"ratio"} \X YieldRatio(rs)) \cup ({"iso898"} \X Iso898Designation(rs))

-----------------------------------------------------------------------------
(* The checks of population.py.  lib maps the key of each library to its   *)
(* records.                                                                *)

CONSTANTS GeometricFields, RequiredFields

(* parse_typed_records and find_schema_violations: a record of a library   *)
(* has the fields its model requires.                                      *)
SchemaViolations(key, rs) ==
    LET Bad(r) == ~(RequiredFields[key] \subseteq DOMAIN r) IN Where(rs, Bad)

(* The checksum of a record is that of its other fields.                   *)
Payload(r) == [f \in DOMAIN r \ {"checksum"} |-> r[f]]
ChecksumMismatches(rs) ==
    LET Bad(r) == Get(r, "checksum") # Payload(r) IN Where(rs, Bad)

InvalidStatus(rs) ==
    LET Bad(r) ==
            \/ Get(r, "validation_status")
                   \notin {"validated", "reference_only", "provisional", "metadata_only"}
            \/ Get(r, "approval_status") \notin {"approved", "pending"}
            \/ /\ Get(r, "approval_status") = "approved"
               /\ Get(r, "validation_status") # "validated"
    IN  Where(rs, Bad)

NonPositiveGeometry(rs) ==
    LET Bad(r) == \E f \in GeometricFields : IsNumber(Get(r, f)) /\ r[f] <= 0
    IN  Where(rs, Bad)

RangeViolations(rs, low, high) ==
    LET Bad(r) == Inverted(Get(r, low), Get(r, high)) IN Where(rs, Bad)

Values(rs, f) == {Get(rs[i], f) : i \in DOMAIN rs}

DanglingThreads(bolts, threads) == Dangling(bolts, "thread", Values(threads, "designation"))

BrokenCompatibilityReferences(rules, classes) ==
    LET Known(c) == {Get(classes[i], "designation") :
                        i \in {j \in DOMAIN classes : Get(classes[j], "category") = c}}
        Bad(r) == \/ Get(r, "bolt_class") \notin Known("Bolt")
                  \/ Get(r, "minimum_nut_class") \notin Known("Nut")
    IN  Where(rules, Bad)

(* validate_library: the checks that suit the library.                     *)
LibraryReport(key, rs) ==
    ({"id"} \X DuplicateIds(rs))
    \cup (IF key = "thread library" THEN {"thread"} \X InvalidThreads(rs, "designation") ELSE {})
    \cup (IF key = "material library" THEN {"material"} \X InvalidMaterials(rs) ELSE {})
    \cup (IF key = "compatibility library" THEN {"class"} \X BrokenCompatibility(rs) ELSE {})

(* run_all_integrity_checks: the thread, washer and joint hardware         *)
(* batteries are not part of it.                                           *)
IntegrityReport(lib) ==
    LET Each(name, Check(_, _)) ==
            UNION {{<<name, key>>} \X Check(key, lib[key]) : key \in DOMAIN lib}
        Ids(key, rs) == DuplicateIds(rs)
        Geometry(key, rs) == NonPositiveGeometry(rs)
        Status(key, rs) == InvalidStatus(rs)
        Checksum(key, rs) == ChecksumMismatches(rs)
        Of(name, flagged) == {<<name, name>>} \X flagged
    IN  Each("schema", SchemaViolations) \cup Each("id", Ids) \cup Each("geometry", Geometry)
        \cup Each("status", Status) \cup Each("checksum", Checksum)
        \cup Of("strength_ranges", RangeViolations(lib["strength class library"],
                                                   "rp02_mpa", "rm_mpa"))
        \cup Of("material_ranges", RangeViolations(lib["material library"],
                                                   "yield_mpa", "ultimate_mpa"))
        \cup Of("pitch_series", PitchSeries(lib["thread library"]))
        \cup Of("thread_references", DanglingThreads(lib["bolt library"], lib["thread library"]))
        \cup Of("class_references",
                BrokenCompatibilityReferences(lib["compatibility library"],
                                              lib["strength class library"]))
        \cup Of("coating_references", Dangling(lib["friction condition library"], "coating_id",
                                               Values(lib["coating library"], "id")))
        \cup Of("lubricant_references",
                Dangling(lib["friction condition library"], "lubricant_id",
                         Values(lib["lubrication library"], "id")))
        \cup Of("bolts", BoltReport(lib["bolt library"]))
        \cup Of("nuts", NutReport(lib["nut library"]))
        \cup Of("lubrication", LubricationReport(lib["lubrication library"]))
        \cup Of("friction", FrictionReport(lib["friction condition library"]))

=============================================================================
