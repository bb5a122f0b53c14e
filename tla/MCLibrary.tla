------------------------------ MODULE MCLibrary ------------------------------
(***************************************************************************)
(* Instances of EngineeringLibrary for TLC.  Each behaviour varies some of *)
(* the files and takes its requests from one mix.                          *)
(***************************************************************************)
EXTENDS EngineeringLibrary, TLC

CONSTANTS hexBolt, hexNut, washer8, c1, c2, oil

Micro(d, p) == [d |-> d, p |-> p]
SeqsUpTo(S, n) == UNION {[1..m -> S] : m \in 0..n}
With(r, f, v) == (f :> v) @@ r
Without(r, f) == [g \in DOMAIN r \ {f} |-> r[g]]

MCKeys ==
    {"thread library", "bolt library", "nut library", "washer library",
     "joint hardware library", "material library", "strength class library",
     "compatibility library", "coating library", "lubrication library",
     "friction condition library"}

MCCoarsePitch == 8000 :> 1250 @@ 10000 :> 1500
MCClassParts == "4.8" :> <<4, 8>> @@ "5.6" :> <<5, 6>> @@ "8.8" :> <<8, 8>>
                @@ "10.9" :> <<10, 9>> @@ "99.9" :> <<99, 9>>
MCNumeral == "04" :> 4 @@ "4" :> 4 @@ "5" :> 5 @@ "6" :> 6 @@ "8" :> 8 @@ "9" :> 9
             @@ "10" :> 10 @@ "12" :> 12
MCFamilyOf == "ISO 4014" :> "ISO" @@ "ISO 4032" :> "ISO" @@ "DIN 934" :> "DIN"
MCRequiredFields ==
    [k \in MCKeys |-> IF k = "thread library" THEN {"designation"} ELSE {"id"}]
MCGeometricFields == {"nominal_diameter_mm", "diameter_mm", "pitch_mm", "thickness_mm"}

-----------------------------------------------------------------------------
(* Records.  One thread is right and each of the others has one fault.     *)

Stamp(r) == With(With(With(r, "validation_status", "reference_only"),
                      "approval_status", "pending"), "source", "table")

Thread(d, p, series, type) ==
    [designation |-> Micro(d, p), nominal_diameter_mm |-> d, pitch_mm |-> p,
     thread_series |-> "ISO_METRIC", series |-> series, pitch_type |-> type,
     schema_version |-> 1, minor_diameter_external_mm |-> MinorExternal(d, p),
     minor_diameter_internal_mm |-> MinorInternal(d, p),
     stress_area_mm2 |-> StressArea(d, p)]
Coarse10 == Thread(10000, 1500, "Coarse", "coarse")
Fine10 == Thread(10000, 1250, "Fine", "fine")

MCThreadFields == DOMAIN Coarse10

Threads ==
    {Coarse10, Fine10, Thread(10000, 1500, "Fine", "fine"),
     With(Coarse10, "minor_diameter_internal_mm", 8160),
     With(Coarse10, "minor_diameter_external_mm", 8376),
     Without(Coarse10, "minor_diameter_internal_mm"),
     With(Coarse10, "nominal_diameter_mm", 8000), With(Coarse10, "stress_area_mm2", 0),
     With(Coarse10, "pitch_type", "fine"), With(Coarse10, "schema_version", 2),
     With(Coarse10, "thread_series", "UNC"), With(Fine10, "pitch_mm", 0),
     With(Coarse10, "extra", 1)}

Bolt(id, d, p, named, class) ==
    [id |-> id, designation |-> hexBolt, thread |-> Micro(d, named), diameter_mm |-> d,
     pitch_mm |-> p, property_class |-> class, source_standard |-> "ISO 4014",
     source |-> "table", head_type |-> "Hex", head_across_flats_mm |-> 16000,
     head_across_corners_mm |-> 17770, proof_strength_mpa |-> 600,
     yield_strength_mpa |-> 640, minimum_tensile_strength_mpa |-> 800,
     operating_temperature_min_c |-> -50, operating_temperature_max_c |-> 150,
     coarse_or_fine |-> "coarse"]

Bolts ==
    {Bolt(1, 10000, 1500, Null, "8.8"), Bolt(2, 10000, 1250, 1250, "10.9"),
     Bolt(3, 10000, 1250, Null, "4.8"), With(Bolt(4, 8000, 1250, Null, "8.8"),
                                             "coating_compatibility", {c1}),
     With(Bolt(5, 10000, 1500, 1500, "8.8"), "yield_strength_mpa", 900)}

Nut(id, d, p, named, class) ==
    [id |-> id, designation |-> hexNut, thread |-> Micro(d, named), diameter_mm |-> d,
     pitch_mm |-> p, property_class |-> class, source_standard |-> "ISO 4032",
     source |-> "table", width_across_flats_mm |-> 16000,
     width_across_corners_mm |-> 17770, operating_temperature_min_c |-> -50,
     operating_temperature_max_c |-> 100]

Nuts ==
    {Nut(1, 10000, 1500, Null, "8"), Nut(2, 10000, 1250, Null, "6"),
     With(Nut(3, 8000, 1250, Null, "04"), "coating_compatibility", {c2}),
     Nut(4, 10000, 1250, 1250, "10"),
     With(Nut(5, 10000, 1500, Null, "8"), "nut_family", "Lock nut")}

Class(designation, standard, numbers) ==
    numbers @@ [designation |-> designation, standard |-> standard,
                material_family |-> "carbon_steel", verification_status |-> "provisional"]
Range(low, high) == [diameter_min_mm |-> 1000 * low, diameter_max_mm |-> 1000 * high]

BoltClasses ==
    {Class("8.8", "ISO 898-1", Range(5, 16)), Class("8.8", "ISO 898-1", Range(17, 39)),
     Class("8.8", "ISO 898-1", Range(16, 39)),
     Class("5.6", "ISO 898-1", [yield_ratio |-> 6, nominal_tensile_strength_mpa |-> 500]),
     Class("10.9", "ISO 898-1", [nominal_tensile_strength_mpa |-> 1040]),
     Class("A2-70", "ISO 3506-1", [diameter_max_mm |-> 24000, material_family |-> "stainless_a2"]),
     Class("99.9", "ISO 898-1", [min_yield_strength_mpa |-> 9, min_tensile_strength_mpa |-> 8])}
NutClasses ==
    {Class("04", "ISO 898-2", [diameter_min_mm |-> 5000]), Class("8", "ISO 898-2", Range(5, 16)),
     Class("5", "ISO 898-2", [engineering_warning |-> "low"]),
     Class("10", "ISO 898-2", [hardness_min |-> 300, hardness_max |-> 200])}

SomeBoltClasses == <<Class("4.8", "ISO 898-1", Range(5, 39)),
                     Class("8.8", "ISO 898-1", Range(5, 16)),
                     Class("10.9", "ISO 898-1", Range(5, 39))>>
SomeNutClasses == <<Class("04", "ISO 898-2", Range(5, 39)), Class("6", "ISO 898-2", Range(5, 39)),
                    Class("8", "ISO 898-2", Range(5, 39)), Class("10", "ISO 898-2", Range(5, 39))>>

Condition(id, low, high) ==
    [id |-> id, coating_id |-> c1, lubricant_id |-> oil, source_reference |-> id,
     overall_friction_coefficient_min |-> low, overall_friction_coefficient_max |-> high]
Sides == [mu_thread_min |-> 100, mu_thread_max |-> 120,
          mu_bearing_min |-> 100, mu_bearing_max |-> 140]

ConditionsFor(id) ==
    {Condition(id, 100, 140), Condition(id, 140, 150), Condition(id, 160, 110),
     Without(Condition(id, 120, 120), "overall_friction_coefficient_min"),
     With(Condition(id, 120, 180), "coating_id", c2),
     With(Condition(id, 120, 180), "source_reference", Blank),
     Sides @@ With(Condition(id, 120, 180), "lubricant_id", Null),
     Sides @@ [id |-> id, friction_model |-> "separated", k_factor_min |-> 150,
               k_factor_max |-> 200, source_reference |-> id,
               verification_status |-> "reference_only"],
     With(Without(Condition(id, -1, 150), "coating_id"), "mu_thread_min", 100)}

Material(id, yield, tensile, approval) ==
    [id |-> id, rp02_mpa |-> yield, rm_mpa |-> tensile, elastic_modulus_mpa |-> Null,
     yield_mpa |-> yield, ultimate_mpa |-> tensile,
     validation_status |-> IF approval = "approved" THEN "validated" ELSE "reference_only",
     approval_status |-> approval]
MaterialRecords ==
    {With(Material(1, 640, 800, "pending"), "material", {"steel", "alloy"}),
     With(Material(2, 900, 1000, "pending"), "material", {"steel"}),
     Material(3, 900, 950, "approved"), With(Material(4, 700, 1200, "approved"), "rm_mpa", Null)}

Washer(id, sizes, low, high) ==
    [id |-> id, designation |-> washer8, source_standard |-> "ISO 7089", source |-> "table",
     inner_diameter_mm |-> 10500, outer_diameter_mm |-> 20000, thickness_mm |-> 2000,
     compatible_bolt_sizes |-> sizes, operating_temperature_min_c |-> low,
     operating_temperature_max_c |-> high]
Washers ==
    {Washer(1, {"M10"}, -50, 200), Washer(1, {Unparseable}, 0, 100), Washer(2, Null, 100, 0),
     With(Washer(3, {"M8", "M10"}, Null, 300), "inner_diameter_mm", 20000)}
Hardware ==
    {[id |-> 1, designation |-> "bush", source_standard |-> "works", length_mm |-> 30],
     [id |-> 1, designation |-> Blank, source |-> "works", length_mm |-> -1]}

-----------------------------------------------------------------------------
(* The files.                                                              *)

MCRegistered == {"thread library", "bolt library", "nut library"}
MCSourceOf == "thread library" :> "thread library" @@ "bolt library" :> Null
              @@ "nut library" :> "old nuts"

Base ==
    [k \in MCKeys |-> <<>>]
    @@ "old nuts" :> Null
    @@ "classes" :> [bolts |-> SomeBoltClasses, nuts |-> SomeNutClasses]

Coats == <<[id |-> c1, status |-> "restricted_legacy"]>>
Oils == <<[id |-> oil, status |-> "current"]>>

Varied(k, contents) == {[Base EXCEPT ![k] = rs] : rs \in contents}

ThreadContents == Varied("thread library", SeqsUpTo(Threads, 2))
PairContents ==
    {[Base EXCEPT !["bolt library"] = bs, !["nut library"] = ns,
                  !["thread library"] = <<Coarse10>>] :
        bs \in SeqsUpTo(Bolts, 2), ns \in SeqsUpTo(Nuts, 2)}
ClassContents ==
    {[Base EXCEPT !["classes"] = [bolts |-> bs, nuts |-> ns]] :
        bs \in SeqsUpTo(BoltClasses, 2), ns \in SeqsUpTo(NutClasses, 2)}
FrictionContents ==
    {[Base EXCEPT !["friction condition library"] = <<a, b>>, !["coating library"] = Coats,
                  !["lubrication library"] = Oils] :
        a \in ConditionsFor(1), b \in ConditionsFor(2) \cup ConditionsFor(1)}
MaterialContents == Varied("material library", SeqsUpTo(MaterialRecords, 3))
RestContents ==
    {[Base EXCEPT !["washer library"] = ws, !["joint hardware library"] = hs,
                  !["thread library"] = <<Coarse10>>,
                  !["bolt library"] = <<Bolt(1, 10000, 1500, Null, "8.8")>>,
                  !["friction condition library"] = <<Condition(1, 100, 140)>>,
                  !["coating library"] = Coats,
                  !["strength class library"] =
                      <<[id |-> 1, category |-> "Bolt", designation |-> "8.8",
                         rp02_mpa |-> 640, rm_mpa |-> 800]>>,
                  !["compatibility library"] =
                      <<Stamp([id |-> 1, bolt_class |-> "8.8", minimum_nut_class |-> "8"])>>] :
        ws \in SeqsUpTo(Washers, 2), hs \in SeqsUpTo(Hardware, 1)}
RegistryContents ==
    {[Base EXCEPT !["thread library"] = <<Coarse10>>,
                  !["nut library"] = <<Nut(1, 10000, 1500, Null, "8")>>]}

-----------------------------------------------------------------------------
(* The requests.                                                           *)

Checks_(ks) == {[op |-> "battery", key |-> k] : k \in ks}

TheAssembly(d) ==
    [f \in Arguments |->
        CASE f = "bolt_designation" -> hexBolt
          [] f = "nut_designation" -> hexNut
          [] f = "bolt_strength_class" -> "8.8"
          [] f = "nut_property_class" -> "6"
          [] f = "nominal_diameter_mm" -> d
          [] f = "thread_designation" -> Micro(10000, 1500)
          [] f = "intended_operating_temperature_c" -> 120
          [] f = "intended_coating" -> c1
          [] f = "standard_name" -> "VDI 2230"
          [] f = "oem_reference" -> "house"
          [] OTHER -> Null]
OtherAssembly ==
    [f \in Arguments |->
        CASE f = "bolt_size" -> "M10"
          [] f = "washer_standard" -> "ISO 7089"
          [] f = "friction_condition_id" -> 1
          [] OTHER -> Null]

RatedAssembly ==
    [f \in Arguments |->
        CASE f = "bolt_strength_class" -> "8.8"
          [] f = "nut_property_class" -> "04"
          [] f = "nominal_diameter_mm" -> 16000
          [] f = "friction_condition_id" -> 1
          [] OTHER -> Null]

Assemblies == {TheAssembly(d) : d \in {Null, 8000, 10000}}
Assess_(a) == [op |-> "assembly", assembly |-> a]

MixOf ==
    [threads |-> [contents |-> ThreadContents,
                  requests |-> Checks_({"thread library"})
                     \cup {[op |-> "integrity"], [op |-> "statistics", key |-> "thread library"],
                           [op |-> "populate", keys |-> {"thread library"}],
                           [op |-> "typed", key |-> "thread library"]}],
     pairs |-> [contents |-> PairContents,
                requests |-> Checks_({"bolt library", "nut library"})
                             \cup {Assess_(a) : a \in Assemblies}],
     classes |-> [contents |-> ClassContents,
                  requests |-> {[op |-> "classes"]} \cup
                     {[op |-> o, bolt |-> b, nut |-> n, diameter |-> d] :
                        o \in {"pair", "snapshot"}, b \in {"8.8", "5.6"}, n \in {"8", "04"},
                        d \in {Null, 16000}}
                     \cup {Assess_(RatedAssembly)}],
     friction |-> [contents |-> FrictionContents,
                   requests |-> Checks_({"friction condition library"})
                      \cup {[op |-> "friction", id |-> id, use |-> u, other |-> o] :
                               id \in 1..3, u \in {Null, "production_release"},
                               o \in {Null, 1, 2}}
                      \cup {[op |-> "readiness", id |-> 1, geometry |-> g, preload |-> TRUE] :
                               g \in BOOLEAN}],
     materials |-> [contents |-> MaterialContents,
                    requests |-> {[op |-> "compare_materials", id |-> 1, other |-> 2]}
                       \cup {[op |-> "materials", requirement |-> q, family |-> f] :
                               q \in {[rp02_mpa |-> 600, rm_mpa |-> 790], [rm_mpa |-> 800],
                                      [rp02_mpa |-> 800], [rm_mpa |-> 0]},
                               f \in {Null, "steel"}}],
     rest |-> [contents |-> RestContents,
               requests |-> Checks_({"washer library", "joint hardware library",
                                     "lubrication library", "coating library"})
                  \cup {[op |-> "integrity"], [op |-> "clear"], Assess_(OtherAssembly),
                        [op |-> "search", key |-> "washer library",
                         wanted |-> [compatible_bolt_sizes |-> "M10"]],
                        [op |-> "search", key |-> "bolt library",
                         wanted |-> [nominal_diameter_mm |-> 10000]],
                        [op |-> "temperature", low |-> Null, high |-> 150],
                        [op |-> "temperature", low |-> 0, high |-> Null]}],
     registry |-> [contents |-> RegistryContents,
                   requests |->
                      {[op |-> "edit", file |-> f, content |-> c] :
                          f \in {"thread library"},
                          c \in {<<Fine10, Coarse10>>, <<Without(Coarse10, "designation")>>}}
                      \cup {[op |-> "edit", file |-> "old nuts", content |-> c] :
                               c \in {Null, <<Nut(2, 10000, 1250, Null, "6")>>}}
                      \cup {[op |-> "restart"], [op |-> "clear"]}
                      \cup {[op |-> o, key |-> k] : k \in MCRegistered,
                               o \in {"load", "reload", "typed", "statistics"}}
                      \cup {[op |-> "populate", keys |-> ks] :
                               ks \in {MCRegistered, {"nut library"}}}]]

MCContents == UNION {MixOf[m].contents : m \in DOMAIN MixOf}
MCRequests == UNION {MixOf[m].requests : m \in DOMAIN MixOf}

VARIABLE mix

MCInit ==
    /\ mix \in DOMAIN MixOf
    /\ disk \in MixOf[mix].contents
    /\ edits = 0
    /\ fileCache = NoFiles
    /\ classCache = Null
    /\ loaderCache = NoFiles
    /\ records = [k \in Registered |-> <<>>]
    /\ count = [k \in Registered |-> 0]
    /\ typed = [k \in Registered |-> Null]
    /\ sources = [k \in Registered |-> Null]
    /\ answer = NoReply

MCNext ==
    /\ \E r \in MixOf[mix].requests : Serve(r)
    /\ UNCHANGED mix

MCSpec == MCInit /\ [][MCNext]_<<libraryVars, mix>>

=============================================================================
