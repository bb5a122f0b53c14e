-------------------------- MODULE EngineeringLibrary --------------------------
(***************************************************************************)
(* The engineering library of one server process: the JSON files, the      *)
(* caches that are filled from them and the registry of libraries          *)
(* (loader.py, registry.py, population.py, migration.py,                   *)
(* source_manager.py, facade.py), and the requests it answers.             *)
(*                                                                         *)
(* Every library has a population file, named by its key; some have        *)
(* another source attached, a path that need not exist.  A file is the     *)
(* sequence of its records.  A digest is the content it is computed from.  *)
(***************************************************************************)
EXTENDS AssemblyIntelligence

CONSTANTS
    Keys,           \* POPULATION_SOURCES
    Registered,     \* the libraries whose records are brought into memory
    SourceOf,       \* the attached source of each, or Null
    Contents,       \* what the files may hold at first
    LibraryRequests,    \* what may be asked for: see Serve
    MaxEdits

ASSUME LibraryAssumption ==
    /\ Registered \subseteq Keys /\ DOMAIN SourceOf = Registered
    /\ {"thread library", "bolt library", "nut library", "washer library", "material library",
        "coating library", "lubrication library", "friction condition library"} \subseteq Keys
    /\ "classes" \notin Keys /\ \A k \in Registered : SourceOf[k] # "classes"
    /\ {"bolt classes", "nut classes"} \cap Keys = {}
    /\ MaxEdits \in Nat

Files == Keys \cup {"classes"} \cup ({SourceOf[k] : k \in Registered} \ {Null})

(* extract_records: a file holds objects.  Those fields that the engines   *)
(* calculate with are numbers where they are there at all (models.py).     *)
IsRecords(rs) ==
    /\ rs \in Seq({rs[i] : i \in DOMAIN rs})
    /\ \A i \in DOMAIN rs : rs[i] # Null

Numeric(rs, fields) ==
    \A i \in DOMAIN rs : \A f \in fields : Get(rs[i], f) = Null \/ IsNumber(Get(rs[i], f))

IsFile(f, content) ==
    IF f = "classes" THEN IsRecords(content.bolts) /\ IsRecords(content.nuts)
    ELSE /\ f \in Keys \/ content # Null => IsRecords(content)
         /\ f = "friction condition library" =>
               Numeric(content, {"overall_friction_coefficient_min",
                                 "overall_friction_coefficient_max"})
         /\ f = "material library" =>
               /\ Numeric(content, RequirementFields)
               /\ \A i \in DOMAIN content : IsNumber(Get(content[i], "id"))

ASSUME ContentsAssumption ==
    \A content \in Contents :
        DOMAIN content = Files /\ \A f \in Files : IsFile(f, content[f])

(* What a request names exists (registry.get, POPULATION_SOURCES), and a   *)
(* requirement is what MaterialRecommendationRequest admits.               *)
ASSUME LibraryRequestAssumption ==
    \A r \in LibraryRequests :
        /\ r.op = "edit" => r.file \in Files /\ IsFile(r.file, r.content)
        /\ r.op \in {"battery", "search"} => r.key \in Keys
        /\ r.op \in {"load", "reload", "typed", "statistics"} => r.key \in Registered
        /\ r.op = "populate" => r.keys \subseteq Keys
        /\ r.op = "materials" =>
              /\ DOMAIN r.requirement \subseteq RequirementFields
              /\ \A f \in DOMAIN r.requirement : r.requirement[f] \in Nat

VARIABLES
    disk,           \* the content of each file; Null if it does not exist
    edits,
    fileCache,      \* population._FILE_CACHE
    classCache,     \* strength_classes._CACHE
    loaderCache,    \* default_loader._cache
    records,        \* BaseLibrary._records
    count,          \* metadata.record_count
    typed,          \* _typed_records_cache
    sources,        \* default_source_manager._sources
    answer          \* the last one

files == <<disk, edits>>
registry == <<records, count, typed, sources>>
libraryVars == <<files, fileCache, classCache, loaderCache, registry, answer>>

NoReply == [op |-> "none"]
NoFiles == [k \in {} |-> <<>>]

LibraryInit ==
    /\ disk \in Contents
    /\ edits = 0
    /\ fileCache = NoFiles
    /\ classCache = Null
    /\ loaderCache = NoFiles
    /\ records = [k \in Registered |-> <<>>]
    /\ count = [k \in Registered |-> 0]
    /\ typed = [k \in Registered |-> Null]
    /\ sources = [k \in Registered |-> Null]
    /\ answer = NoReply

(* A curator, or a tool of tools/, rewrites a data file.                   *)
EditFile(f, content) ==
    /\ edits < MaxEdits
    /\ disk[f] # content
    /\ disk' = [disk EXCEPT ![f] = content]
    /\ edits' = edits + 1
    /\ answer' = NoReply
    /\ UNCHANGED <<fileCache, classCache, loaderCache, registry>>

(* The process starts again and imports its modules.                       *)
Restart ==
    /\ fileCache' = NoFiles
    /\ classCache' = Null
    /\ loaderCache' = NoFiles
    /\ records' = [k \in Registered |-> <<>>]
    /\ count' = [k \in Registered |-> 0]
    /\ typed' = [k \in Registered |-> Null]
    /\ sources' = [k \in Registered |-> Null]
    /\ answer' = NoReply
    /\ UNCHANGED files

-----------------------------------------------------------------------------
(* The population files and strength_classes.json are read once.           *)

Cached(k) == IF k \in DOMAIN fileCache THEN fileCache[k] ELSE disk[k]
Classes == IF classCache = Null THEN disk["classes"] ELSE classCache

Population == [k \in Keys |-> Cached(k)]
Lib == [k \in Keys \cup {"bolt classes", "nut classes"} |->
           IF k = "bolt classes" THEN Classes.bolts
           ELSE IF k = "nut classes" THEN Classes.nuts ELSE Cached(k)]

(* load_population_records of each of ks.                                  *)
LoadPopulation(ks) == fileCache' = [k \in DOMAIN fileCache \cup ks |-> Cached(k)]
LoadClasses == classCache' = Classes

Answer(op, of, reply) == answer' = [op |-> op, of |-> of, reply |-> reply]

(* population.clear_cache *)
ClearCache ==
    /\ fileCache' = NoFiles
    /\ answer' = NoReply
    /\ UNCHANGED <<files, classCache, loaderCache, registry>>

(* run_all_integrity_checks *)
CheckIntegrity ==
    /\ LoadPopulation(Keys)
    /\ Answer("integrity", Null, IntegrityReport(Population))
    /\ UNCHANGED <<files, classCache, loaderCache, registry>>

(* validate_bolt_strength_class_records, validate_nut_property_class_records *)
CheckClasses ==
    /\ Answer("classes", Null, <<BoltStrengthReport(disk["classes"].bolts),
                                NutStrengthReport(disk["classes"].nuts)>>)
    /\ UNCHANGED <<files, fileCache, classCache, loaderCache, registry>>

(* validate_*_library_records *)
Battery(k, rs) ==
    IF k = "thread library" THEN ThreadReport(rs)
    ELSE IF k = "bolt library" THEN BoltReport(rs)
    ELSE IF k = "nut library" THEN NutReport(rs)
    ELSE IF k = "washer library" THEN WasherReport(rs)
    ELSE IF k = "joint hardware library" THEN HardwareReport(rs)
    ELSE IF k = "lubrication library" THEN LubricationReport(rs)
    ELSE IF k = "friction condition library" THEN FrictionReport(rs)
    ELSE ({"id"} \X DuplicateIds(rs)) \cup ({"schema"} \X SchemaViolations(k, rs))

CheckLibrary(k) ==
    /\ LoadPopulation({k})
    /\ Answer("battery", k, Battery(k, Cached(k)))
    /\ UNCHANGED <<files, classCache, loaderCache, registry>>

-----------------------------------------------------------------------------
(* Searches: the records whose wanted fields are as asked.  Two fields have*)
(* an older name that is read when the new one is missing.                 *)

OlderName(k, f) ==
    IF k = "bolt library" /\ f = "nominal_diameter_mm" THEN "diameter_mm"
    ELSE IF k = "bolt library" /\ f = "pitch_mm" THEN "pitch_coarse_mm" ELSE f

Found(k, wanted) ==
    LET Meets(r) == \A f \in DOMAIN wanted :
            IF f = "coating_compatibility" THEN wanted[f] \in Coatings(r)
            ELSE IF f = "compatible_bolt_sizes" THEN wanted[f] \in BoltSizes(r)
            ELSE GetOr(r, f, OlderName(k, f)) = wanted[f]
    IN  Where(Cached(k), Meets)

Search(k, wanted) ==
    /\ LoadPopulation({k})
    /\ Answer("search", <<k, wanted>>, Found(k, wanted))
    /\ UNCHANGED <<files, classCache, loaderCache, registry>>

(* find_washer_temperature: the rating covers both ends that are asked.    *)
FindWasherTemperature(low, high) ==
    LET Covers(r) ==
            LET t == Temperature(r) IN
            /\ Null \notin {t[1], t[2]}
            /\ low = Null \/ t[1] <= low
            /\ high = Null \/ t[2] >= high
    IN  /\ LoadPopulation({"washer library"})
        /\ Answer("temperature", <<low, high>>, Where(Cached("washer library"), Covers))
        /\ UNCHANGED <<files, classCache, loaderCache, registry>>

-----------------------------------------------------------------------------
(* The engines.                                                            *)

PairClasses(b, n, d) ==
    /\ LoadClasses
    /\ Answer("pair", <<b, n, d>>,
              <<StrengthPairing(Classes.bolts, Classes.nuts, b, n, d, Null, Null),
                ListClasses(Classes.bolts, [designation |-> b], d),
                ListClasses(Classes.nuts, [designation |-> n], d)>>)
    /\ UNCHANGED <<files, fileCache, loaderCache, registry>>

SnapshotStrength(b, n, d) ==
    /\ LoadClasses
    /\ Answer("snapshot", <<b, n, d>>,
              StrengthSnapshot(Lib, b, n, d, [min_tensile_strength_mpa |-> 1]))
    /\ UNCHANGED <<files, fileCache, loaderCache, registry>>

FrictionFiles(ids) ==
    IF \A id \in ids : ById(Cached("friction condition library"), id) = Null
    THEN {"friction condition library"}
    ELSE {"friction condition library", "coating library", "lubrication library"}

AssemblyFiles(a) ==
    (IF Empty(a["bolt_designation"]) THEN {} ELSE {"bolt library"})
    \cup (IF Empty(a["nut_designation"]) THEN {} ELSE {"nut library"})
    \cup (IF Empty(a["thread_designation"]) THEN {} ELSE {"thread library"})
    \cup (IF Empty(a["bolt_size"]) THEN {} ELSE {"washer library"})
    \cup (IF Empty(a["friction_condition_id"]) \/ StrengthRaises(Lib, a) THEN {}
          ELSE FrictionFiles({a["friction_condition_id"]}))

AssessAssembly(a) ==
    /\ LoadPopulation(AssemblyFiles(a))
    /\ classCache' = IF Empty(a["bolt_strength_class"]) \/ Empty(a["nut_property_class"])
                     THEN classCache ELSE Classes
    /\ Answer("assembly", a, Assess(Lib, a))
    /\ UNCHANGED <<files, loaderCache, registry>>

(* friction_condition_assess, with another condition to compare or Null.   *)
AdviseFriction(id, use, other) ==
    LET asked == IF Refusal(Lib, id) # Null THEN {id} ELSE {id, other} \ {Null}
        refused == {Refusal(Lib, j) : j \in asked} \ {Null}
    IN  /\ LoadPopulation(FrictionFiles(asked))
        /\ Answer("friction", <<id, use, other>>,
                  IF refused # {} THEN <<"error", refused>>
                  ELSE [advice |-> Recommendation(Lib, id, use),
                        torque |-> FrictionReadiness(Lib, id, FALSE, FALSE),
                        comparison |-> IF other = Null THEN Null
                                       ELSE Comparison(Lib, id, other)])
        /\ UNCHANGED <<files, classCache, loaderCache, registry>>

(* What engineering_check adds for a condition, and the callers that know  *)
(* the geometry and the preload.                                           *)
AssessReadiness(id, geometry, preload) ==
    /\ LoadPopulation(FrictionFiles({id}))
    /\ Answer("readiness", <<id, geometry, preload>>,
              FrictionReadiness(Lib, id, geometry, preload))
    /\ UNCHANGED <<files, classCache, loaderCache, registry>>

AdviseMaterial(requirement, family) ==
    /\ LoadPopulation({"material library"})
    /\ Answer("materials", <<requirement, family>>, RecommendMaterials(Lib, requirement, family))
    /\ UNCHANGED <<files, classCache, loaderCache, registry>>

CompareTwoMaterials(a, b) ==
    /\ LoadPopulation({"material library"})
    /\ Answer("compare materials", <<a, b>>, CompareMaterials(Lib, a, b))
    /\ UNCHANGED <<files, classCache, loaderCache, registry>>

-----------------------------------------------------------------------------
(* The registry.                                                           *)

(* BaseLibrary.replace_records of each of ks.                              *)
ReplaceRecords(ks, new) ==
    /\ records' = [k \in Registered |-> IF k \in ks THEN new[k] ELSE records[k]]
    /\ count' = [k \in Registered |-> Len(records'[k])]
    /\ typed' = [k \in Registered |-> IF k \in ks THEN Null ELSE typed[k]]

(* population.populate_library, populate_all *)
Populate(ks) ==
    /\ LoadPopulation(ks)
    /\ ReplaceRecords(ks, Population)
    /\ Answer("populate", ks, [k \in ks |-> Len(Cached(k))])
    /\ UNCHANGED <<files, classCache, loaderCache, sources>>

(* MigrationEngine.apply with what the loader returns: the digest is that  *)
(* of the file as it is now.                                               *)
Migrate(k, loaded) ==
    /\ loaderCache' = [j \in DOMAIN loaderCache \cup {k} |->
                          IF j = k THEN loaded ELSE loaderCache[j]]
    /\ ReplaceRecords({k}, [j \in {k} |-> loaded])
    /\ sources' = [sources EXCEPT ![k] = [file |-> SourceOf[k], sha256 |-> disk[SourceOf[k]]]]

Attached(k) == SourceOf[k] # Null
Present(k) == Attached(k) /\ disk[SourceOf[k]] # Null

(* LibraryRegistry.load, what the loader keeps is not read again.          *)
FacadeLoad(k) ==
    LET loaded == IF k \in DOMAIN loaderCache THEN loaderCache[k] ELSE disk[SourceOf[k]]
    IN  /\ \/ /\ Present(k)
              /\ Migrate(k, loaded)
              /\ Answer("load", k, "ok")
           \/ /\ ~Present(k) /\ k \in DOMAIN loaderCache   \* and no file to digest
              /\ ReplaceRecords({k}, loaderCache)
              /\ Answer("load", k, "error")
              /\ UNCHANGED <<loaderCache, sources>>
           \/ /\ ~Present(k) /\ k \notin DOMAIN loaderCache
              /\ Answer("load", k, "error")
              /\ UNCHANGED <<loaderCache, records, count, typed, sources>>
        /\ UNCHANGED <<files, fileCache, classCache>>

(* Mutant of FacadeReload: what is cached is migrated again.               *)
FacadeReloadCached(k) ==
    /\ Present(k)
    /\ Migrate(k, IF k \in DOMAIN loaderCache THEN loaderCache[k] ELSE disk[SourceOf[k]])
    /\ Answer("reload", k, "ok")
    /\ UNCHANGED <<files, fileCache, classCache>>

(* LibraryRegistry.reload *)
FacadeReload(k) ==
    /\ \/ /\ Present(k)
          /\ Migrate(k, disk[SourceOf[k]])
          /\ Answer("reload", k, "ok")
       \/ /\ ~Present(k)
          /\ loaderCache' = [j \in DOMAIN loaderCache \ {k} |-> loaderCache[j]]
          /\ Answer("reload", k, "error")
          /\ UNCHANGED <<records, count, typed, sources>>
    /\ UNCHANGED <<files, fileCache, classCache>>

(* BaseLibrary.typed_records, load_typed *)
TypedRecords(k) ==
    /\ IF typed[k] # Null \/ SchemaViolations(k, records[k]) # {}
       THEN UNCHANGED typed
       ELSE typed' = [typed EXCEPT ![k] = records[k]]
    /\ Answer("typed", k, typed'[k] # Null)
    /\ UNCHANGED <<files, fileCache, classCache, loaderCache, records, count, sources>>

(* LibraryRegistry.statistics of one library.                              *)
Statistics(k) ==
    /\ Answer("statistics", k, <<Len(records[k]), LibraryReport(k, records[k])>>)
    /\ UNCHANGED <<files, fileCache, classCache, loaderCache, registry>>

-----------------------------------------------------------------------------
Serve(r) ==
    \/ r.op = "edit" /\ EditFile(r.file, r.content)
    \/ r.op = "restart" /\ Restart
    \/ r.op = "clear" /\ ClearCache
    \/ r.op = "integrity" /\ CheckIntegrity
    \/ r.op = "classes" /\ CheckClasses
    \/ r.op = "battery" /\ CheckLibrary(r.key)
    \/ r.op = "search" /\ Search(r.key, r.wanted)
    \/ r.op = "temperature" /\ FindWasherTemperature(r.low, r.high)
    \/ r.op = "pair" /\ PairClasses(r.bolt, r.nut, r.diameter)
    \/ r.op = "snapshot" /\ SnapshotStrength(r.bolt, r.nut, r.diameter)
    \/ r.op = "assembly" /\ AssessAssembly(r.assembly)
    \/ r.op = "friction" /\ AdviseFriction(r.id, r.use, r.other)
    \/ r.op = "readiness" /\ AssessReadiness(r.id, r.geometry, r.preload)
    \/ r.op = "materials" /\ AdviseMaterial(r.requirement, r.family)
    \/ r.op = "compare_materials" /\ CompareTwoMaterials(r.id, r.other)
    \/ r.op = "populate" /\ Populate(r.keys)
    \/ r.op = "load" /\ FacadeLoad(r.key)
    \/ r.op = "reload" /\ FacadeReload(r.key)
    \/ r.op = "typed" /\ TypedRecords(r.key)
    \/ r.op = "statistics" /\ Statistics(r.key)

LibraryNext == \E r \in LibraryRequests : Serve(r)

LibrarySpec == LibraryInit /\ [][LibraryNext]_libraryVars

-----------------------------------------------------------------------------
(* Properties.                                                             *)

(* Each cache holds files that exist under their own key, and each         *)
(* registered library has records, a count, and perhaps a source and       *)
(* parsed records.                                                         *)
LibraryTypeOK ==
    /\ edits \in 0..MaxEdits
    /\ DOMAIN fileCache \subseteq Keys /\ DOMAIN loaderCache \subseteq Registered
    /\ \A k \in DOMAIN loaderCache : Attached(k) /\ loaderCache[k] # Null
    /\ DOMAIN records = Registered /\ DOMAIN typed = Registered /\ DOMAIN sources = Registered
    /\ count \in [Registered -> Nat]
    /\ \A k \in Registered : sources[k] # Null => sources[k].file = SourceOf[k]

(* What a library counts and what it has parsed is what it holds, whether  *)
(* its records came from population or from a source, before or after they *)
(* were parsed (BaseLibrary.replace_records resets the parsed records).    *)
TypedFollowsRecords ==
    \A k \in Registered :
        /\ count[k] = Len(records[k])
        /\ typed[k] # Null => /\ typed[k] = records[k]
                              /\ SchemaViolations(k, records[k]) = {}

(* After a reload the records are those of the file as it is now, and the  *)
(* digest that is recorded for them is theirs: what load cannot promise.   *)
ReloadIsFresh ==
    [][ \A k \in Registered :
            (answer' = [op |-> "reload", of |-> k, reply |-> "ok"]) =>
                /\ records'[k] = disk[SourceOf[k]]
                /\ sources'[k].sha256 = records'[k] ]_libraryVars

(* The registry in memory is true to what was read, and to the file after  *)
(* a reload, in every order of populating, loading, parsing and rewriting. *)
RegistryHolds == []LibraryTypeOK /\ []TypedFollowsRecords /\ ReloadIsFresh

(* A metric thread library that its battery accepts nests: the external    *)
(* minor diameter is below the internal one, and that below the nominal.   *)
(* No thread has a pitch below a tenth of a millimetre.                    *)
AcceptedThreadsNest ==
    LET rs == disk["thread library"] IN
    ThreadReport(rs) = {} =>
        \A i \in DOMAIN rs : (IsMetric(rs[i]) /\ rs[i]["pitch_mm"] >= 100) =>
            LET external == Get(rs[i], "minor_diameter_external_mm")
                internal == Get(rs[i], "minor_diameter_internal_mm")
            IN  /\ IsNumber(external) /\ IsNumber(internal)
                /\ external < internal /\ internal < rs[i]["nominal_diameter_mm"]

ThreadName(r) == IF Empty(Get(r, "thread")) THEN Get(r, "designation") ELSE r["thread"]

(* A bolt and a nut of libraries that their batteries accept, which the    *)
(* dimensional engine pairs on their recorded pitches, name the same       *)
(* thread: "M10" and "M10x1.25" are not paired though both may record 1.25.*)
CompatibleShareThreads ==
    LET bolts == disk["bolt library"]
        nuts == disk["nut library"]
        Named(r) == NamedPitch(ThreadName(r))
    IN  (BoltReport(bolts) = {} /\ NutReport(nuts) = {}) =>
            \A i \in DOMAIN bolts, j \in DOMAIN nuts :
                (/\ Pairing(bolts[i], nuts[j]).compatible
                 /\ Null \notin {Get(bolts[i], "pitch_mm"), Get(nuts[j], "pitch_mm")}
                 /\ Null \notin {Named(bolts[i]), Named(nuts[j])})
                => Named(bolts[i]) = Named(nuts[j])

(* The two engines have a table each and do not call each other: where     *)
(* both know the classes, a nut is too weak for one exactly when it fails  *)
(* for the other.                                                          *)
EnginesAgree ==
    LET bolts == disk["bolt library"]
        nuts == disk["nut library"]
        classes == disk["classes"]
    IN  \A i \in DOMAIN bolts, j \in DOMAIN nuts :
            LET b == Get(bolts[i], "property_class")
                n == Get(nuts[j], "property_class")
            IN  (/\ b \in DOMAIN MinimumNutClass \cap DOMAIN MinimumNumeral
                 /\ n \in DOMAIN Numeral
                 /\ Null \notin {GetClass(classes.bolts, b), GetClass(classes.nuts, n)})
                => (NutTooWeak(bolts[i], nuts[j])
                    <=> StrengthPairing(classes.bolts, classes.nuts, b, n, Null, Null, Null)
                            .strength = "fail")

(* The recommended nut class is the least that suffices: of the classes    *)
(* that have a number, those from it up pass and those below it fail.      *)
RecommendationSuffices ==
    LET bolts == disk["classes"].bolts
        nuts == disk["classes"].nuts
    IN  \A i \in DOMAIN bolts, j \in DOMAIN nuts :
            LET b == Get(bolts[i], "designation")
                n == Get(nuts[j], "designation")
                result == StrengthPairing(bolts, nuts, b, n, Null, Null, Null)
            IN  (result.recommended # Null /\ n \in DOMAIN Numeral) =>
                    (result.strength = "pass" <=> Numeral[n] >= Numeral[result.recommended])

(* A strength class file that its checks accept gives one answer: at most  *)
(* one record of a standard and a designation covers a diameter.           *)
StrengthLookupUnique ==
    LET bolts == disk["classes"].bolts
        Wanted(r) == [standard |-> Get(r, "standard"), designation |-> Get(r, "designation")]
    IN  BoltStrengthReport(bolts) = {} =>
            \A i \in DOMAIN bolts, d \in {Get(r, "diameter_max_mm") : r \in {bolts[j] :
                                                      j \in DOMAIN bolts}} \ {Null} :
                Cardinality(ListClasses(bolts, Wanted(bolts[i]), d)) <= 1

(* Strength has one answer: one class for a diameter, one verdict of the   *)
(* two engines on a nut, and a recommended nut that is the least to pass.  *)
StrengthsAgree == EnginesAgree /\ RecommendationSuffices /\ StrengthLookupUnique

FrictionAccepted ==
    /\ FrictionReport(disk["friction condition library"]) = {}
    /\ Dangling(disk["friction condition library"], "coating_id",
                Values(disk["coating library"], "id")) = {}
    /\ Dangling(disk["friction condition library"], "lubricant_id",
                Values(disk["lubrication library"], "id")) = {}

(* What the friction battery and the reference checks accept is not        *)
(* refused later: a condition with an id and an overall coefficient gets   *)
(* an estimate with its scenarios in order.                                *)
AcceptedConditionsAnswer ==
    LET conditions == disk["friction condition library"] IN
    FrictionAccepted =>
        \A i \in DOMAIN conditions :
            (/\ Get(conditions[i], "id") # Null
             /\ \E f \in {"overall_friction_coefficient_min",
                           "overall_friction_coefficient_max"} : Get(conditions[i], f) # Null)
            => LET reply == FrictionReadiness(disk, conditions[i]["id"], FALSE, FALSE) IN
               /\ Refusal(disk, conditions[i]["id"]) = Null
               /\ reply.mode = "mode_a_combined_estimate"
               /\ 2 * reply.scenarios[1] <= reply.scenarios[2]
               /\ reply.scenarios[2] <= 2 * reply.scenarios[3]

(* Comparing two conditions of an accepted library does not depend on      *)
(* which is asked for first.                                               *)
ComparisonsAgree ==
    LET conditions == disk["friction condition library"]
        Id(i) == conditions[i]["id"]
    IN  FrictionAccepted =>
            \A i, j \in DOMAIN conditions :
                (Refusal(disk, Id(i)) = Null /\ Refusal(disk, Id(j)) = Null) =>
                    (Comparison(disk, Id(i), Id(j)).range = "a_lower"
                     <=> Comparison(disk, Id(j), Id(i)).range = "b_lower")

(* A bolt and a nut that are found compatible for a diameter are of that   *)
(* diameter, if the library has either of them in it, although a part of   *)
(* another diameter is used when it does not.  The two places in which a   *)
(* record has its diameter must agree: find_bolt reads only one of them.   *)
NoOtherSize ==
    (answer.op = "assembly" /\ answer.reply # NoAssessment) =>
        LET a == answer.of
            d == a["nominal_diameter_mm"]
            bolts == Cached("bolt library")
            nuts == Cached("nut library")
            Diameters(rs, name) ==
                {Diameter(rs[i]) : i \in {j \in DOMAIN rs : Get(rs[j], "designation") = name}}
            consistent ==
                /\ \A j \in DOMAIN bolts : Get(bolts[j], "diameter_mm") = Diameter(bolts[j])
                /\ \A j \in DOMAIN nuts : ThreadSize(nuts[j]) = Diameter(nuts[j])
        IN  (/\ d # Null /\ consistent
             /\ answer.reply.checks["bolt_nut_dimensional"] = "compatible"
             /\ d \in Diameters(bolts, a["bolt_designation"])
                      \cup Diameters(nuts, a["nut_designation"]))
            => Diameter(ResolveBolt(Lib, a["bolt_designation"], d)) = d

(* The parts an engine declares to fit do fit: threads nest, a paired bolt *)
(* and nut name one thread, and no part of another size stands in.         *)
PartsFit == AcceptedThreadsNest /\ CompatibleShareThreads /\ NoOtherSize

(* A material that is better than another in everything that is required   *)
(* is ranked before it, whatever family is asked for.                      *)
DominantMaterialsFirst ==
    answer.op = "materials" =>
        LET rs == Cached("material library")
            ranked == answer.reply.candidates
            least == answer.of[1]
            Dominates(r, s) == \A f \in DOMAIN least : r[f] > s[f]
        IN  (\E f \in DOMAIN least : least[f] > 0) =>
                \A m, n \in DOMAIN ranked :
                    Dominates(rs[ranked[m]], rs[ranked[n]]) => m < n

(* Advice on friction and material is consistent with the records it rests *)
(* on: what was accepted is answered, comparisons do not depend on their   *)
(* order, and a better material is not ranked after a worse one.           *)
AdviceHolds == AcceptedConditionsAnswer /\ ComparisonsAgree /\ DominantMaterialsFirst

=============================================================================
