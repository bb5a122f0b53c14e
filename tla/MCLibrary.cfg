SPECIFICATION MCSpec
CONSTANTS
    hexBolt = hexBolt
    hexNut = hexNut
    washer8 = washer8
    c1 = c1
    c2 = c2
    oil = oil
    Null = Null
    Blank = Blank
    Unparseable = Unparseable
    ThreadSchemaVersion = 1
    KnownThreadFields <- MCThreadFields
    KnownThreadSeries = {"ISO_METRIC", "UNC"}
    KnownBoltClasses = {"4.8", "8.8", "10.9"}
    KnownNutClasses = {"04", "6", "8", "10"}
    KnownMaterialGrades = {"42CrMo4"}
    ClassParts <- MCClassParts
    CoarsePitch <- MCCoarsePitch
    GeometricFields <- MCGeometricFields
    RequiredFields <- MCRequiredFields
    Numeral <- MCNumeral
    FamilyOf <- MCFamilyOf
    RegisteredStandards = {"VDI 2230"}
    Keys <- MCKeys
    Registered <- MCRegistered
    SourceOf <- MCSourceOf
    Contents <- MCContents
    LibraryRequests <- MCRequests
    MaxEdits = 2
INVARIANTS
    PartsFit
    StrengthsAgree
    AdviceHolds
PROPERTY RegistryHolds
