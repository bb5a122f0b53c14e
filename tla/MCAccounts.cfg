SPECIFICATION MCSpec
CONSTANTS
    w1 = w1
    w2 = w2
    root = root
    ann = ann
    bob = bob
    Workers = {w1, w2}
    Names = {root, ann, bob}
    BuiltIn = root
    Requests <- AllRequests
    MaxFailures = 2
    FailureWindow = 1
    RateWindow = 2
    ProfileOrder <- OneProfile
    MaxClock = 4
    MaxExports = 2
    Same = Same
    NoRequest = NoRequest
SYMMETRY BothWorkers
INVARIANTS
    LimitsHold
    OwnExportsImport
PROPERTY LastAdminFallsByOverlap
