SPECIFICATION MCSpec
CONSTANTS
    w1 = w1
    w2 = w2
    ann = ann
    bob = bob
    eve = eve
    proj = proj
    NoProject = NoProject
    NoUser = NoUser
    NoRequest = NoRequest
    DataWorkers = {w1, w2}
    Workers = {w1, w2}
    DataRequests <- AllData
    Requests <- AllRequests
    Required = {"friction", "washer"}
    OwnerOf <- Owners
    Reviewers = {ann, bob}
    MaxPackages = 4
    MaxVersions = 4
    MaxGolden = 2
    MaxCertificates = 1
    MaxCalculations = 2
    MaxRevisions = 3
    MaxReleases = 1
SYMMETRY BothWorkers
INVARIANTS
    RevisionsHold
    VersionsHold
    ReleasesHold
    AnsweredIsTraced
PROPERTY DataIsNeverLost
