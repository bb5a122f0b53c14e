SPECIFICATION MCSpec
CONSTANTS
    w1 = w1
    w2 = w2
    ann = ann
    bob = bob
    eve = eve
    fileA = fileA
    fileB = fileB
    fileC = fileC
    fileD = fileD
    fileE = fileE
    NoUser = NoUser
    NoFile = NoFile
    NoRequest = NoRequest
    Workers = {w1, w2}
    Requests <- AllRequests
    Approvers = {ann, bob}
    Failures = {"busy", "crash"}
    MaxStudies = 2
    MaxDatasets = 2
    MaxRecords = 4
SYMMETRY BothWorkers
INVARIANTS
    RowsInv
    ApprovalsHold
    ImportsWhole
PROPERTIES
    MeasurementsStand
    SerialImplementsRegister
