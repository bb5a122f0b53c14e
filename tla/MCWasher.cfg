SPECIFICATION MCSpec
CONSTANTS
    w1 = w1
    w2 = w2
    r1 = r1
    r2 = r2
    b1 = b1
    k1 = k1
    k2 = k2
    k9 = k9
    d9 = d9
    NoWorker = NoWorker
    NoRequest = NoRequest
    NoItem = NoItem
    Miss = Miss
    BlankKey = BlankKey
    BlankBody = BlankBody
    Reconciler = Reconciler
    SourceStatus <- Source
    Workers = {w1, w2}
    Requests <- AllRequests
    ImportedFiles <- EvidenceFiles
    OtherEvents <- OtherLogs
    MaxEvidence = 3
SYMMETRY BothWorkers
INVARIANTS
    FilesInv
    DecisionsHold
    ClosuresHold
    ProjectionHolds
PROPERTIES
    FilesOnlyGrow
    SerialImplementsLedger
