SPECIFICATION MCSpec
CONSTANTS
    w1 = w1
    w2 = w2
    ann = ann
    bob = bob
    root = root
    phrase1 = phrase1
    tagA = tagA
    tagB = tagB
    word1 = word1
    Version = {1, 2, 3}
    NoStatus = NoStatus
    NoVersion = NoVersion
    NoFilter = NoFilter
    NoValue = NoValue
    NoRequest = NoRequest
    NoAnswer = NoAnswer
    Content <- Contents
    Workers = {w1, w2}
    Users = {ann, bob, root}
    Admins = {root}
    Requests <- AllRequests
    OtherTrails <- OneLogin
    MaxTrail = 3
    MaxAudit = 2
    MaxSnapshots = 1
    MaxSince = 2
SYMMETRY BothWorkers
INVARIANTS
    EvidenceHolds
    AnswersAreAudited
    ReasoningRepeatsTheTrace
    RecommendedIsSafe
