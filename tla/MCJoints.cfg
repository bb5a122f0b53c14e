SPECIFICATION MCSpec
CONSTANTS
    w1 = w1
    w2 = w2
    ann = ann
    bob = bob
    k1 = k1
    c1 = c1
    c2 = c2
    NoUser = NoUser
    NoKey = NoKey
    NoRequest = NoRequest
    Users = {ann, bob}
    Keys = {k1}
    Contents = {c1, c2}
    Workers = {w1, w2}
    Requests <- AllRequests
    Failures = {"busy", "crash"}
    MaxRevisions = 2
SYMMETRY BothWorkers
INVARIANT JointInv
PROPERTIES
    ContentImmutable
    SerialImplementsRegister
