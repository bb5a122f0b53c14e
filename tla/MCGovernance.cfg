SPECIFICATION MCSpec
CONSTANTS
    w1 = w1
    w2 = w2
    a1 = a1
    a2 = a2
    k1 = k1
    k2 = k2
    k3 = k3
    k4 = k4
    d1 = d1
    d2 = d2
    d3 = d3
    d4 = d4
    NoWorker = NoWorker
    NoRequest = NoRequest
    NoEvent = NoEvent
    BlankKey = BlankKey
    Restricted = {"washer_resolution"}
    Workers = {w1, w2}
    Requests <- AllRequests
    HasFcntl = TRUE
INVARIANTS
    ServiceInv
    DuplicatesBoundedByThreads
PROPERTIES
    AppendOnly
    CommandsAnswered
    SerialImplementsLedger
