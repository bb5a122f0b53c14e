SPECIFICATION RollbackSpec
CONSTANTS
    w1 = w1
    w2 = w2
    t1 = t1
    t2 = t2
    blank = blank
    long = long
    bad = bad
    Version = {1, 2, 3, 4, 5}
    NoStatus = NoStatus
    NoVersion = NoVersion
    NoRequest = NoRequest
    Texts = {blank, long, bad}
    Tags = {t1, t2}
    BadTexts = {bad}
    Workers = {w1, w2}
    Requests <- EveryOperation
    Failures = {"save", "insert", "compensate", "commit", "crash"}
    MaxVersion = 3
    MaxHistory = 5
    MaxAudit = 4
INVARIANT BasesExist
