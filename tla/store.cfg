SPECIFICATION StoreSpec
CONSTANTS
    trace = trace
    video = video
    t1 = t1
    t2 = t2
    Requests = {r1, r2}
    Idents = {trace, video}
    Tests = {t1, t2}
    TestOf <- OneEach
    Payloads <- MixedPayloads
    Limit = 3
    LastMonth = 2
    SweepLimit = 1
    Expiring = {trace, t2}
    MaxObjects = 1
    MaxCrashes = 1
    MaxRebases = 1
INVARIANTS
    NoStrandedBytes
PROPERTIES
    AnswersTheLiveRow
    MeterFollowsRows
    NoBumpOvershoots
    ExpiredIsSwept
CHECK_DEADLOCK FALSE
