\* At-least-once delivery, infra retries, ambiguous writes and the reaper.
SPECIFICATION FairSpec
CHECK_DEADLOCK FALSE
CONSTANTS
    Executions = {e1}
    Consumers = {c1, c2}
    Sweepers = {s1}
    Reapers = {r1}
    Outcomes = {"pass", "error", "infra"}
    LostReplies = TRUE
    Intervals = {1}
    MaxLag = 0
    EditLag = 0
    MaxDeliveries = 3
    MaxRun = 1
    Stale = 1
    Horizon = 3
    MaxTime = 7
INVARIANTS
    OneContainerUnlessErrorLost
PROPERTIES
    OnlyItsOwnerResettles
    ExecutionsSettle
