\* A reporter that may die at any point, a cron that may be killed once.
SPECIFICATION FairSpec
CHECK_DEADLOCK FALSE
CONSTANTS
    a = a
    b = b
    c = c
    Tests = {a, b}
    Plans <- OnePlan
    Batches <- TwoBatches
    ShardInputs <- Unsharded
    CompleteStatuses = {"passed", "failed"}
    Handlers = {h1, h2}
    Sweepers = {w}
    RowCap = 0
    Grace = 0
    Stale = 1
    Horizon = 1
    MaxTime = 3
    MaxCrashes = 1
PROPERTIES
    RunsFinish
    ImplementsLedger
    OnlyUnlockedRecountDrifts
