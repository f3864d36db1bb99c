\* Two shards completing concurrently while the watchdog sweeps.
SPECIFICATION Spec
CHECK_DEADLOCK FALSE
CONSTANTS
    a = a
    b = b
    c = c
    Tests = {a}
    Plans <- NoPlan
    Batches <- NoBatches
    ShardInputs <- TwoShards
    CompleteStatuses = {"passed", "failed", "timedout"}
    Handlers = {h1, h2}
    Sweepers = {w}
    RowCap = 0
    Grace = 1
    Stale = 0
    Horizon = 2
    MaxTime = 2
    MaxCrashes = 0
SYMMETRY HandlerSymmetry
INVARIANTS
    EveryShardCounts
    NoPassWithoutEveryShard
    RoomNeverAhead
PROPERTIES
    StatusOnlyWorsens
