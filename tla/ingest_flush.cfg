\* Two concurrent requests on an unsharded run, no watchdog.
SPECIFICATION Spec
CHECK_DEADLOCK FALSE
CONSTANTS
    a = a
    b = b
    c = c
    Tests = {a, b, c}
    Plans <- OnePlan
    Batches <- MixedBatches
    ShardInputs <- Unsharded
    CompleteStatuses = {"passed", "failed"}
    Handlers = {h1, h2}
    Sweepers = {}
    RowCap = 2
    Grace = 1
    Stale = 1
    Horizon = 3
    MaxTime = 3
    MaxCrashes = 0
SYMMETRY HandlerSymmetry
INVARIANTS
    TypeOK
    CountersMatchRows
    RowCapHolds
PROPERTIES
    ClosedRunIsFrozen
