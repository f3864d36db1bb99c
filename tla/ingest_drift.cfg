\* A late flush while the watchdog recounts a run that finished under it.
SPECIFICATION Spec
CHECK_DEADLOCK FALSE
CONSTANTS
    a = a
    b = b
    c = c
    Tests = {a, b}
    Plans <- NoPlan
    Batches <- TwoBatches
    ShardInputs <- Unsharded
    CompleteStatuses = {"passed"}
    Handlers = {h1, h2}
    Sweepers = {w}
    RowCap = 0
    Grace = 1
    Stale = 0
    Horizon = 2
    MaxTime = 2
    MaxCrashes = 0
INVARIANTS
    CountersMatchRows
