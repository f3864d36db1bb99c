\* Duplicated, delayed and overlapping ticks, and an owner editing the monitor.
SPECIFICATION Spec
CHECK_DEADLOCK FALSE
CONSTANTS
    Executions = {e1, e2, e3}
    Consumers = {}
    Sweepers = {s1, s2}
    Reapers = {r1}
    Outcomes = {"pass", "fail"}
    LostReplies = TRUE
    Intervals = {2, 3}
    MaxLag = 1
    EditLag = 1
    MaxDeliveries = 2
    MaxRun = 2
    Stale = 2
    Horizon = 7
    MaxTime = 7
SYMMETRY TickSymmetry
PROPERTIES
    CadenceKept
