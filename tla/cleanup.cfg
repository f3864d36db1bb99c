SPECIFICATION CleanupSpec
CONSTANTS
    u1 = u1
    u2 = u2
    eager = eager
    cron = cron
    Uploads = {u1, u2}
    EagerPass = eager
    CronPasses = {cron}
    PutTTL = 1
    Grace = 2
    Lease = 2
    IncompleteRetry = 1
    BaseRetry = 1
    MaxRetry = 2
    PageSize = 1
    PageLimit = 1
    MaxRun = 2
    MaxFaults = 2
    DeleteBy = 1
    MaxTime = 5
INVARIANTS
    CleanupTypeOK
    JobOutlivesUploads
    OverlapOnlyPastLease
PROPERTIES
    LeavesOnlyUnseen
    CleanupEnds
CHECK_DEADLOCK FALSE
