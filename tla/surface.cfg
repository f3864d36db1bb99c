SPECIFICATION SurfaceSpec
CONSTANTS
    Surfaces = {"check", "comment"}
    Posters = {p1, p2, p3}
    Runs = {1, 2}
    ClaimTTL = 0
    Attempts = 2
    MaxRev = 2
    MaxTime = 2
    MaxFaults = 1
    MaxDeletes = 1
INVARIANTS
    HoldersOverlapOnlyExpired
    OneOfEach
    NewestRunShown
PROPERTIES
    RecordNeverGoesBack
    GoesBackOnlyAfterLoss
SYMMETRY PosterSymmetry
CHECK_DEADLOCK FALSE
