SPECIFICATION StreamSpec
CONSTANTS
    login = login
    search = search
    trace = trace
    video = video
    shot = shot
    Tests = {login, search}
    Serial = {login}
    Retries <- RetriesOf
    BatchSize = 2
    Artifacts = {trace, video, shot}
    ArtifactsOf <- Files
    Oversized = {video}
    Concurrency = 1
    MaxRetries = 1
    CompleteRetries = 1
INVARIANTS
    SummaryAddsUp
    CompleteComesLast
    PutsCapped
    FilesToOwnRows
PROPERTIES
    EverythingSettles
CHECK_DEADLOCK FALSE
