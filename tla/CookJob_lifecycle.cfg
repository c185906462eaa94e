SPECIFICATION Spec
CONSTANTS
    scene = scene
    inspect = inspect
    other = other
    Jobs = {scene}
    Scenes = {scene}
    NestedOf <- MCNoNested
    NoJob = NoJob
    Permits = 1
    JobRetryCount = 2
    RequestRetryCount = 2
    Reports = {"waiting", "running", "done", "error", "cancelled"}
    Unreliable = TRUE
    Silence = FALSE
    WaitTimeouts = TRUE
    MaxDbFailures = 1
INVARIANTS
    TypeOK
    OutcomeAgrees
    CleanedUpOnce
PROPERTIES
    FinalStatusStays
CHECK_DEADLOCK FALSE
