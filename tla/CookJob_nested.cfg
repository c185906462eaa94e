SPECIFICATION FairSpec
CONSTANTS
    scene = scene
    inspect = inspect
    other = other
    Jobs = {scene, inspect}
    Scenes = {scene}
    NestedOf <- MCNestedOfScene
    NoJob = NoJob
    Permits = 1
    JobRetryCount = 2
    RequestRetryCount = 2
    Reports = {"done", "error"}
    Unreliable = FALSE
    Silence = TRUE
    WaitTimeouts = TRUE
    MaxDbFailures = 0
PROPERTIES
    WorkflowHears
    JobsEnd
CHECK_DEADLOCK FALSE
