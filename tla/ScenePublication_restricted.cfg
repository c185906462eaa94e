SPECIFICATION Spec
CONSTANTS
    Levels = {10, 1000}
    FirstInherited = {None}
    Requested = {"NotPublished", "APIOnly", "Published"}
    Publications = {p1}
    Tasks = {t1}
    SceneFlags <- MCFlags
    MaxTotal = 3
    MaxPublications = 1
    MaxTasks = 2
    MaxFailures = 0
    MaxInheritances = 0
    None = None
INVARIANTS
    RestrictedNotShown
CHECK_DEADLOCK FALSE
