SPECIFICATION Spec
CONSTANTS
    Levels = {10, 20}
    FirstInherited = {20}
    Requested = {"NotPublished", "Published"}
    Publications = {p1, p2}
    Tasks = {t1, t2}
    SceneFlags <- MCFlags
    MaxTotal = 4
    MaxPublications = 2
    MaxTasks = 2
    MaxFailures = 1
    MaxInheritances = 1
    None = None
SYMMETRY MCSymmetry
INVARIANTS
    TypeOK
    RowTellsEdan
    ContentAsRecorded
    DownloadsAllowed
    NothingLost
CHECK_DEADLOCK FALSE
