SPECIFICATION Spec
CONSTANTS
    it = it
    m1 = m1
    m2 = m2
    un = un
    as = as
    au = au
    Objects <- MCObjects
    Kind <- MCKind
    Facts <- MCFacts
    Owned <- MCOwned
    Thumbnails <- MCThumbnails
    Xrefs <- MCXrefs
    FetchOrder <- MCFetchOrder
    FullDepth = 6
    MaxPushCount = 17
    None = None
INVARIANTS
    TypeOK
    WalkFindsAll
    HierarchyJudged
    FullGraphComplete
    GraphDataApplied
    WalkIsLinear
CHECK_DEADLOCK FALSE
