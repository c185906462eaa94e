SPECIFICATION Spec
CONSTANTS
    scene = scene
    capture = capture
    Assets = {scene, capture}
    Models = {scene}
    Scenes = {scene}
    Bulks <- MCBulks
    Bits = {b1, b2}
    NoBits = NoBits
    NoRow = NoRow
    Requests = {q1, q2}
    MaxUploads = 3
    Serial = TRUE
    FailSteps = {"storeMetadata", "findObject", "passUpload", "remove", "clear", "retireAsset", "promote"}
    MaxFailures = 1
SYMMETRY MCSymmetry
INVARIANTS
    TypeOK
    RowsReadTheirBits
    EveryVersionHasARow
    StagedFileKept
PROPERTIES
    IngestedRowStays
    OnlyEmptyAssetsRetire
    UploadsAreOffered
CHECK_DEADLOCK FALSE
