SPECIFICATION Spec
CONSTANTS
    u1 = u1
    u2 = u2
    f1 = f1
    f2 = f2
    Procs = {p1}
    Files = {f1, f2}
    MetaFile = MetaFile
    Uploads = {u1, u2}
    FileOf <- MCFileOfDistinct
    Meta = Meta
    None = None
    Torn = Torn
    NoInv = NoInv
    MaxVersion = 3
    SameVolume = TRUE
    FailSteps <- MCBeforeCommit
    MaxFailures = 1
    MaxCrashes = 1
INVARIANTS
    TypeOK
    AckedReadable
    RootMatchesHead
PROPERTIES
    ImplementsVersionedObject
CHECK_DEADLOCK FALSE
