SPECIFICATION FairSpec
CONSTANTS
    subject = subject
    item = item
    Objects <- MCObjects
    Names = {n1, n2}
    FirstName = n1
    Links <- MCLinks
    Lookups = {l1}
    LookedUp = {item}
    Indexers = {i1, i2}
    MaxChanges = 2
    MaxFailures = 1
    None = None
INVARIANTS
    TypeOK
    NamesCurrent
    RetiredSeenByUpdate
    IndexCurrent
PROPERTIES
    IndexBecomesCurrent
CHECK_DEADLOCK FALSE
