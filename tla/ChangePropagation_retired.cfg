SPECIFICATION FairSpec
CONSTANTS
    subject = subject
    item = item
    Objects <- MCObjects
    Names = {n1, n2}
    FirstName = n1
    Links <- MCLinks
    Lookups = {l1}
    LookedUp = {item}
    Indexers = {i1}
    MaxChanges = 1
    MaxFailures = 0
    None = None
PROPERTIES
    RetiredBecomesKnown
CHECK_DEADLOCK FALSE
