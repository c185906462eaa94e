SPECIFICATION Spec
CONSTANTS
    project = project
    subject1 = subject1
    subject2 = subject2
    item1 = item1
    item2 = item2
    Objects = {project, subject1, subject2, item1, item2}
    Links <- MCLinks
    Levels = {1, 2}
    MaxDepth = 3
    Assignable = {project, subject1, item1}
    LookedUp = {subject1, item1}
    Requests = {r1, r2}
    Lookups = {l1}
    MaxFailures = 1
    None = None
SYMMETRY MCSymmetry
INVARIANTS
    TypeOK
    InheritsNearest
    OneAssignment
    CacheCurrent
CHECK_DEADLOCK FALSE
