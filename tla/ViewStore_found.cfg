SPECIFICATION Spec
CONSTANTS
    b1 = b1
    b2 = b2
    Proc = {p1, p2}
    Blob = {b1, b2}
    Projects = {{b1}, {b1, b2}}
    Digest <- LargeFirst
    EntryMax = 4
    Start <- NothingBefore
    MaxRun = 2
    Ops = 3
    Faults = {"crash"}
INVARIANTS
    ReferencesResolve
CHECK_DEADLOCK FALSE
