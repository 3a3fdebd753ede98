SPECIFICATION FairSpec
CONSTANTS
    b1 = b1
    b2 = b2
    Proc = {p1, p2}
    Blob = {b1, b2}
    Projects = {{b1}, {b1, b2}}
    Digest <- LargeFirst
    EntryMax = 3
    Start <- ViewedBefore
    MaxRun = 2
    Ops = 2
    Faults = {"crash", "fail", "damage"}
INVARIANTS
    TypeOK
    NamedIsStored
    WrittenIsKept
PROPERTIES
    GarbageGoes
CHECK_DEADLOCK FALSE
