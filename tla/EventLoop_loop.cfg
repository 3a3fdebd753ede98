CONSTANTS
    Jobs = {1, 2}
    Limited = {2}
    Deaf = {1}
    MaxOps = 1
SPECIFICATION FairSpec
INVARIANTS
    TypeOK
    EventsAreLinked
PROPERTIES
    ExitToldOnce
    StoppedJobEnds
CHECK_DEADLOCK FALSE
