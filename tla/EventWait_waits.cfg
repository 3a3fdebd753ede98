CONSTANTS
    Timers = {t}
    Monitors = {m}
    Agents = {a}
    Started = {{m}, {a}}
    MaxWaiters = 2
    MaxNews = 1
    MaxRounds = 1
    MaxOther = 1
SPECIFICATION FairSpec
INVARIANTS
    TypeOK
    GivenOnce
    NothingVanishes
    NoMissedWake
PROPERTIES
    NoFalseEnd
    TurnEnds
CHECK_DEADLOCK FALSE
