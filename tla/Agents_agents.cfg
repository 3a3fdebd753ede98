SPECIFICATION FairSpec
CONSTANTS
    Root = root
    a = a
    b = b
    Agents = {a, b}
    Parent <- Tree
    Limits = {1, 2}
    Messages = {m}
    Routes <- Writes
    Crashing = {a}
INVARIANTS
    TypeOK
    LiveAreCounted
    ReceiptsTrue
PROPERTIES
    ReceiptsSettle
    OrphansEnd
CHECK_DEADLOCK FALSE
