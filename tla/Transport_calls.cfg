\* One call, a body longer than the window, everything that can go wrong.
CONSTANTS
    N = 1
    Window = 2
    CreditStep = 2
    Chunk = 1
    Room = 2
    Lengths = {0, 3}
    MaxTag = 2
    Faults = {"cancel", "destroy", "close", "abort", "refuse", "fail", "retire", "age"}
SPECIFICATION FairSpec
INVARIANTS
    TypeOK
    AnswersAreWhole
PROPERTIES
    CallsEnd
\* The calls are all made and ended.
CHECK_DEADLOCK FALSE
