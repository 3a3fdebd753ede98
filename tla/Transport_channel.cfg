\* Two calls share a socket of one frame and one login.
CONSTANTS
    N = 2
    Window = 2
    CreditStep = 2
    Chunk = 1
    Room = 1
    Lengths = {3}
    MaxTag = 2
    Faults = {"age"}
SPECIFICATION Spec
INVARIANTS
    ParkedHasRenewal
    PausedHasWaker
    CreditConserved
\* The calls are all made and ended.
CHECK_DEADLOCK FALSE
