CONSTANTS
    Jobs = {1, 2}
    Limited = {2}
    Deaf = {1}
    MaxOps = 1
SPECIFICATION Spec
INVARIANTS
    LadderHasChild
CHECK_DEADLOCK FALSE
