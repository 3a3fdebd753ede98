\* Two processes, one sign-in and one more, a keyring that comes and goes.
CONSTANTS
    NoProc = "none"
    Proc = {"p1", "p2"}
    Accounts = 2
    Grants = 2
    MaxGen = 3
    Ops = 3
    Faults = {"crash", "cancel", "outage", "disk"}
SPECIFICATION FairSpec
INVARIANTS
    TypeOK
    PostsNewest
    StoredIsNewest
PROPERTIES
    RefreshKeepsRest
    RegistrationsStay
    RequestsEnd
CHECK_DEADLOCK FALSE
