SPECIFICATION Spec
CONSTANTS
    Branch = {main, side}
    Main = main
    CtxMember = {config}
    ListMember = {todos}
    Value = {v1, v2}
    NoValue = none
    MaxCommands = 3
    Proc = {p, q, s}
    Session = {s}
    Tooled = {s}
    Commands = {"turn", "set", "list", "clear", "reset", "delete", "refresh", "checkout"}
    Replaying = {p, q}
    StateTries = 2
    TableTries = 2
SYMMETRY Interchangeable
INVARIANTS TypeOK LossesAreWins
PROPERTIES PlainKeepsTurns PlainKeepsStore ReplayIsExact
