SPECIFICATION Spec
CONSTANTS
    Branch = {main}
    Main = main
    CtxMember = {config}
    ListMember = {todos}
    Value = {v1, v2}
    NoValue = none
    MaxCommands = 5
    Proc = {p, s}
    Session = {s}
    Tooled = {}
    Commands = {"turn", "set"}
    Replaying = {}
    StateTries = 3
    TableTries = 3
PROPERTIES EveryWriteKeepsTurns
