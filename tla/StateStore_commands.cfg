SPECIFICATION Spec
CONSTANTS
    Branch = {main, side}
    Main = main
    CtxMember = {config}
    ListMember = {todos}
    Value = {v1}
    NoValue = none
    MaxCommands = 3
    Proc = {p, q}
    Session = {}
    Tooled = {}
    Commands = {"turn", "set", "clear", "reset", "checkout", "create", "delete", "rename", "describe"}
    Replaying = {}
    StateTries = 3
    TableTries = 3
INVARIANTS SystemPrompt
PROPERTIES ImplementsBranchTable PlainKeepsBranches PlainKeepsReflog
