\* A run without an instruction limit.
CONSTANTS
    WindowSize = 2
    Regs = {"r1", "r2"}
    Bytes = {"b1", "b2"}
    Lines = {"line"}
    LineOf <- MCLineOf
    StackBytes = {"b2"}
    Opers <- DataOpers
    ControlDeps <- NoControlDeps
    SetjmpAddr = 0
    Configs <- Unlimited
    MaxTrace = 5
SPECIFICATION Spec
INVARIANTS RunsToFinish
CHECK_DEADLOCK FALSE
