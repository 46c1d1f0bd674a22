\* Control dependences on the first instruction of a trace.
CONSTANTS
    WindowSize = 2
    Regs = {"r1", "r2"}
    Bytes = {"b1", "b2"}
    Lines = {"line"}
    LineOf <- MCLineOf
    StackBytes = {"b2"}
    Opers <- ControlOpers
    ControlDeps <- MCControlDeps
    SetjmpAddr = 8
    Configs <- ControlConfigs
    MaxTrace = 5
SPECIFICATION Spec
INVARIANTS RespectControlDeps
CHECK_DEADLOCK FALSE
