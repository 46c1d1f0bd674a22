\* Branches, calls and returns, with and without prediction and windows:
\* traces of up to five instructions.
CONSTANTS
    WindowSize = 2
    Regs = {"r1", "r2"}
    Bytes = {"b1", "b2"}
    Lines = {"line"}
    LineOf <- MCLineOf
    StackBytes = {"b2"}
    Opers <- ControlOpers
    ControlDeps <- MCControlDeps
    SetjmpAddr = 8
    Configs <- ControlConfigs
    MaxTrace = 5
SPECIFICATION Spec
INVARIANTS BranchOrder ControlOrder CallOrder NoSpuriousDelay FinishTimeCovers
CHECK_DEADLOCK FALSE
