\* Registers, memory and windows: traces of up to four instructions that
\* count, two windows of two slots each or fewer.  A finished schedule has no
\* next step.
CONSTANTS
    WindowSize = 2
    Regs = {"r1", "r2"}
    Bytes = {"b1", "b2"}
    Lines = {"line"}
    LineOf <- MCLineOf
    StackBytes = {"b2"}
    Opers <- DataOpers
    ControlDeps <- NoControlDeps
    SetjmpAddr = 0
    Configs <- WindowConfigs
    MaxTrace = 5
SPECIFICATION Spec
INVARIANTS TypeOK DataflowOrder WindowCapacity NoSpuriousDelay OpNumbers
PROPERTIES GreedyChoice WindowsMoveForward
CHECK_DEADLOCK FALSE
