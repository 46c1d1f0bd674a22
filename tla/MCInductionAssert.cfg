\* The assertion of adamant_IVE_read.
CONSTANTS
    Regs = {1, 2}
    Bytes = {0, 1}
    Accesses <- MCAccesses
    Infos = {"t1"}
    UnrollFactors = {2}
    GCInterval = 1
    NodeBound = 5
VIEW View
SPECIFICATION Spec
INVARIANTS ReadInBounds
CHECK_DEADLOCK FALSE
