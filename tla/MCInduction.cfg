\* At most NodeBound nodes, a collection with every second addition.
CONSTANTS
    Regs = {1, 2}
    Bytes = {0, 1}
    Accesses <- MCAccesses
    Infos = {"t1"}
    UnrollFactors = {0, 1, 2, 3}
    GCInterval = 1
    NodeBound = 5
VIEW View
SPECIFICATION Spec
INVARIANTS TypeOK RefCounts
PROPERTIES ImplementsInductionChains
CHECK_DEADLOCK FALSE
