\* A destroyed table has no next step.
CONSTANTS
    Depth = 3
    Digits = {0, 1}
    Lines <- MCLines
    NoLine = NoLine
    Buckets = {0, 1}
    hash1 <- MCHash1
    hash2 <- MCHash2
SPECIFICATION Spec
INVARIANTS TypeOK NothingLeaks
PROPERTIES ImplementsLineMap
CHECK_DEADLOCK FALSE
