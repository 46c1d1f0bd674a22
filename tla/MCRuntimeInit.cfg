\* Traces of two instructions.
CONSTANTS
    Programs <- MCPrograms
    MaxTrace = 2
SPECIFICATION Spec
INVARIANTS ScheduledAtTwoTimes
CHECK_DEADLOCK FALSE
