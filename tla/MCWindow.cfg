\* Five slots (an odd number, so the heap has a node with one child) and
\* ready times up to 6.  Once every slot holds MaxTime the window still
\* accepts MaxTime, so no state is a deadlock.
CONSTANTS
    WindowSize = 5
    MaxTime = 6
SPECIFICATION Spec
INVARIANTS TypeOK RobInProgramOrder HeapCheck
PROPERTIES ImplementsIssueWindow
