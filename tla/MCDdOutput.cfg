SPECIFICATION Spec
CONSTANTS
    Choices <- MCChoices
    dd_tick_interval = 2
    MaxOps = 3
    MaxRuns = 3
INVARIANTS
    TypeOK
    OneDiagramIsSafe
    SteadyRunsAreSafe
    ResumesEarlyEnough
CHECK_DEADLOCK FALSE
