SPECIFICATION FairSpec
CONSTANTS
    Task = {1, 2, 3}
    Router <- Routers
    Fault <- Faults
    Mode = {"start", "run-once"}
    None = None
    MaxRun = 3
INVARIANTS
    StartHasPrerequisites
\* the runs are bounded, and a Stage may stay refused
CHECK_DEADLOCK FALSE
