SPECIFICATION Spec
CONSTANTS
    QueueCap = 2
    Programs = {"main"}
    OsFails = FALSE
    MaxRuns = 2
INVARIANT
    StartSucceeds
CHECK_DEADLOCK FALSE
