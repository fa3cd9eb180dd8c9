SPECIFICATION Spec
CONSTANTS
    QueueCap = 2
    Programs = {"main"}
    OsFails = FALSE
    MaxRuns = 1
INVARIANT
    NoUseAfterRelease
CHECK_DEADLOCK FALSE
