SPECIFICATION Spec
CONSTANTS
    QueueCap = 2
    Programs = {"main", "guard"}
    OsFails = TRUE
    MaxRuns = 2
INVARIANTS
    TypeOK
    CleanExit
    MessagesPrinted
    FaultsOnlyAfterRelease
PROPERTIES
    MainExits
CHECK_DEADLOCK FALSE
