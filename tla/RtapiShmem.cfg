SPECIFICATION Spec
CONSTANTS
    Procs = {p1, p2}
    Keys = {"uuid", "task"}
    UuidKey = "uuid"
    MaxShm = 2
    ShmgetRetries = 1
    MaxSegs = 2
    MaxRefs = 2
    MaxIds = 2
SYMMETRY Symmetry
INVARIANTS
    TypeOK
    RefsKeepMapping
    LastOneRemoves
    IdsDistinct
CHECK_DEADLOCK FALSE
