SPECIFICATION Spec
CONSTANTS
    Callers = {k1, k2}
    Ops <- ThreadOps
    CompNames = {1}
    Names = {1}
    ThreadNames = {3, 4}
    Reentrant = {1}
    FpFuncts = {}
    FpThreads = {}
    Period <- SamePeriod
    BadPriority = {4}
    Positions <- EitherEnd
    LockTypes = {}
    MaxComps = 2
    MaxFuncts = 1
    MaxPins = 1
    MaxParams = 3
    MaxThreads = 1
    MaxEntries = 2
    MaxTasks = 2
    MaxIds = 3
SYMMETRY Symmetry
INVARIANTS TypeOK UsersCountEntries OwnersListed EntriesListed
CHECK_DEADLOCK FALSE
