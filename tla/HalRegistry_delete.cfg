SPECIFICATION Spec
CONSTANTS
    Callers = {1}
    Ops <- DeleteOps
    CompNames = {1}
    Names = {1}
    ThreadNames = {3}
    Reentrant = {}
    FpFuncts = {}
    FpThreads = {}
    Period <- SamePeriod
    BadPriority = {}
    Positions <- LastPosition
    LockTypes <- LockLoad
    MaxComps = 2
    MaxFuncts = 2
    MaxPins = 2
    MaxParams = 3
    MaxThreads = 1
    MaxEntries = 1
    MaxTasks = 1
    MaxIds = 3
PROPERTIES ThreadDeleteReturns
CHECK_DEADLOCK FALSE
