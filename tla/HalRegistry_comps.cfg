SPECIFICATION Spec
CONSTANTS
    Callers = {1, 2}
    Ops <- RegistryOps
    CompNames = {1}
    Names = {1, 2}
    ThreadNames = {3}
    Reentrant = {}
    FpFuncts = {}
    FpThreads = {}
    Period <- SamePeriod
    BadPriority = {}
    Positions <- LastPosition
    LockTypes <- LockLoad
    MaxComps = 1
    MaxFuncts = 2
    MaxPins = 3
    MaxParams = 3
    MaxThreads = 1
    MaxEntries = 1
    MaxTasks = 1
    MaxIds = 3
INVARIANTS ListsSorted ParamsShowLiveFuncts
PROPERTIES ReadyIsFrozen
