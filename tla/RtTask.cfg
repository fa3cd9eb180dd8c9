SPECIFICATION Spec
CONSTANTS
    MaxTasks = 2
    SemMax = 2
    SelfTasks = {1}
INVARIANTS
    TypeOK
    NoThreadWithoutTask
    TaskCodeExclusive
    BlockedTaskIsPaused
    PauseTokenBalance
PROPERTIES
    FollowsLifecycle
    PauseTakesEffect
    DeleteReturns
