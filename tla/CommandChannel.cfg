SPECIFICATION Spec
CONSTANTS
    SentIds = {"NONE", "SET_TARGET", "ENABLE", "DISABLE", "PAUSE", "RESUME", "SET_PLL", "SHUTDOWN"}
    Data = {0, 5}
    PllLimit = 2
    MaxSends = 2
    MaxTokens = 2
INVARIANTS
    ChannelExclusive
    ExecutedAsSent
    NewestIsExecuted
PROPERTIES
    IsMailbox
    CycleCompletes
    PendingIsExecuted
