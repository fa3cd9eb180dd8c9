SPECIFICATION Spec
CONSTANTS
    OneSec = 3
    Period = 4
    LimitDiv = 4
    Requests <- CorrectionRequests
    MaxNow = 17
    MaxWaits = 3
    Timeout = 2
    IntMax = 1
    Offsets = {0, 7}
INVARIANTS
    NeverEarly
    ScheduleHeld
    TimerOnBeat
CHECK_DEADLOCK FALSE
