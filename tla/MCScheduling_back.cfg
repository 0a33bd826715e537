SPECIFICATION SchedulingSpec
CONSTANTS
    DayLen = 4
    Before = 2
    After = 0
    Change = 3
    MaxJitter = 1
    Intervals <- MCIntervals
    Backoff <- MCBackoff
    MaxRetries = 2
    MaxTime = 7
CHECK_DEADLOCK FALSE
PROPERTIES
NextRunInFuture
