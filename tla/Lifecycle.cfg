SPECIFICATION Spec
CHECK_DEADLOCK FALSE
CONSTANTS
    Callers = {c, d}
    Cap = 2
    Intervals = {0, 1, 2}
    Means = {3, 4, 7}
    MaxFactor = 2
    MaxDraw = 7
    MaxDuration = 6
    Tolerance = 1
    Horizon = 6
INVARIANTS
    OneLateRound
    EndsOnlyWhenStopped
PROPERTIES
    OnePerInterval
    ShutdownReturns
    SchedulerStops
