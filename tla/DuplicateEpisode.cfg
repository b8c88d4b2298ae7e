CONSTANTS
    Metrics <- TwoMetrics
    Step = 30
    Horizon = 420
    MaxRows = 1
    BackAt = 180
    Back = 60
SPECIFICATION HealthSpec
INVARIANT NeverDuplicate
CHECK_DEADLOCK FALSE
