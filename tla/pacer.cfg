SPECIFICATION PacerSpec
CONSTANTS
    Session = 2
    Week = 3
    SessionCycles = 1
    WeeklyCycles = 2
    Skews = {0, 20}
    MaxPerHour = 2
    Horizon = 5
CHECK_DEADLOCK FALSE
INVARIANTS
    WithinLimits
    WithinTwiceTheLimits
