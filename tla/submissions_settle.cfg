SPECIFICATION FairSpec
CONSTANTS
    a1 = a1
    a2 = a2
    a3 = a3
    Attempts <- MCTwo
    Early <- MCTwo
    NoAttempt = none
    CV <- MCCV
    LB <- MCLB
    Backed <- MCTwo
    Gains <- MCGains
    ByHand = {}
    Refreshers = {"sweep", "api"}
    Grades = {"complete"}
    PerDay = 1
    MaxRows = 2
    MaxDays = 2
    MaxFaults = 1
INVARIANTS
    BudgetUnlessFailed
PROPERTY EveryRowSettles
CHECK_DEADLOCK FALSE
