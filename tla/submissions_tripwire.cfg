SPECIFICATION Spec
CONSTANTS
    a1 = a1
    a2 = a2
    a3 = a3
    Attempts <- MCThree
    Early <- MCFirst
    NoAttempt = none
    CV <- MCCV
    LB <- MCLB
    Backed <- MCThree
    Gains <- MCGains
    ByHand = {none}
    Refreshers = {"sweep"}
    Grades = {"complete"}
    PerDay = 3
    MaxRows = 3
    MaxDays = 1
    MaxFaults = 0
INVARIANTS
    PauseNeedsTwo
    DivergenceIsCaughtInOrder
CHECK_DEADLOCK FALSE
