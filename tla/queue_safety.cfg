SPECIFICATION HSpec
CONSTANTS
    q1 = q1
    q2 = q2
    alpha = alpha
    beta = beta
    NoItem = NoItem
    Items <- TwoItems
    CompOf <- CompOfTwo
    Bootstrap <- OnlyFirst
    Active <- OnlyBeta
    Retired <- OnlyAlpha
    Budgets <- ZeroOrThree
    RefillBudget = 1
    Prios <- LowHigh
    Lease = 2
    MaxFail = 2
    MaxCrashes = 1
    MaxStops = 0
    MaxFaults = 0
INVARIANTS
    NoZombieRunning
    BudgetBound
    
    DoneIsEarned
PROPERTIES
    DoomedGetsNoMoreCycles
    NoDoubleOvertaking
