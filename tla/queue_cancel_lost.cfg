SPECIFICATION HSpec
CONSTANTS
    q1 = q1
    q2 = q2
    alpha = alpha
    beta = beta
    NoItem = NoItem
    Items <- TwoItems
    CompOf <- CompOfTwo
    Bootstrap <- Nothing
    Active <- OnlyBeta
    Retired <- Nothing
    Budgets <- OnlyTwo
    RefillBudget = 1
    Prios <- OnlyZero
    Lease = 1
    MaxFail = 2
    MaxCrashes = 0
    MaxStops = 0
    MaxFaults = 0
PROPERTY CancelIsFinal
