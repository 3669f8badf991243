SPECIFICATION FairSpec
CONSTANTS
    q1 = q1
    q2 = q2
    alpha = alpha
    beta = beta
    NoItem = NoItem
    Items <- TwoItems
    CompOf <- CompOfTwo
    Bootstrap <- OnlyFirst
    Active <- OnlyBeta
    Retired <- OnlyAlpha
    Budgets <- OnlyTwo
    RefillBudget = 1
    Prios <- OnlyZero
    Lease = 1
    MaxFail = 2
    MaxCrashes = 1
    MaxStops = 1
    MaxFaults = 1
 
PROPERTIES
    ImplementsLedger
    EveryItemEnds
