SPECIFICATION Spec
CONSTANTS
    Rows = {r1, r2}
    Budget = 2
    Burst = 1
    None = None
    MaxChanges = 2
SYMMETRY Symmetry
INVARIANTS
    
    AttemptBudgetHolds
    GainIsComparable
    ResumedOnceServed

    
