SPECIFICATION Spec
CONSTANTS
    N = 3
    MinDone = 2
    Every = 5
    Backoff = 2
    MaxLate = 3
    None = None
INVARIANTS
    
    StaleTunesBounded
PROPERTIES
    
    DeadGetTheirTurn
