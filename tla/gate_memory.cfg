SPECIFICATION Spec
CONSTANTS
    base = base
    good = good
    lucky = lucky
    untuned = untuned
    tuned1 = tuned1
    t1 = t1
    Cands <- Both
    Base = base
    Params <- Params2
    NoParams = untuned
    Holdout = 2
    Score <- MCScore
    Tops = {97, 200}
    Tasks <- Alone
    MaxTunes = 2
    MaxMoves = 1
    MaxFaults = 1
INVARIANTS
    MemoryIsTransparent
    RejectionsAreMeasured
PROPERTY PromotionsAreMeasured
CHECK_DEADLOCK FALSE
