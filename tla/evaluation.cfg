SPECIFICATION Spec
CONSTANTS
    NSplits = 3
    Candidates = {1, 2}
    Budget = 3
    Burst = 1
CHECK_DEADLOCK FALSE
INVARIANTS
    BudgetHolds
    MergeVerifyIsComplete
PROPERTIES
    ProjectionSparesTheFinished
    ProjectionIsBacked
    EvaluationEnds
