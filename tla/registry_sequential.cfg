SPECIFICATION Spec
CONSTANTS
    r1 = r1
    r2 = r2
    r3 = r3
    Runs <- ThreeRuns
    Slots <- OneSlot
    MaxAttempts = 3
    Overlap = FALSE
    LiveTools = FALSE
    MaxDeaths = 1
    MaxFaults = 1
    MaxTools = 2
CHECK_DEADLOCK FALSE
INVARIANTS
    
    JumpMarksUnlessFaulty
 
