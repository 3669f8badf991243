SPECIFICATION Spec
CONSTANTS
    Patches <- MCPatches
    Columns <- MCColumns
    Candidates <- MCCandidates
    Rank <- MCRank
    OnBase = {"e1"}
    Reads = {"f1", "f2"}
    Shared = "shared"
    NoParams = "none"
    Trivial = "trivial"
    MaxCandidates = 3
    MaxLayers = 4
CHECK_DEADLOCK FALSE
INVARIANTS
    
    
    BaseMemberIsTheBest
PROPERTIES
    MeasuredIsDeployed
    PromotedModelRuns
