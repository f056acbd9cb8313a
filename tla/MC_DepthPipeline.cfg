SPECIFICATION Spec
CONSTANTS
    NumPairs = 2
    NumSlots = 3
    MaxCaptures = 3
    CutChecks <- Jumps
INVARIANTS
    PairsInv
    PipelineInv
    ResetsLandInTurn
PROPERTIES
    MapsSpec
    NoWakeupLost
