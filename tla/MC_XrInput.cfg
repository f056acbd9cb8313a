SPECIFICATION Spec
CONSTANTS
    Kind <- OneOfEach
    PointerSleep = FALSE
    Grips = {}
    Spots = {"bar", "cog", "cell", "slider", "placement", "reportButton", "close", "kb", "mod", "exit"}
    Nobody = Nobody
INVARIANTS
    PanelsInv
    ClosingPressStaysTaken
PROPERTIES
    OutOfReach
    HoldsEndKept
