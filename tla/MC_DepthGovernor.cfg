SPECIFICATION Spec
CONSTANTS
    MinRate = 5
    MaxRate = 45
    Settings <- SomeSettings
    OverWindows = 3
    SettleWindows = 1
    Hold = 5
    Recover = 6
    RecoverMax = 20
    RaiseHeld = 9
INVARIANT
    GovernorInv
PROPERTIES
    ClimbsAfterCalm
    ClimbsBack
CHECK_DEADLOCK FALSE
