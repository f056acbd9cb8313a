SPECIFICATION Spec
CONSTANTS
    Shortcuts = {"menuGrip", "sticks", "triggersGrips"}
    Pointers = {TRUE, FALSE}
    Watched <- Moving
    Light = {"LT"}
    MaxPutDown = 2
    Window = 1
    ChordHold = 1
    ToggleHold = 2
INVARIANTS
    PadInv
    PressesStayOut
    NoSwitchClicks
