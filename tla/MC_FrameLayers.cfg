SPECIFICATION LayersSpec
CONSTANTS
    Sessions <- MCSessions
    MaxLayers = 16
    MaxArray = 24
    Fade = 4
    Floor = 1
    Ceiling = 2
    Wait = 2
    Nothing = Nothing
INVARIANTS
    LayersFit
    PanelsApart
    SplashCovers
    WaitsForAnotherMap
