SPECIFICATION Spec
CONSTANTS
    lower = lower
    upper = upper
    lens = lens
    Layers <- MCLayers
    Camera = lens
    Layouts <- MCLayouts
    Cameras <- MCCameras
    StateSets <- MCStateSets
    SequenceSets <- MCSequenceSets
    ReturnFrames = 2
    MaxCalls = 3
    MaxSkip = 2
    MaxBack = 1
CHECK_DEADLOCK FALSE
INVARIANTS
    MovesAccountedFor
PROPERTIES
    MovesStartFromScreen
    EditTouchesWhatChanged
    ComesToRest
