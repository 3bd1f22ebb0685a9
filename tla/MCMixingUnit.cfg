SPECIFICATION MCSpec
CONSTANTS
    s1 = s1
    s2 = s2
    s3 = s3
    o1 = o1
    o2 = o2
    p1 = p1
    p2 = p2
    Nothing = Nothing
    Sources <- MCSources
    Overlays <- MCOverlays
    Pictures <- MCPictures
    Places <- MCPlaces
    Triggers <- MCTriggers
    Full = 2
    Overshoot = 1
    MaxDuration = 2
    MaxSkip = 2
    MaxBack = 1
SYMMETRY Symmetry
CONSTRAINT Explored
INVARIANTS
    OverlaysFollowDocument
    PlaysWhereShown
PROPERTIES
    TakesWhatItShowed
    EndsAtRest
