SPECIFICATION VideoSpec
CONSTANTS
    s1 = s1
    s2 = s2
    s3 = s3
    o1 = o1
    o2 = o2
    p1 = p1
    p2 = p2
    Nothing = Nothing
    Sources <- MCSources
    Overlays <- MCNoOverlays
    Pictures <- MCOnePicture
    Places <- MCPlaces
    Triggers <- MCTriggers
    Full = 2
    Overshoot = 0
    MaxDuration = 1
    MaxSkip = 1
    MaxBack = 0
PROPERTY ActivePlays
