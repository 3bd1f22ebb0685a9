SPECIFICATION Spec
CONSTANTS
    c1 = c1
    c2 = c2
    i1 = i1
    i2 = i2
    Clients <- TwoClients
    Items <- OneItem
    OnAir <- Overlay
    MaxRevision = 2
    MaxLives = 1
    NoDoc = NoDoc
    NoMixer = NoMixer
    Idle = Idle
PROPERTY GuardedPublishKeepsOverlay
