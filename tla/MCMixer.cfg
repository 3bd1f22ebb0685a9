SPECIFICATION Spec
CONSTANTS
    Ring = 2
    Buffers = 3
    MaxLanes = 2
    MaxDrawn = 6
    MaxRings = 2
    MaxFaults = 1
    Callers = {"host", "timer", "ffi"}
    MaxUses = 1
    Last = 2
    Ahead = 2
    MaxHeld = 1
    Targets = {1, 4}
    MaxCalls = 3
    MaxSpoiled = 1
    Ticks = 1
    Nums = {1, 2}
    Dens = {9, 10}
    MaxNow = 18
CHECK_DEADLOCK FALSE
INVARIANTS
    EachTextureHasOneHolder
    PositionStaysNear
PROPERTIES
    SentInOrder
    TexturesComeBack
    RobbedCreatesLeaveNothing
    NobodyRunsAlone
    TailPlaysOut
    PlaybackSettles
    StampsGoUp
