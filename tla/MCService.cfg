SPECIFICATION ServiceSpec
CONSTANTS
    c1 = c1
    c2 = c2
    i1 = i1
    i2 = i2
    Clients <- TwoClients
    Items <- TwoItems
    OnAir <- NoOverlay
    MaxRevision = 2
    MaxLives = 1
    NoDoc = NoDoc
    NoMixer = NoMixer
    Idle = Idle
    in1 = in1
    o1 = o1
    o2 = o2
    o3 = o3
    e1 = e1
    e2 = e2
    low = low
    high = high
    Absent = Absent
    MaxRefused = 1
    Files = {low}
    Inputs <- OneInput
    Outputs <- ThreeOutputs
    StatusId <- StatusIds
    Encoders <- TwoEncoders
    Documents <- MCDocuments
    Publishers = {"service"}
    Hosts = {"host"}
    Settings <- MCSettings
    NoApi = NoApi
    Suspend = Suspend
    Nobody = Nobody
    MaxConfigures = 3
    RequestKeys = {"r1", "r2", "r3", "r4"}
    Cap = 3
    Window = 2
    MaxTime = 4
    MaxAge = 3
    NotCached = NotCached
SYMMETRY AnyOrder
CONSTRAINT Explored
INVARIANTS
    RevisionNamesItems
    EverythingRuns
    NothingUnwantedRuns
    StreamsCatchUp
    ListenerObeys
PROPERTIES
    GuardedPublishLosesNothing
    UnchangedKeepsRunning
    RetryDoesNotRunAgain
