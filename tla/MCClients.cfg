SPECIFICATION ClientsSpec
CONSTANTS
    c1 = c1
    c2 = c2
    u1 = u1
    u2 = u2
    t1 = t1
    t2 = t2
    Callers <- MCCallers
    Units <- MCUnits
    Tasks <- MCTasks
    MaxSets = 2
    Subscribers <- OneClient
    Capacity = 2
    MaxSeq = 3
    MaxRevision = 2
INVARIANTS
    NoStrandedValue
    ViewIsHonest
PROPERTIES
    OrderedUnlessLost
    LatestIsSent
    KeepsPromise
    NobodyWaitsForGood
CHECK_DEADLOCK FALSE
