SPECIFICATION SyncSpec
CONSTANTS
    c1 = c1
    Subscribers <- OneClient
    Capacity = 2
    MaxSeq = 3
    MaxRevision = 2
INVARIANTS
    FollowsForGood
