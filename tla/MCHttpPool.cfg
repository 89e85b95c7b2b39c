SPECIFICATION FairSpec
CONSTANTS
    Origins = {o1, o2, o3}
    MaxActive = 2
    MaxPerOrigin = 1
    MaxPending = 3
    MaxRequests = 6
INVARIANTS
    PoolConsistent
    NoIdleSlot

    
CHECK_DEADLOCK FALSE
