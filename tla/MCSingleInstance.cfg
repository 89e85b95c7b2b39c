SPECIFICATION FairSpec
CONSTANTS
    Procs = {p1, p2, p3}
    None = None
    Opens <- MCOpens
INVARIANTS
    OnePrimary
    LockNamesPrimary
    EndpointOwned
    EventsInOrder
PROPERTIES
    HandoffArrives
CHECK_DEADLOCK FALSE
