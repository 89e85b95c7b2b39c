SPECIFICATION FairSpec
CONSTANTS
    MaxWork = 2
    Fragments = 2
    Options <- MCOptions
INVARIANTS
    SessionEvents
    WireOrder
    ResourcesAccounted
PROPERTIES
    DestructorReturns
    CloseReported
CHECK_DEADLOCK FALSE
