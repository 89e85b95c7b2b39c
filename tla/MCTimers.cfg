SPECIFICATION FairSpec
CONSTANTS
    MaxTimers = 2
    MaxRafs = 2
    Delays = {0, 1}
    MaxTime = 2
    MayThrow = TRUE
INVARIANTS
    ArmedOnce
PROPERTIES
    FiresWhenDue
    DeferredToNextDrain
    OneShotFires
CHECK_DEADLOCK FALSE
