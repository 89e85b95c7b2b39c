SPECIFICATION FairSpec
CONSTANTS
    Versions = {v1, v2, v3}
    None = None
    HistoryCap = 2
    MaxOps = 6
    MaxCrashes = 2

    
PROPERTIES
    UnreadyNotForgotten
    StartupSettles
CHECK_DEADLOCK FALSE
