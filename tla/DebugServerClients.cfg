SPECIFICATION Spec
CONSTANTS
    c1 = c1
    Channels = {c1}
    MaxSessions = 2
    MaxClients = 2
    Requests <- ShotRequests
    MaxLines = 1
    Waiters = {w1}
    MaxEvents = 0
    StartPaused = FALSE
    Keepalive = FALSE
INVARIANTS
    Bookkeeping
    AbortIsFinal
    
CHECK_DEADLOCK FALSE
