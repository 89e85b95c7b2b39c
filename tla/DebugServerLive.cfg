SPECIFICATION FairSpec
CONSTANTS
    c1 = c1
    Channels = {c1}
    MaxSessions = 2
    MaxClients = 1
    Requests <- ShotRequests
    MaxLines = 1
    Waiters = {}
    MaxEvents = 0
    StartPaused = TRUE
    Keepalive = TRUE
INVARIANT SessionCap
PROPERTY CallAnswered
CHECK_DEADLOCK FALSE
