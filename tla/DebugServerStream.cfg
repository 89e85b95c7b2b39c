SPECIFICATION Spec
CONSTANTS
    c1 = c1
    Channels = {c1}
    MaxSessions = 1
    MaxClients = 1
    Requests <- AllRequests
    MaxLines = 2
    Waiters = {}
    MaxEvents = 2
    StartPaused = FALSE
    Keepalive = FALSE
INVARIANTS
    EventsSubscribed
CHECK_DEADLOCK FALSE
