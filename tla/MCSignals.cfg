SPECIFICATION FairSpec
CONSTANTS
    a = a
    b = b
    m = m
    e1 = e1
    e2 = e2
    e3 = e3
    None = None
    Cells = {a, b}
    Memos = {m}
    Effects = {e1, e2, e3}
    Fibers = {f1}
    MemoReads <- MCMemoReads
    Bodies <- MCBodies
    Views <- MCViews
    MaxWrites = 3
    MaxPending = 1
INVARIANTS
    QueuedOnce
    
    SyncWorkServed
PROPERTIES
    PendingEnds
CHECK_DEADLOCK FALSE
