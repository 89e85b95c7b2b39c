SPECIFICATION FairSpec
CONSTANTS
    Pumpers = {main, w1}
    Main = main
    Posters = {p1}
    Jobs = {j1, j2}
    Clients = {k1}
INVARIANTS
    JobsInOrder
    NothingAfterClear
    MicrotasksFlushed
PROPERTIES
    PostedRuns
CHECK_DEADLOCK FALSE
