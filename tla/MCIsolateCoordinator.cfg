SPECIFICATION FairSpec
CONSTANTS
    Runtimes = {r1, r2}
    Callers = {main, other}
    Main = main
    Tasks = {t1, t2}
    None = None
INVARIANTS
    NothingLost
    DrainedBeforeExit
    RawPointerLive
PROPERTIES
    ImplementsExecutor
    AcceptedRuns
    SpawnAnswered
CHECK_DEADLOCK FALSE
