SPECIFICATION FairSpec
CONSTANTS
    Runtimes = {r1}
    Callers = {main, other}
    Main = main
    Tasks = {t1, t2}
    None = None
CHECK_DEADLOCK FALSE
PROPERTY StopReturns
