CONSTANTS
    Threads = {w1, w2}
    Tasks = {t1, t2, t3}
    Num = 2
    Max = 2
    MayFail = FALSE
    NoOwner = NoOwner
    Closer = Closer
SPECIFICATION SpecFair
PROPERTIES DestroyReturns PushedRuns
CHECK_DEADLOCK FALSE
