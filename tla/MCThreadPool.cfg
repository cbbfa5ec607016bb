CONSTANTS
    Threads = {w1, w2, w3, w4}
    Tasks = {t1, t2, t3, t4}
    Num = 1
    Max = 3
    MayFail = TRUE
    NoOwner = NoOwner
    Closer = Closer
SPECIFICATION Spec
SYMMETRY Symmetry
INVARIANTS TypeOK CountsExact NoLostWakeup FreedUnused
PROPERTIES  ImplementsWorkPool
CHECK_DEADLOCK FALSE
