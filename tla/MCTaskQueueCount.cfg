CONSTANTS
    Tasks = {t1, t2}
    MaxWorker = 1
    MaxRecycle = 0
    CountModulus = 4
    InitialCounts = {0, 1, 2, 3}
    None = None
SPECIFICATION Spec
INVARIANT CountPositive
CHECK_DEADLOCK FALSE
