CONSTANTS
    Tasks = {t1, t2, t3}
    MaxWorker = 2
    MaxRecycle = 0
    CountModulus = 4
    InitialCounts = {0}
    None = None
SPECIFICATION SpecLive
INVARIANTS TypeOK RefExact SchedulerFindsTask
PROPERTIES PostedRuns DestroyFrees
CHECK_DEADLOCK FALSE
