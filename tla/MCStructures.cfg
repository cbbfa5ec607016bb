CONSTANTS
    Word = 8
    Sizes <- AllSizes
    MaxBatch = 3
    MaxIn = 12
    Procs = {a1, a2, a3}
    StackNodes = {a1, a2, a3}
    Pushers = {w1, w2}
    Timers = {m1, m2}
    Workers = {w1, w2}
    NoLink = NoLink
    None = None
SPECIFICATION AnySpec
SYMMETRY Symmetry
INVARIANTS AllTypeOK TreesSound QueriesExact NoneFreedHeld TimersSound ContentKept 
PROPERTIES  FiresWhenDue
