SPECIFICATION SpecFair
CONSTANTS
    Producers = {p1, p2}
    Consumers = {c1, c2}
    Capacity = 2
    Elements = {a, b}
    MaxPush = 4
INVARIANTS TypeOK AssertsHold TokensConserved FifoOrder
PROPERTY ImplementsFifo
CHECK_DEADLOCK FALSE
