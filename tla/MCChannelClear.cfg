SPECIFICATION SpecClear
CONSTANTS
    Producers = {p1}
    Consumers = {c1}
    Capacity = 2
    Elements = {a}
    MaxPush = 2
INVARIANTS CountNonNegative
CHECK_DEADLOCK FALSE
