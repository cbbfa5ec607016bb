CONSTANTS
    n_items = 3
    Concurrent = FALSE
    Uses <- RefillUse
SPECIFICATION Spec
INVARIANTS NothingLost
