CONSTANTS
    n_items = 3
    Concurrent = TRUE
    Uses <- PlainUse
SPECIFICATION Spec
INVARIANTS UseIsPut
