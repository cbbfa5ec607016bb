CONSTANTS
    Procs = {p1}
    Max = 3
    Word = 8
    MaxRef = 1
SPECIFICATION Spec
INVARIANTS NothingUnexpected
