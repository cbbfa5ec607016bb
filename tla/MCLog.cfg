CONSTANTS
    Idents = {h1, h2}
    Rules = {r1, r2}
    Formats = {f1}
    Outputs = {o1, o2}
    Threads = {t1, t2}
    None = None
    LOG_VERBOSE = 1
    Bounds <- LevelBounds
    MaxPrint = 2
    ROTATE_INTERVAL = 2
    MaxByte = 8
    MaxTime = 3
    MarkLen = 2
    MaxLen = 7
    PageSize = 2
    map_size = 3
    MaxFile = 4
    MmapBytes = 6
SPECIFICATION AnySpec
SYMMETRY Symmetry
INVARIANTS AllTypeOK 
    FilesInOrder  LinesTrue OutputsSound
