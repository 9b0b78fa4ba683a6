SPECIFICATION FileSpec
CONSTANTS
    Inums = {1, 2}
    DataBlocks = {3, 4, 5, 6, 7, 8, 9}
    BSIZE = 2
    NDIRECT = 1
    NINDIRECT = 2
    Procs = {"p1", "p2"}
    InitProc = "p1"
    NFILE = 3
    NOFILE = 2
    Pipes = {1}
    Value <- WordOf
    Programs <- Uses
    Sizes = {5}
    MaxChunk = 2
CHECK_DEADLOCK FALSE
INVARIANTS RefsExact BlocksOwned
PROPERTIES IsStreams
