SPECIFICATION Spec
CONSTANTS
    Procs = {"p1", "p2"}
    InitProc = "p1"
    Frames = {1, 2, 3, 4, 5, 6, 7, 8, 9, 10, 11, 12, 13, 14, 15, 16, 17, 18, 19, 20}
    PGSIZE = 2
    KERNBASE = 16
    NPTENTRIES = 2
    KTables = {4, 7}
    Programs <- Files
CHECK_DEADLOCK FALSE
INVARIANTS CopyoutOwn
