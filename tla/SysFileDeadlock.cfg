SPECIFICATION SysFileSpec
CONSTANTS
    Procs = {"p1", "p2"}
    Inumbers = {1, 2, 3}
    NINODE = 3
    Names = {"a", "b"}
    Calls <- OneFile
    NULL = NULL
CHECK_DEADLOCK FALSE
INVARIANTS NoCircularWait
