SPECIFICATION SysFileSpec
CONSTANTS
    Procs = {"p1", "p2"}
    Inumbers = {1, 2, 3}
    NINODE = 4
    Names = {"a", "b"}
    Calls <- GoUp
    NULL = NULL
CHECK_DEADLOCK FALSE
INVARIANTS NoPanic
