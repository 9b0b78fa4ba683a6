SPECIFICATION Spec
CONSTANTS
    Procs = {p1, p2, p3}
    Blocks = {b1, b2, b3, b4}
    Behind = b4
    Vals = {v1, v2}
    MAXOPBLOCKS = 1
    LOGSIZE = 3
    LogBlocks = 3
SYMMETRY Symmetry
INVARIANTS NoMissedWakeup Reservation
PROPERTIES Atomic
