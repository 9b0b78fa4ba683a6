SPECIFICATION Spec
CONSTANTS
    Procs = {p1, p2}
    Blocks = {b1, b2, b3, b4}
    Behind = b4
    Vals = {v1, v2}
    MAXOPBLOCKS = 2
    LOGSIZE = 4
    LogBlocks = 4
SYMMETRY Symmetry
INVARIANTS LogNoPanic
