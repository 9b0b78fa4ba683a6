SPECIFICATION FairSpec
CONSTANTS
    Procs = {p1, p2}
    NBUF = 2
    Blocks = {b1, b2, b3}
    Vals = {v1, v2}
    NULL = NULL
CHECK_DEADLOCK FALSE
INVARIANTS RefcntExact NoMissedWakeup
PROPERTIES Transparent IoEnds
