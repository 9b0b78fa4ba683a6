SPECIFICATION Spec
CONSTANTS
    NPROC = 3
    CPUS = {c1, c2}
    CHANS = {disk}
    KillPids = {0, 2, 3}
    MaxPid = 4
    NULL = NULL
SYMMETRY Symmetry
PROPERTIES BornAlive
