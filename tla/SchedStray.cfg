SPECIFICATION Spec
CONSTANTS
    POLICIES = {"PBS"}
    NPROC = 3
    CPUS = {c1, c2}
    Prios = {0, 1}
    MXPRT = 3
    MX2 = 2
    MaxTicks = 0
    NULL = NULL
INVARIANTS Executed
