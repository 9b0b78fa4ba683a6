SPECIFICATION FairSpec
CONSTANTS
    POLICIES = {"PBS"}
    NPROC = 2
    CPUS = {c1}
    Prios = {0, 1, 3, 4}
    MXPRT = 3
    MX2 = 2
    MaxTicks = 0
    NULL = NULL
PROPERTIES WorkConserving
