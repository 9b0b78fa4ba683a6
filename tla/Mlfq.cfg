SPECIFICATION FairSpec
CONSTANTS
    NPROC = 2
    NQ = 3
    time_age = 3
    MaxAllocs <- ReuseThrice
    NULL = NULL
INVARIANTS InOwnQueue OneEntry
PROPERTIES StrictPriority ReadyRuns
