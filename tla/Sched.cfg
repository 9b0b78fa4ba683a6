SPECIFICATION TurnSpec
CONSTANTS
    POLICIES = {"DEFAULT", "FCFS", "PBS"}
    NPROC = 3
    CPUS = {c1}
    Prios = {0, 3, 4}
    MXPRT = 3
    MX2 = 2
    MaxTicks = 1
    NULL = NULL
PROPERTIES RoundRobin BestFirst NeverIdle Preemptive
