SPECIFICATION FairSpec
CONSTANTS
    NPROC = 3
    CPUS = {c1}
    CHANS = {disk}
    KillPids = {2, 3}
    MaxPid = 3
    NULL = NULL
PROPERTIES KilledExits OrphansReaped
