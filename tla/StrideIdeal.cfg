SPECIFICATION FairSpecNoOverflow
CONSTANTS
    NPROC = 3
    CPUS = {0}
    TICKETS = {500, 990}
    INT_MAX = 150
INVARIANT ScanFindsMinProc
PROPERTY ImplementsIdeal
CHECK_DEADLOCK FALSE
