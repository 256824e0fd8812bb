SPECIFICATION Spec
CONSTANTS
    NPROC = 3
    CPUS = {0, 1}
    isRoundRobin = TRUE
    KILLPIDS = {2, 3}
    MAXPID = 4
INVARIANT SingleRunner
INVARIANT ParentAlive
INVARIANT NoMissedExit
CHECK_DEADLOCK FALSE
