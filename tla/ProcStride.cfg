SPECIFICATION Spec
CONSTANTS
    NPROC = 4
    CPUS = {0}
    isRoundRobin = FALSE
    KILLPIDS = {}
    MAXPID = 4
INVARIANT NoBadSwitch
INVARIANT NoMissedExit
INVARIANT EmbryoOwned
CHECK_DEADLOCK FALSE
