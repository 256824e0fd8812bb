SPECIFICATION FairSpec
CONSTANTS
    NPROC = 3
    CPUS = {0}
    isRoundRobin = TRUE
    KILLPIDS = {2}
    MAXPID = 3
PROPERTY RunnableRuns
PROPERTY OrphansReaped
CHECK_DEADLOCK FALSE
