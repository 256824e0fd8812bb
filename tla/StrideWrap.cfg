SPECIFICATION FairSpec
CONSTANTS
    NPROC = 2
    CPUS = {0}
    TICKETS = {500}
    INT_MAX = 87
INVARIANT PassGap
INVARIANT NoPanic
