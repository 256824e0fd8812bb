SPECIFICATION Spec
CONSTANTS
    FSSIZE = 7
    NLOG = 2
    NMETA = 2
    NINODES = 5
    NDIRECT = 1
    MAXFILE = 2
    NINODE = 4
    Name = {"d", "f"}
    Programs <- MCPrograms
    Process = {1, 2}
    NOFILE = 2
    NFILE = 2
    Script <- MCScript
INVARIANT RefCounts
INVARIANT LinkCount
INVARIANT BlocksOnce
INVARIANT CacheMatchesDisk
INVARIANT NoPanic
