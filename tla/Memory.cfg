SPECIFICATION Spec
CONSTANTS
    NPROC = 2
    NPAGES = 16
    PGSIZE = 2
    NPTENTRIES = 2
    NPDENTRIES = 2
    UINT = 32
    Growth = {3}
    Shrinkage = {2}
    Segment = {1}
    Args = {1, 3}
INVARIANT OneUse
 
PROPERTY ExecKeepsImage
CHECK_DEADLOCK FALSE
