SPECIFICATION Spec
CONSTANTS
    CPUS = {0, 1}
    Process = {p1, p2}
    UINT = 3
    Duration = {2}
SYMMETRY Symmetry
INVARIANT NoPanic
INVARIANT NoMissedTick
INVARIANT SleptEnough
 
