SPECIFICATION Spec
CONSTANTS
    Process = {p1, p2}
    Block = {k1, k2, k3, k4}
    Written = {k1}
    Value = {0, 1}
    Buffers = {b1, b2, b3}
    MAXPINNED = 1
    MAXFAULTS = 1
SYMMETRY Symmetry
INVARIANT SleeperHasWaker
PROPERTY ImplementsStore
