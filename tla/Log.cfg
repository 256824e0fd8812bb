SPECIFICATION FairSpec
CONSTANTS
    Process = {p1, p2}
    Block = {0, 1, 2, 3}
    Value = {1}
    FSSIZE = 7
    MAXOPBLOCKS = 1
    OPBLOCKS = 1
INVARIANT LogFits
 
PROPERTY SleeperWakes
 
