SPECIFICATION Spec
CONSTANTS
    INPUT_BUF = 3
    PIPESIZE = 2
    UINT = 6
    WRAP = 4
    COLS = 2
    ROWS = 2
    Letter = {"a"}
    BUFSIZE = 3
    READSIZE = 1
    MAXKEYS = 4
    Cursor = {5}
    MAXARGS = 3
    LineChar = {"a", "|", ";", "&", "(", ")", ">"}
    MAXLINE = 4
    Longer <- MCLonger
    NPROC = 6
    HEADER = 2
    MORE = 4
    MAXHEAP = 12
    Request = {1, 3, 7}
    Pattern = {"a", ".", "*", "^", "$"}
    MAXPATTERN = 4
    TextChar = {"a", "b"}
    MAXTEXT = 3
    Plain = {29, 30, 42, 54, 58}
    Extended = {29, 72}
    WIRE = 2
INVARIANT Stream
INVARIANT FullIsCommitted
INVARIANT CursorOnScreen
INVARIANT ParsesGrammar
INVARIANT PromptAlone
INVARIANT HeapPartition
INVARIANT MatchesRight
INVARIANT ModifiersFollow
PROPERTY PipelineEnds
PROPERTY LineEnds
CHECK_DEADLOCK FALSE
