SPECIFICATION ProgramsSpec
CONSTANTS
    MAXARGS = 3
    MaxLine = 5
    Proc = {1, 2, 3, 4, 5, 6}
    sh = 1
    MaxLines = 2
    Pipe = {1, 2}
    PIPESIZE = 1
    Want = {2, 3}
    NALLOC = 5
    Limit = 12
    MaxText = 2
    MaxFile = 6
    BUFSIZE = 4
CHECK_DEADLOCK FALSE
INVARIANTS
    ParsesTheGrammar
    RunsTheLine
    MatchesTheRegexp
    PrintsTheLines
PROPERTIES
    HeapIsWhole
    CallsReturn
