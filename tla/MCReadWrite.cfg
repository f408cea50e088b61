CONSTANTS
    r1 = r1
    r2 = r2
    r3 = r3
    w1 = w1
    NULL = NULL
    Thread <- MCThread
    Creation <- MCCreation
    Readers <- MCReaders
    SemValue = 1
    MaxLines = 8
    Files <- MCFiles
SPECIFICATION RWSpec
INVARIANTS
    RWTypeOK
    LinesInOrder
    AtMostTwoLinesLost
    NobodyWaits
PROPERTIES
    ThreeLinesAtATime
    Terminates
    ImplementsRoundRobin
