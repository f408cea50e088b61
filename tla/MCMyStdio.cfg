CONSTANTS
    BUFSIZE = 3
    Modes = {"r", "r+", "w", "w+", "a"}
    FlushModes = {"r+", "w", "w+", "a"}
    ReadSizes <- MCReadSizes
    ReadCounts = {0, 2}
    ReadPairs = {1}
    WriteSizes <- MCWriteSizes
    WriteCounts = {4, 6}
    WritePairs = {2}
    FileLengths = {0, 2, 6}
    MaxLength = 7
    JUNK = 300
    ZERO = 100
    WRITTEN = 200
    Offsets <- MCOffsets
    Files <- MCFiles
SPECIFICATION Spec
INVARIANTS
    TypeOK
    CursorInBuffer
    BufferInPlace
PROPERTIES
    ImplementsPlainFile
    ShortReadIsEOF
