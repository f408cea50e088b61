CONSTANTS
    BUFSIZE = 3
    Modes = {"r"}
    FlushModes = {"r+", "w", "w+", "a"}
    ReadSizes <- MCReadSizes
    ReadCounts = {1, 2, 4}
    ReadPairs = {}
    WriteSizes <- MCWriteSizes
    WriteCounts = {1, 3, 4, 7}
    WritePairs = {}
    FileLengths = {0, 2, 3, 7}
    MaxLength = 9
    JUNK = 300
    ZERO = 100
    WRITTEN = 200
    Offsets <- MCOffsets
    Files <- MCFiles
SPECIFICATION Spec
PROPERTY CountIsBytesRead
