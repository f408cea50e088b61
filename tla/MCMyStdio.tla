---- MODULE MCMyStdio ----
EXTENDS MyStdio

CONSTANTS
    FileLengths,
    ReadCounts,   (* elements of 1 byte that fread is asked for *)
    ReadPairs,    (* elements of 2 bytes                        *)
    WriteCounts,
    WritePairs

MCOffsets == {-2, 0, 1}
MCFiles == {[i \in 1 .. n |-> i] : n \in FileLengths}
MCReadSizes == {1} \X ReadCounts \cup {2} \X ReadPairs
MCWriteSizes == {1} \X WriteCounts \cup {2} \X WritePairs
====
