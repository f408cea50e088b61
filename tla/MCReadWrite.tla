---- MODULE MCReadWrite ----
EXTENDS ReadWrite

CONSTANTS r1, r2, r3, w1, MaxLines

MCThread == {r1, r2, r3, w1}
MCCreation == <<r1, r2, r3, w1>>
MCReaders == {r1, r2, r3}

MCFiles ==
    [length : UNION {[1 .. n -> {1, 3}] : n \in 0 .. MaxLines},
     newline : BOOLEAN]
====
