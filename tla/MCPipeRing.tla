---- MODULE MCPipeRing ----
EXTENDS PipeRingInv

MCFileLines == 0 .. 11
====
