---- MODULE MCMemAlloc ----
EXTENDS MemAlloc, TLC

Names == Permutations(Name)

MCSizeOf == [char |-> 1, int |-> 2, double |-> 4]
====
