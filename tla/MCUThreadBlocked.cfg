CONSTANTS
    t1 = t1
    t2 = t2
    t3 = t3
    t4 = t4
    t5 = t5
    NULL = NULL
    Thread <- MCThread
    Creation <- MCCreation
    SemValue = 2
SPECIFICATION Spec
INVARIANT WaitingThreadIsBlocked
