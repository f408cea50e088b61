---- MODULE MCUThread ----
EXTENDS UThread

CONSTANTS t1, t2, t3, t4, t5

MCThread == {t1, t2, t3, t4, t5}
MCCreation == <<t1, t2, t3, t4, t5>>
====
