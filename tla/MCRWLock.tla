------------------------------ MODULE MCRWLock ------------------------------
(* Four threads: two that hold back a third and a fourth that overtakes.     *)
EXTENDS RWLock

CONSTANTS t1, t2, t3, t4

FourThreads == {t1, t2, t3, t4}
=============================================================================
