------------------------------ MODULE MCMutex ------------------------------
\* Three threads and two mutexes for Mutex.
EXTENDS Mutex

CONSTANTS t1, t2, t3, m1, m2

MCThreads == {t1, t2, t3}
MCMutexes == {m1, m2}
=============================================================================
