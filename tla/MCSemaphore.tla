---------------------------- MODULE MCSemaphore ----------------------------
(* Three threads on a semaphore with one permit, released up to three times. *)
EXTENDS Semaphore

CONSTANTS t1, t2, t3

MCThreads == {t1, t2, t3}
MCProcesses == MCThreads
MCprocess == [t \in MCThreads |-> t]
============================================================================
