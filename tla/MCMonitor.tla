----------------------------- MODULE MCMonitor -----------------------------
(* Two consumers and a producer, each in a process of its own.             *)
EXTENDS Monitor

CONSTANTS t1, t2, t3

MCThreads == {t1, t2, t3}
MCConsumers == {t1, t2}
MCProcesses == MCThreads
MCprocess == [t \in MCThreads |-> t]
============================================================================
