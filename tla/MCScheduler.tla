---------------------------- MODULE MCScheduler ----------------------------
(* Three threads in two processes; a quantum of two ticks.                 *)
EXTENDS Scheduler

CONSTANTS t1, t2, t3, p1, p2

MCThreads == {t1, t2, t3}
MCProcesses == {p1, p2}
MCprocess == (t1 :> p1) @@ (t2 :> p1) @@ (t3 :> p2)
============================================================================
