---------------------------- MODULE MCLifecycle ----------------------------
(* The reaper and three threads, two of them in one process.               *)
EXTENDS Lifecycle

CONSTANTS t1, t2, t3, p0, p1, p2

MCThreads == {reaper, t1, t2, t3}
MCProcesses == {p0, p1, p2}
MCprocess == (reaper :> p0) @@ (t1 :> p1) @@ (t2 :> p1) @@ (t3 :> p2)
============================================================================
