------------------------------- MODULE Lock --------------------------------
(***************************************************************************)
(* What a mutex promises its clients, whatever its implementation: a       *)
(* thread is out, wants in, or is in; at most one is in; and every thread   *)
(* that wants in gets in.                                                  *)
(***************************************************************************)
EXTENDS Naturals

CONSTANT Clients

VARIABLE phase    \* "out", "trying" or "in" for each client

LockInit == phase = [t \in Clients |-> "out"]

\* A client asks for the lock and has to wait.
Try(t) ==
  /\ phase[t] = "out"
  /\ phase' = [phase EXCEPT ![t] = "trying"]

\* A client gets the lock, having waited for it or not.
Enter(t) ==
  /\ phase[t] \in {"out", "trying"}
  /\ \A u \in Clients : phase[u] # "in"
  /\ phase' = [phase EXCEPT ![t] = "in"]

\* A client gives the lock back.
Exit(t) ==
  /\ phase[t] = "in"
  /\ phase' = [phase EXCEPT ![t] = "out"]

LockNext == \E t \in Clients : Try(t) \/ Enter(t) \/ Exit(t)

LockSafety == LockInit /\ [][LockNext]_phase

\* Every client that wants the lock gets it.
LockStarvationFree == \A t \in Clients : phase[t] = "trying" ~> phase[t] = "in"
============================================================================
