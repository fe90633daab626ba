------------------------- MODULE CountingSemaphore -------------------------
(***************************************************************************)
(* What a counting semaphore promises: acquire takes a permit or waits for  *)
(* one, release adds one, no permit is made or lost on the way, and a       *)
(* newcomer never takes a permit that a waiting client could have.         *)
(***************************************************************************)
EXTENDS Naturals, FiniteSets

CONSTANTS Clients, Initial

VARIABLES permits, waiting

SemInit == permits = Initial /\ waiting = {}

\* The permits no waiting client has a claim to.
Spare == permits > Cardinality(waiting)

\* A client has to wait: every permit is spoken for.
Wait(t) ==
  /\ t \notin waiting /\ ~Spare
  /\ waiting' = waiting \union {t}
  /\ UNCHANGED permits

\* A client takes a permit at once, or one it has waited for.
Acquire(t) ==
  /\ IF t \in waiting THEN permits > 0 ELSE Spare
  /\ permits' = permits - 1
  /\ waiting' = waiting \ {t}

Release == permits' = permits + 1 /\ UNCHANGED waiting

SemNext == Release \/ \E t \in Clients : Wait(t) \/ Acquire(t)

SemSafety == SemInit /\ [][SemNext]_<< permits, waiting >>
============================================================================
