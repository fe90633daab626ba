----------------------------- MODULE Semaphore -----------------------------
(***************************************************************************)
(* The counting semaphore of kernel/task/semaphore.c on the scheduler.     *)
(* Any thread may acquire and release, in any order.  The clients run with  *)
(* interrupts on and never disable them themselves.                        *)
(***************************************************************************)
EXTENDS WaitQueue

CONSTANTS
  InitialCount,   \* the count semaphore_init is given
  CountModulus,   \* 2^32 in the code: count is a uint32_t
  MaxReleases     \* bound of the model: how many times release is called

ASSUME SemaphoreAssumption ==
  /\ InitialCount \in Nat /\ MaxReleases \in Nat /\ CountModulus \in Nat
  /\ InitialCount + MaxReleases < CountModulus

VARIABLES
  count,       \* sem->count
  sem_wq,      \* sem->wait_queue
  sem_pc,      \* "run", or "acquire": asleep in semaphore_acquire or woken
               \*   there and not yet resumed
  sem_saved,   \* the interrupt state semaphore_acquire saved before it slept
  acquired,    \* how many calls of semaphore_acquire have returned
  released     \* how many calls of semaphore_release have been made

semVars == << count, sem_wq, sem_pc, sem_saved, acquired, released >>
semaphoreVars == << schedVars, semVars >>

SemaphoreInit ==
  /\ SchedInit
  /\ count = InitialCount
  /\ sem_wq = << >>
  /\ sem_pc = [t \in Threads |-> "run"]
  /\ sem_saved = [t \in Threads |-> TRUE]
  /\ acquired = 0
  /\ released = 0

\* Mutant: `>=' where `>' is meant.
semaphore_acquire_at_zero(t) ==
  /\ current = t /\ sem_pc[t] = "run"
  /\ count' = (count - 1) % CountModulus /\ acquired' = acquired + 1
  /\ UNCHANGED << schedVars, sem_wq, sem_pc, sem_saved, released >>

\* semaphore_acquire: take a permit, or sleep until one is handed over.
semaphore_acquire(t) ==
  /\ current = t /\ sem_pc[t] = "run"
  /\ IF count > 0
     THEN /\ count' = count - 1 /\ acquired' = acquired + 1
          /\ UNCHANGED << schedVars, sem_wq, sem_pc, sem_saved >>
     ELSE /\ sem_wq' = wait_queue_add(sem_wq, t)
          /\ sem_pc' = [sem_pc EXCEPT ![t] = "acquire"]
          /\ sem_saved' = [sem_saved EXCEPT ![t] = iflag[t]]
          /\ wait_queue_sleep(<< >>)
          /\ UNCHANGED << count, acquired >>
  /\ UNCHANGED released

\* wait_queue_sleep returns: the permit is the thread's, nothing is re-checked.
semaphore_acquire_resume(t) ==
  /\ current = t /\ sem_pc[t] = "acquire"
  /\ sem_pc' = [sem_pc EXCEPT ![t] = "run"] /\ acquired' = acquired + 1
  /\ section_end(sem_saved[t]) /\ sem_saved' = [sem_saved EXCEPT ![t] = TRUE]
  /\ UNCHANGED << count, sem_wq, released >>

\* Mutant: the count is incremented also when a waiter is handed the permit.
semaphore_release_both(t) ==
  /\ current = t /\ sem_pc[t] = "run" /\ released < MaxReleases
  /\ released' = released + 1
  /\ count' = (count + 1) % CountModulus
  /\ IF sem_wq # << >>
     THEN /\ thread_unblock(wait_queue_remove(sem_wq))
          /\ sem_wq' = wait_queue_rest(sem_wq)
          /\ iflag' = [iflag EXCEPT ![t] = FALSE]
     ELSE UNCHANGED << schedVars, sem_wq >>
  /\ UNCHANGED << sem_pc, sem_saved, acquired >>

\* semaphore_release: hand the permit to the first waiter, or count it.  The
\* first branch returns without interrupt_restore (semaphore.c:44-48): the
\* caller is left with interrupts off.
semaphore_release(t) ==
  /\ current = t /\ sem_pc[t] = "run" /\ released < MaxReleases
  /\ released' = released + 1
  /\ IF sem_wq # << >>
     THEN /\ thread_unblock(wait_queue_remove(sem_wq))
          /\ sem_wq' = wait_queue_rest(sem_wq)
          /\ iflag' = [iflag EXCEPT ![t] = FALSE]
          /\ UNCHANGED count
     ELSE /\ count' = (count + 1) % CountModulus
          /\ UNCHANGED << schedVars, sem_wq >>
  /\ UNCHANGED << sem_pc, sem_saved, acquired >>

\* The timer, the boot, cooperative yields, threads that end.
SemaphoreEnvironment ==
  /\ \/ scheduler_tick
     \/ scheduler_enter_idle
     \/ \E t \in Threads : thread_create(t) \/ thread_add(t)
     \/ /\ current # idle /\ sem_pc[current] = "run"
        /\ thread_yield \/ thread_kill_current(<< >>)
  /\ UNCHANGED semVars

SemaphoreNext ==
  \/ SemaphoreEnvironment
  \/ \E t \in Threads :
       semaphore_acquire(t) \/ semaphore_acquire_resume(t) \/ semaphore_release(t)

SemaphoreSpec == SemaphoreInit /\ [][SemaphoreNext]_semaphoreVars

----------------------------------------------------------------------------
(* Properties.                                                             *)

\* The types; the unsigned count in particular never wraps around below 0.
SemaphoreTypeOK ==
  /\ count \in 0..(InitialCount + MaxReleases)
  /\ sem_wq \in Seq(Threads)
  /\ sem_pc \in [Threads -> {"run", "acquire"}]
  /\ sem_saved \in [Threads -> BOOLEAN]
  /\ acquired \in Nat
  /\ released \in 0..MaxReleases

\* The threads that have been handed a permit and have not resumed yet.
Granted == {t \in Threads : sem_pc[t] = "acquire" /\ ~Linked(sem_wq, t)}

\* No permit is made or lost, whoever is preempted where: the count, the permits
\* on their way to woken threads and those acquired add up to what there was
\* at first and what was released.
PermitsConserved == count + Cardinality(Granted) + acquired = InitialCount + released

\* The abstract semaphore: a permit counts as available until the thread it was
\* handed to has picked it up.
AbstractSemaphore == INSTANCE CountingSemaphore WITH
  Clients <- Threads,
  Initial <- InitialCount,
  permits <- count + Cardinality(Granted),
  waiting <- {t \in Threads : sem_pc[t] = "acquire"}

\* The semaphore implements the abstract one.
ImplementsSemaphore == AbstractSemaphore!SemSafety

\* Every operation leaves the caller's interrupt flag as it found it: "every
\* call into the ... semaphore ... API must be made with interrupts disabled,
\* OR the function itself will save/disable/restore" (kernel reference).  The
\* clients run with interrupts on, so outside the calls they are on.
InterruptStateKept == \A t \in Threads : sem_pc[t] = "run" => iflag[t]

============================================================================
