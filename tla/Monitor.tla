------------------------------ MODULE Monitor ------------------------------
(***************************************************************************)
(* The mutex (kernel/task/mutex.c) and the condition variable              *)
(* (kernel/task/condvar.c), one of each, on the scheduler.  The clients    *)
(* follow the two patterns the kernel reference documents for a condition  *)
(* variable:                                                               *)
(*     consumer: lock; while (!condition) condvar_wait; take; unlock       *)
(*     producer: lock; condition = true; signal or broadcast; unlock       *)
(* and, as condvar.h allows, any thread may also signal without the mutex.  *)
(*                                                                         *)
(* mutex_unlock restores the interrupt flag between handing the mutex to a  *)
(* waiter and unblocking that waiter, so it is two actions.  condvar_wait   *)
(* runs mutex_unlock with interrupts off, so there the two are one.        *)
(***************************************************************************)
EXTENDS WaitQueue

CONSTANTS
  Consumers,    \* the threads that consume; the others produce
  NULL

ASSUME MonitorAssumption == Consumers \subseteq Threads /\ NULL \notin AllThreads

VARIABLES
  owner,        \* mutex->owner
  mutex_wq,     \* mutex->wait_queue
  condvar_wq,   \* condvar->wait_queue
  condition,    \* what the clients wait for; guarded by the mutex
  pc,           \* where each thread is
  saved,        \* the interrupt state a sleeping thread's section has saved
                \*   (TRUE when there is none)
  popped        \* mutex_unlock's local `thread', between its two halves

monVars == << owner, mutex_wq, condvar_wq, condition, pc, saved, popped >>
vars == << schedVars, monVars >>

\* run: outside; lock_wait: asleep in mutex_lock, or woken and not yet resumed;
\* held: owns the mutex; signal: owns it and has set the condition; done: owns
\* it and is about to unlock; unlock_wake: in mutex_unlock, interrupt_restore
\* done, thread_unblock not yet; cv_wait: asleep in condvar_wait, or woken and
\* not yet resumed; relock: condvar_wait is about to call mutex_lock.
Holding == {"held", "signal", "done"}
PC == Holding \union {"run", "lock_wait", "unlock_wake", "cv_wait", "relock"}

MonInit ==
  /\ SchedInit
  /\ owner = NULL
  /\ mutex_wq = << >>
  /\ condvar_wq = << >>
  /\ condition = FALSE
  /\ pc = [t \in Threads |-> "run"]
  /\ saved = [t \in Threads |-> TRUE]
  /\ popped = [t \in Threads |-> << >>]

\* Thread t runs, at the given place.
At(t, places) == current = t /\ pc[t] \in places

Goto(t, place) == pc' = [pc EXCEPT ![t] = place]

\* Mutant: mutex_lock does not look at the owner.
mutex_lock_unguarded(t) ==
  /\ At(t, {"run", "relock"})
  /\ owner' = t /\ Goto(t, "held")
  /\ UNCHANGED << schedVars, mutex_wq, condvar_wq, condition, popped, saved >>

\* mutex_lock, called by a client or by condvar_wait: take a free mutex, or
\* sleep until mutex_unlock has passed it on.
mutex_lock(t) ==
  /\ At(t, {"run", "relock"})
  /\ IF owner = NULL
     THEN /\ owner' = t /\ Goto(t, "held")
          /\ UNCHANGED << schedVars, mutex_wq, saved >>
     ELSE /\ mutex_wq' = wait_queue_add(mutex_wq, t) /\ Goto(t, "lock_wait")
          /\ saved' = [saved EXCEPT ![t] = iflag[t]]
          /\ wait_queue_sleep(<< >>)
          /\ UNCHANGED owner
  /\ UNCHANGED << condvar_wq, condition, popped >>

\* The rest of mutex_lock once wait_queue_sleep returns: nothing is re-checked.
mutex_lock_resume(t) ==
  /\ At(t, {"lock_wait"})
  /\ Goto(t, "held")
  /\ section_end(saved[t]) /\ saved' = [saved EXCEPT ![t] = TRUE]
  /\ UNCHANGED << owner, mutex_wq, condvar_wq, condition, popped >>

\* The owner mutex_unlock leaves: the first waiter, or none.
NextOwner == IF mutex_wq = << >> THEN NULL ELSE Head(mutex_wq)

\* Mutant: the mutex is freed although a waiter is about to be woken.
mutex_unlock_free(t) ==
  /\ At(t, {"done"}) /\ owner = t
  /\ owner' = NULL
  /\ mutex_wq' = wait_queue_rest(mutex_wq)
  /\ popped' = [popped EXCEPT ![t] = wait_queue_remove(mutex_wq)]
  /\ Goto(t, IF mutex_wq = << >> THEN "run" ELSE "unlock_wake")
  /\ UNCHANGED << schedVars, condvar_wq, condition, saved >>

\* Mutant: thread_unblock is forgotten.
mutex_unlock_no_wake(t) ==
  /\ At(t, {"done"}) /\ owner = t
  /\ owner' = NextOwner
  /\ mutex_wq' = wait_queue_rest(mutex_wq)
  /\ Goto(t, "run")
  /\ UNCHANGED << schedVars, condvar_wq, condition, popped, saved >>

\* mutex_unlock up to interrupt_restore.
mutex_unlock(t) ==
  /\ At(t, {"done"}) /\ owner = t
  /\ owner' = NextOwner
  /\ mutex_wq' = wait_queue_rest(mutex_wq)
  /\ popped' = [popped EXCEPT ![t] = wait_queue_remove(mutex_wq)]
  /\ Goto(t, IF mutex_wq = << >> THEN "run" ELSE "unlock_wake")
  /\ UNCHANGED << schedVars, condvar_wq, condition, saved >>

\* The call of thread_unblock that ends mutex_unlock.
mutex_unlock_wake(t) ==
  /\ At(t, {"unlock_wake"})
  /\ wait_queue_wake_all(popped[t])
  /\ popped' = [popped EXCEPT ![t] = << >>]
  /\ Goto(t, "run")
  /\ UNCHANGED << owner, mutex_wq, condvar_wq, condition, saved >>

\* condvar_wait up to the context switch: release the mutex, wake its next
\* owner, enqueue and sleep, all with interrupts off.
condvar_wait(t) ==
  /\ At(t, {"held"}) /\ t \in Consumers /\ ~condition /\ owner = t
  /\ owner' = NextOwner
  /\ mutex_wq' = wait_queue_rest(mutex_wq)
  /\ condvar_wq' = wait_queue_add(condvar_wq, t)
  /\ saved' = [saved EXCEPT ![t] = iflag[t]]
  /\ wait_queue_sleep(wait_queue_remove(mutex_wq))
  /\ Goto(t, "cv_wait")
  /\ UNCHANGED << condition, popped >>

\* condvar_wait after wait_queue_sleep: interrupt_restore, then mutex_lock.
condvar_wait_resume(t) ==
  /\ At(t, {"cv_wait"})
  /\ Goto(t, "relock")
  /\ section_end(saved[t]) /\ saved' = [saved EXCEPT ![t] = TRUE]
  /\ UNCHANGED << owner, mutex_wq, condvar_wq, condition, popped >>

\* Mutant: nobody is woken.
condvar_signal_lost(t) ==
  /\ At(t, {"run", "signal"})
  /\ Goto(t, IF pc[t] = "signal" THEN "done" ELSE "run")
  /\ UNCHANGED << schedVars, owner, mutex_wq, condvar_wq, condition, popped, saved >>

condvar_signal(t) ==
  /\ At(t, {"run", "signal"})
  /\ wait_queue_wake(condvar_wq)
  /\ condvar_wq' = wait_queue_rest(condvar_wq)
  /\ Goto(t, IF pc[t] = "signal" THEN "done" ELSE "run")
  /\ UNCHANGED << owner, mutex_wq, condition, popped, saved >>

condvar_broadcast(t) ==
  /\ At(t, {"run", "signal"})
  /\ wait_queue_wake_all(condvar_wq)
  /\ condvar_wq' = << >>
  /\ Goto(t, IF pc[t] = "signal" THEN "done" ELSE "run")
  /\ UNCHANGED << owner, mutex_wq, condition, popped, saved >>

----------------------------------------------------------------------------
(* The clients' own code, between the calls.                               *)

\* while (!condition) is over: the consumer uses up the condition.
Take(t) ==
  /\ At(t, {"held"}) /\ t \in Consumers /\ condition
  /\ condition' = FALSE /\ Goto(t, "done")
  /\ UNCHANGED << schedVars, owner, mutex_wq, condvar_wq, popped, saved >>

\* The producer sets the condition, unless it still is.
Produce(t) ==
  /\ At(t, {"held"}) /\ t \notin Consumers
  /\ condition' = TRUE /\ Goto(t, IF condition THEN "done" ELSE "signal")
  /\ UNCHANGED << schedVars, owner, mutex_wq, condvar_wq, popped, saved >>

\* A client may make its calls with interrupts on or off.
InClientCode == current # idle /\ pc[current] \in Holding \union {"run"}
DisableInterrupts == InClientCode /\ interrupt_save /\ UNCHANGED monVars
EnableInterrupts == InClientCode /\ interrupt_restore /\ UNCHANGED monVars

\* A client does not terminate while it owns the mutex.
Exit(t) ==
  /\ At(t, {"run"})
  /\ thread_kill_current(<< >>)
  /\ UNCHANGED monVars

\* Everything else: the timer, the boot, cooperative yields.
Environment ==
  /\ \/ scheduler_tick
     \/ scheduler_enter_idle
     \/ InClientCode /\ thread_yield
     \/ \E t \in Threads : thread_create(t) \/ thread_add(t)
  /\ UNCHANGED monVars

\* What a thread does next once it has begun.
Proceed(t) ==
  \/ mutex_lock_resume(t)
  \/ mutex_unlock(t)
  \/ mutex_unlock_wake(t)
  \/ condvar_wait(t)
  \/ condvar_wait_resume(t)
  \/ (pc[t] = "relock" /\ mutex_lock(t))
  \/ (pc[t] = "signal" /\ (condvar_signal(t) \/ condvar_broadcast(t)))
  \/ Take(t)
  \/ Produce(t)

MonNext ==
  \/ Environment
  \/ DisableInterrupts
  \/ EnableInterrupts
  \/ \E t \in Threads : Proceed(t) \/ mutex_lock(t) \/ condvar_signal(t) \/ condvar_broadcast(t) \/ Exit(t)

MonSafety == MonInit /\ [][MonNext]_vars

(* Fairness.  Ticks arrive (see Scheduler); boot ends; a thread that is      *)
(* given the CPU again and again executes its next step, because a time     *)
(* slice of five ticks is longer than an instruction; a client that owns    *)
(* the mutex goes on to unlock it; and interrupts it disabled are enabled    *)
(* again.                                                                   *)
MonFairness ==
  /\ SF_vars(scheduler_tick /\ UNCHANGED monVars)
  /\ WF_vars(scheduler_enter_idle /\ UNCHANGED monVars)
  /\ SF_vars(EnableInterrupts)
  /\ \A t \in Threads : SF_vars(Proceed(t))

MonSpec == MonSafety /\ MonFairness

----------------------------------------------------------------------------
(* Properties.                                                             *)

\* The types; mutex_unlock pops at most one thread.
MonTypeOK ==
  /\ owner \in Threads \union {NULL}
  /\ mutex_wq \in Seq(Threads)
  /\ condvar_wq \in Seq(Threads)
  /\ condition \in BOOLEAN
  /\ pc \in [Threads -> PC]
  /\ saved \in [Threads -> BOOLEAN]
  /\ popped \in [Threads -> {<< >>} \union {<< u >> : u \in Threads}]

\* A thread that has returned from mutex_lock or from condvar_wait is the owner,
\* although neither re-checks anything after it was woken: hence at most one
\* thread is in its critical section, and the ASSERT of mutex_unlock
\* (mutex.c:37) cannot fire.
MutualExclusion == \A t \in Threads : pc[t] \in Holding => owner = t

\* Every sleeping thread can be woken: it is in exactly one queue, once, or it is
\* the owner some thread, between the two halves of mutex_unlock, is about to
\* unblock.  A mutex in transit is not lost either: its new owner is runnable, or
\* exactly one thread has it in hand.  So the ASSERT of thread_unblock
\* (thread.c:84) cannot fire there.
SleepersReachable ==
  /\ IsInjective(mutex_wq \o condvar_wq)
  /\ \A t \in Threads :
       state[t] = "BLOCKED" <=> \/ Linked(mutex_wq \o condvar_wq, t)
                                \/ \E u \in Threads : popped[u] = << t >>
  /\ owner # NULL => \/ pc[owner] \in Holding
                     \/ /\ pc[owner] = "lock_wait" /\ ~Linked(mutex_wq, owner)
                        /\ state[owner] = "BLOCKED" <=> \E u \in Threads : popped[u] = << owner >>
  /\ \A u \in Threads : popped[u] # << >> =>
       /\ pc[u] = "unlock_wake"
       /\ popped[u] = << owner >> /\ state[owner] = "BLOCKED"
       /\ \A v \in Threads \ {u} : popped[v] = << >>

\* No signal is lost (condvar.h: "the mutex is released and the thread enqueued
\* atomically so that no signal can be lost between the two operations"): a
\* condition that holds while consumers sleep for it is consumed.
ConditionConsumed == (condition /\ condvar_wq # << >>) ~> ~condition

\* The mutex implements the abstract lock: what clients observe of it is one
\* thread inside at a time, and every thread that waits for it gets in.
AbstractLock == INSTANCE Lock WITH
  Clients <- Threads,
  phase   <- [t \in Threads |-> IF pc[t] \in Holding THEN "in"
                                ELSE IF pc[t] \in {"lock_wait", "relock"} THEN "trying"
                                ELSE "out"]

ImplementsLock == AbstractLock!LockSafety /\ AbstractLock!LockStarvationFree

============================================================================
