----------------------- MODULE SynchronizationProofs -----------------------
(***************************************************************************)
(* The clients of the wait queues: the semaphore conserves permits and       *)
(* implements CountingSemaphore; mutex and condition variable exclude each   *)
(* other, lose no sleeper and implement the safety part of Lock; all are     *)
(* clients of the scheduler.  For any number of threads, consumers and       *)
(* producers, any initial count and any number of releases that the count    *)
(* can represent.                                                          *)
(***************************************************************************)
EXTENDS Semaphore, Monitor, SchedulerProofs

----------------------------------------------------------------------------
(* The semaphore.                                                          *)

\* The queue holds exactly the blocked threads, all of them inside
\* semaphore_acquire, and only while there is no permit.
QueueSound ==
  /\ IsInjective(sem_wq)
  /\ \A t \in Threads : Linked(sem_wq, t) <=> state[t] = "BLOCKED"
  /\ \A t \in Threads : Linked(sem_wq, t) => sem_pc[t] = "acquire"
  /\ count > 0 => sem_wq = << >>

SemInv == SchedInv /\ SemaphoreTypeOK /\ QueueSound /\ PermitsConserved

----------------------------------------------------------------------------
(* Facts the steps share.                                                  *)

\* Everybody in the queue is a thread, and its members can be woken.
LEMMA SemQueueFacts ==
  ASSUME SemInv
  PROVE  /\ sem_wq \in Seq(Threads) /\ IsInjective(sem_wq)
         /\ \A u : Linked(sem_wq, u) => u \in Threads /\ state[u] = "BLOCKED" /\ sem_pc[u] = "acquire"
         /\ wait_queue_remove(sem_wq) \in WakeOrders
PROOF
  <1>1. sem_wq \in Seq(Threads) /\ IsInjective(sem_wq)
    BY DEF SemInv, SemaphoreTypeOK, QueueSound
  <1>2. \A u : Linked(sem_wq, u) => u \in Threads
    BY <1>1, ElementOfSeq DEF Linked
  <1>3. \A u : Linked(sem_wq, u) => state[u] = "BLOCKED" /\ sem_pc[u] = "acquire"
    BY <1>2 DEF SemInv, QueueSound
  <1> QED BY <1>1, <1>2, <1>3, QueueWakeOrder

\* Granted and the waiting threads are finite sets.
LEMMA GrantedFinite ==
  /\ IsFiniteSet(Granted) /\ Cardinality(Granted) \in Nat
  /\ IsFiniteSet({t \in Threads : sem_pc[t] = "acquire"})
  /\ Cardinality({t \in Threads : sem_pc[t] = "acquire"}) \in Nat
  /\ Cardinality(Granted) <= Cardinality({t \in Threads : sem_pc[t] = "acquire"})
PROOF
  <1> DEFINE W == {t \in Threads : sem_pc[t] = "acquire"}
  <1>1. W \in SUBSET Threads /\ Granted \in SUBSET W
    BY DEF Granted
  <1>2. IsFiniteSet(W)
    BY <1>1, FS_Subset, FiniteAssumption
  <1>3. IsFiniteSet(Granted) /\ Cardinality(Granted) <= Cardinality(W)
    BY <1>1, <1>2, FS_Subset
  <1> QED BY <1>2, <1>3, FS_CardinalityType

\* The count cannot wrap around, and stays within its bounds.
LEMMA CountBounds ==
  ASSUME SemInv
  PROVE  /\ count \in Nat /\ acquired \in Nat /\ released \in Nat /\ released <= MaxReleases
         /\ count + Cardinality(Granted) + acquired = InitialCount + released
         /\ count <= InitialCount + released
         /\ released < MaxReleases => (count + 1) % CountModulus = count + 1
PROOF
  <1>1. /\ InitialCount \in Nat /\ MaxReleases \in Nat /\ CountModulus \in Nat
        /\ InitialCount + MaxReleases < CountModulus
    BY SemaphoreAssumption
  <1>2. /\ count \in Nat /\ acquired \in Nat /\ released \in Nat /\ released <= MaxReleases
        /\ count + Cardinality(Granted) + acquired = InitialCount + released
    BY <1>1 DEF SemInv, SemaphoreTypeOK, PermitsConserved
  <1>3. Cardinality(Granted) \in Nat
    BY GrantedFinite
  <1>4. count <= InitialCount + released
    BY <1>1, <1>2, <1>3
  <1>5. ASSUME released < MaxReleases PROVE (count + 1) % CountModulus = count + 1
    <2>1. count + 1 \in Nat /\ count + 1 < CountModulus
      BY <1>1, <1>2, <1>4, <1>5
    <2> HIDE DEF SemInv
    <2> QED BY <1>1, <2>1
  <1> QED BY <1>2, <1>4, <1>5

----------------------------------------------------------------------------
(* Each action: what it is for the scheduler, and what it does to the queue *)
(* and to the threads a permit is on its way to.                            *)

\* The environment blocks and wakes nobody.
LEMMA EnvironmentStep ==
  ASSUME SemInv, SemaphoreEnvironment
  PROVE  /\ SchedNext /\ UNCHANGED semVars
         /\ \A u \in Threads : state'[u] = "BLOCKED" <=> state[u] = "BLOCKED"
PROOF
  <1>0. SchedInv /\ state \in [AllThreads -> ThreadState] /\ Threads \subseteq AllThreads
    BY DEF SemInv, SchedInv, SchedTypeOK, AllThreads
  <1>1. UNCHANGED semVars
    BY DEF SemaphoreEnvironment
  <1>2. CASE scheduler_tick \/ thread_yield
    BY <1>0, <1>1, <1>2, YieldEffect, EmptyWakeOrder DEF Effect, Active, SchedNext
  <1>3. CASE scheduler_enter_idle
    BY <1>1, <1>3 DEF scheduler_enter_idle, SchedNext
  <1>4. ASSUME NEW t \in Threads, thread_create(t) \/ thread_add(t)
        PROVE  /\ SchedNext
               /\ \A u \in Threads : state'[u] = "BLOCKED" <=> state[u] = "BLOCKED"
    BY <1>0, <1>4 DEF thread_create, thread_add, SchedNext
  <1>5. CASE thread_kill_current(<< >>)
    <2>1. SchedNext
      BY <1>5, EmptyWakeOrder DEF SchedNext
    <2>2. Effect(<< >>, << "TERMINATED" >>) /\ state[current] = "RUNNING"
      BY <1>0, <1>5, KillEffect, EmptyWakeOrder DEF SchedInv, OneRunning
    <2>3. << "TERMINATED" >>[1] = "TERMINATED"
      OBVIOUS
    <2> QED BY <1>1, <2>1, <2>2, <2>3, EmptyWakeOrder DEF Effect, Active
  <1> QED BY <1>1, <1>2, <1>3, <1>4, <1>5 DEF SemaphoreEnvironment

\* semaphore_acquire without a permit: the thread joins the queue and blocks.
LEMMA SleepEffect ==
  ASSUME SemInv, NEW t \in Threads, semaphore_acquire(t), ~(count > 0)
  PROVE  /\ SchedNext /\ current = t
         /\ \A u \in Threads : state'[u] = "BLOCKED" <=> state[u] = "BLOCKED" \/ u = t
         /\ sem_wq' \in Seq(Threads) /\ IsInjective(sem_wq')
         /\ \A u : Linked(sem_wq', u) <=> Linked(sem_wq, u) \/ u = t
         /\ Granted' = Granted
PROOF
  <1>0. SchedInv
    BY DEF SemInv
  <1>1. /\ current = t /\ sem_pc[t] = "run" /\ wait_queue_sleep(<< >>)
        /\ sem_wq' = wait_queue_add(sem_wq, t) /\ sem_pc' = [sem_pc EXCEPT ![t] = "acquire"]
    BY DEF semaphore_acquire
  <1>2. SchedNext /\ thread_block(<< >>)
    BY <1>0, <1>1, EmptyWakeOrder, SleepStep
  <1>3. Effect(<< >>, << "BLOCKED" >>)
    BY <1>0, <1>2, EmptyWakeOrder, BlockEffect
  <1>4. << "BLOCKED" >> # << >> /\ << "BLOCKED" >>[1] = "BLOCKED"
    OBVIOUS
  <1>5. \A u \in Threads : state'[u] = "BLOCKED" <=> state[u] = "BLOCKED" \/ u = t
    BY <1>1, <1>3, <1>4, EmptyWakeOrder DEF Effect, Active
  <1>6. ~Linked(sem_wq, t)
    BY <1>0, <1>1, SemQueueFacts DEF SchedInv, OneRunning
  <1>7. /\ sem_wq' \in Seq(Threads) /\ IsInjective(sem_wq')
        /\ \A u : Linked(sem_wq', u) <=> Linked(sem_wq, u) \/ u = t
    BY <1>1, <1>6, SemQueueFacts, QueueAdd
  <1>8. sem_pc \in [Threads -> {"run", "acquire"}]
    BY DEF SemInv, SemaphoreTypeOK
  <1>9. Granted' = Granted
    <2>1. \A u \in Threads : sem_pc'[u] = IF u = t THEN "acquire" ELSE sem_pc[u]
      BY <1>1, <1>8
    <2>2. \A u \in Threads : u \in Granted' <=> u \in Granted
      BY <1>1, <1>7, <2>1 DEF Granted
    <2> QED BY <2>2 DEF Granted
  <1> QED BY <1>1, <1>2, <1>5, <1>7, <1>9

\* wait_queue_sleep returns to a thread that is no longer in the queue: the
\* permit it goes off with was granted to it.
LEMMA ResumeEffect ==
  ASSUME SemInv, NEW t \in Threads, semaphore_acquire_resume(t)
  PROVE  /\ [SchedNext]_schedVars /\ state' = state /\ t \in Granted
         /\ Granted' = Granted \ {t}
PROOF
  <1>0. SchedInv /\ sem_pc \in [Threads -> {"run", "acquire"}] /\ sem_saved[t] \in BOOLEAN
    BY DEF SemInv, SemaphoreTypeOK
  <1>1. /\ current = t /\ sem_pc[t] = "acquire" /\ section_end(sem_saved[t])
        /\ sem_pc' = [sem_pc EXCEPT ![t] = "run"] /\ sem_wq' = sem_wq
    BY DEF semaphore_acquire_resume
  <1>2. current # idle
    BY <1>1, ThreadsAssumption
  <1>3. [SchedNext]_schedVars
    BY <1>0, <1>1, <1>2, SectionEndStep
  <1>4. ~Linked(sem_wq, t)
    BY <1>0, <1>1, SemQueueFacts DEF SchedInv, OneRunning
  <1>5. \A u \in Threads : sem_pc'[u] = IF u = t THEN "run" ELSE sem_pc[u]
    BY <1>0, <1>1
  <1>6. Granted' = Granted \ {t}
    BY <1>1, <1>5 DEF Granted
  <1> QED BY <1>1, <1>3, <1>4, <1>6 DEF Granted, section_end

\* semaphore_release with a waiter: its first waiter is granted the permit.
LEMMA HandOver ==
  ASSUME SemInv, NEW t \in Threads, semaphore_release(t), sem_wq # << >>
  PROVE  /\ SchedNext
         /\ sem_wq' \in Seq(Threads) /\ IsInjective(sem_wq')
         /\ \A u : Linked(sem_wq', u) <=> Linked(sem_wq, u) /\ u # Head(sem_wq)
         /\ \A u \in Threads : state'[u] = "BLOCKED" <=> state[u] = "BLOCKED" /\ u # Head(sem_wq)
         /\ Head(sem_wq) \notin Granted /\ Granted' = Granted \union {Head(sem_wq)}
PROOF
  <1> DEFINE h == Head(sem_wq)  ws == wait_queue_remove(sem_wq)
  <1>0. SchedInv
    BY DEF SemInv
  <1>1. /\ current = t /\ thread_unblock(ws) /\ sem_wq' = wait_queue_rest(sem_wq)
        /\ iflag' = [iflag EXCEPT ![t] = FALSE] /\ sem_pc' = sem_pc
    BY DEF semaphore_release
  <1>2. /\ sem_wq' \in Seq(Threads) /\ IsInjective(sem_wq') /\ ws \in WakeOrders
        /\ h \in Threads /\ ws = << h >>
        /\ \A u : Linked(ws, u) <=> u = h
        /\ \A u : Linked(sem_wq, u) <=> u = h \/ Linked(sem_wq', u)
        /\ ~Linked(sem_wq', h)
    BY <1>1, SemQueueFacts, QueueSplit
  <1>3. SchedNext
    <2>1. ws # << >>
      BY <1>2
    <2>2. wake_section(ws)
      BY <1>1 DEF wake_section
    <2> QED BY <1>2, <2>1, <2>2 DEF SchedNext
  <1>4. Effect(ws, << >>)
    BY <1>0, <1>1, <1>2, WakeEffect
  <1>5. \A u \in Threads : state'[u] = "BLOCKED" <=> state[u] = "BLOCKED" /\ u # h
    BY <1>2, <1>4 DEF Effect, Active
  <1>6. sem_pc[h] = "acquire"
    BY <1>2, SemQueueFacts
  <1> HIDE DEF h, ws
  <1>7. h \notin Granted /\ Granted' = Granted \union {h}
    BY <1>1, <1>2, <1>6 DEF Granted
  <1> QED BY <1>2, <1>3, <1>5, <1>7 DEF h

----------------------------------------------------------------------------
(* The invariant.                                                          *)

\* The invariant holds when semaphore_init has returned.
LEMMA SemInitInv == SemaphoreInit => SemInv
PROOF
  <1> SUFFICES ASSUME SemaphoreInit PROVE SemInv
    OBVIOUS
  <1>1. SchedInv
    BY InitInv DEF SemaphoreInit
  <1>2. /\ InitialCount \in Nat /\ MaxReleases \in Nat
    BY SemaphoreAssumption
  <1>3. SemaphoreTypeOK
    BY <1>2, EmptySeq DEF SemaphoreInit, SemaphoreTypeOK
  <1>4. QueueSound
    <2>1. \A t \in Threads : state[t] = "UNUSED"
      BY ThreadsAssumption DEF SemaphoreInit, SchedInit, AllThreads
    <2>2. IsInjective(<< >>)
      BY EmptySeq DEF IsInjective
    <2> QED BY <2>1, <2>2, EmptyWakeOrder DEF SemaphoreInit, QueueSound
  <1>5. PermitsConserved
    <2>1. Granted = {}
      BY DEF SemaphoreInit, Granted
    <2> QED BY <1>2, <2>1, FS_EmptySet DEF SemaphoreInit, PermitsConserved
  <1> QED BY <1>1, <1>3, <1>4, <1>5 DEF SemInv

\* What each step is for the scheduler.
LEMMA SemSchedStep ==
  ASSUME SemInv, [SemaphoreNext]_semaphoreVars
  PROVE  [SchedNext]_schedVars
PROOF
  <1>1. CASE SemaphoreEnvironment
    BY <1>1, EnvironmentStep
  <1>2. ASSUME NEW t \in Threads, semaphore_acquire(t) PROVE [SchedNext]_schedVars
    BY <1>2, SleepEffect DEF semaphore_acquire
  <1>3. ASSUME NEW t \in Threads, semaphore_acquire_resume(t) PROVE [SchedNext]_schedVars
    BY <1>3, ResumeEffect
  <1>4. ASSUME NEW t \in Threads, semaphore_release(t) PROVE [SchedNext]_schedVars
    BY <1>4, HandOver DEF semaphore_release
  <1>5. CASE UNCHANGED semaphoreVars
    BY <1>5 DEF semaphoreVars, schedVars
  <1> QED BY <1>1, <1>2, <1>3, <1>4, <1>5 DEF SemaphoreNext

\* Every step keeps the types, the queue and the sum of the permits.
LEMMA SemStepInv == SemInv /\ [SemaphoreNext]_semaphoreVars => SemInv'
PROOF
  <1> SUFFICES ASSUME SemInv, [SemaphoreNext]_semaphoreVars PROVE SemInv'
    OBVIOUS
  <1>1. SchedInv'
    BY SemSchedStep, StepInv DEF SemInv
  <1> DEFINE Rest == SemaphoreTypeOK /\ QueueSound /\ PermitsConserved
  <1> USE DEF SemInv
  <1>0. /\ InitialCount \in Nat /\ MaxReleases \in Nat
        /\ IsFiniteSet(Granted) /\ Cardinality(Granted) \in Nat
    BY SemaphoreAssumption, GrantedFinite
  <1>2. ASSUME UNCHANGED semVars, \A u \in Threads : state'[u] = "BLOCKED" <=> state[u] = "BLOCKED"
        PROVE  Rest'
    <2>1. Granted' = Granted
      BY <1>2 DEF Granted, semVars
    <2> QED BY <1>2, <2>1 DEF semVars, SemaphoreTypeOK, QueueSound, PermitsConserved
  <1>3. ASSUME NEW t \in Threads, semaphore_acquire(t) PROVE Rest'
    <2>1. CASE count > 0
      <3>1. /\ count' = count - 1 /\ acquired' = acquired + 1
            /\ UNCHANGED << schedVars, sem_wq, sem_pc, sem_saved, released >>
        BY <1>3, <2>1 DEF semaphore_acquire
      <3>2. Granted' = Granted
        BY <3>1 DEF Granted
      <3>3. SemaphoreTypeOK'
        BY <1>0, <2>1, <3>1 DEF SemaphoreTypeOK
      <3>4. QueueSound'
        BY <2>1, <3>1 DEF schedVars, QueueSound
      <3>5. PermitsConserved'
        BY <1>0, <3>1, <3>2, CountBounds DEF PermitsConserved
      <3> QED BY <3>3, <3>4, <3>5
    <2>2. CASE ~(count > 0)
      <3>1. /\ UNCHANGED << count, acquired, released >>
            /\ sem_pc' = [sem_pc EXCEPT ![t] = "acquire"] /\ sem_saved' = [sem_saved EXCEPT ![t] = iflag[t]]
        BY <1>3, <2>2 DEF semaphore_acquire
      <3>2. iflag[t] \in BOOLEAN
        BY DEF SchedInv, SchedTypeOK, AllThreads
      <3>3. SemaphoreTypeOK'
        <4>1. sem_wq' \in Seq(Threads)
          BY <1>3, <2>2, SleepEffect
        <4> QED BY <3>1, <3>2, <4>1 DEF SemaphoreTypeOK
      <3>4. QueueSound'
        <4>1. \A u \in Threads : sem_pc'[u] = IF u = t THEN "acquire" ELSE sem_pc[u]
          BY <3>1 DEF SemaphoreTypeOK
        <4> QED BY <1>3, <2>2, <3>1, <4>1, SleepEffect DEF QueueSound
      <3>5. PermitsConserved'
        BY <1>3, <2>2, <3>1, SleepEffect DEF PermitsConserved
      <3> QED BY <3>3, <3>4, <3>5
    <2> QED BY <2>1, <2>2
  <1>4. ASSUME NEW t \in Threads, semaphore_acquire_resume(t) PROVE Rest'
    <2>1. /\ acquired' = acquired + 1 /\ UNCHANGED << count, sem_wq, released >>
          /\ sem_pc' = [sem_pc EXCEPT ![t] = "run"] /\ sem_saved' = [sem_saved EXCEPT ![t] = TRUE]
      BY <1>4 DEF semaphore_acquire_resume
    <2>2. state' = state /\ t \in Granted /\ Granted' = Granted \ {t}
      BY <1>4, ResumeEffect
    <2>3. SemaphoreTypeOK'
      BY <2>1 DEF SemaphoreTypeOK
    <2>4. QueueSound'
      <3>1. \A u \in Threads : sem_pc'[u] = IF u = t THEN "run" ELSE sem_pc[u]
        BY <2>1 DEF SemaphoreTypeOK
      <3> QED BY <2>1, <2>2, <3>1 DEF QueueSound, Granted
    <2>5. Cardinality(Granted') = Cardinality(Granted) - 1
      BY <1>0, <2>2, FS_RemoveElement
    <2>6. PermitsConserved'
      BY <1>0, <2>1, <2>5, CountBounds DEF PermitsConserved
    <2> QED BY <2>3, <2>4, <2>6
  <1>5. ASSUME NEW t \in Threads, semaphore_release(t) PROVE Rest'
    <2>0. /\ released < MaxReleases /\ released' = released + 1
          /\ UNCHANGED << sem_pc, sem_saved, acquired >>
      BY <1>5 DEF semaphore_release
    <2>1. CASE sem_wq # << >>
      <3>1. count' = count
        BY <1>5, <2>1 DEF semaphore_release
      <3>2. SemaphoreTypeOK'
        BY <1>0, <1>5, <2>0, <2>1, <3>1, HandOver DEF SemaphoreTypeOK
      <3>3. QueueSound'
        BY <1>5, <2>0, <2>1, <3>1, HandOver DEF QueueSound
      <3>4. Cardinality(Granted') = Cardinality(Granted) + 1
        BY <1>0, <1>5, <2>1, HandOver, FS_AddElement
      <3>5. PermitsConserved'
        BY <1>0, <2>0, <3>1, <3>4, CountBounds DEF PermitsConserved
      <3> QED BY <3>2, <3>3, <3>5
    <2>2. CASE sem_wq = << >>
      <3>1. count' = count + 1 /\ UNCHANGED << schedVars, sem_wq >>
        BY <1>5, <2>0, <2>2, CountBounds DEF semaphore_release
      <3>2. Granted' = Granted
        BY <2>0, <3>1 DEF Granted
      <3>3. SemaphoreTypeOK'
        BY <1>0, <2>0, <3>1, CountBounds DEF SemaphoreTypeOK
      <3>4. QueueSound'
        BY <2>0, <2>2, <3>1 DEF schedVars, QueueSound
      <3>5. PermitsConserved'
        BY <1>0, <2>0, <3>1, <3>2, CountBounds DEF PermitsConserved
      <3> QED BY <3>3, <3>4, <3>5
    <2> QED BY <2>1, <2>2
  <1>6. ASSUME SemaphoreEnvironment PROVE Rest'
    BY <1>2, <1>6, EnvironmentStep
  <1>7. ASSUME UNCHANGED semaphoreVars PROVE Rest'
    BY <1>2, <1>7 DEF semaphoreVars, schedVars
  <1>8. Rest'
    BY <1>3, <1>4, <1>5, <1>6, <1>7 DEF SemaphoreNext
  <1> QED BY <1>1, <1>8

\* The invariant holds in every reachable state.
THEOREM SemInvariance == SemaphoreSpec => []SemInv
PROOF
  BY SemInitInv, SemStepInv, PTL DEF SemaphoreSpec

\* Type correctness; sem->count stays between 0 and the permits there are, so
\* its unsigned arithmetic (semaphore.c:21, 51) never wraps around.
THEOREM SemTypeCorrect == SemaphoreSpec => []SemaphoreTypeOK
PROOF
  <1>1. SemInv => SemaphoreTypeOK
    BY DEF SemInv
  <1> QED BY <1>1, SemInvariance, PTL

\* semaphore_acquire and semaphore_release neither make nor lose a permit,
\* whatever the interleaving and whoever is woken.
THEOREM PermitsCorrect == SemaphoreSpec => []PermitsConserved
PROOF
  <1>1. SemInv => PermitsConserved
    BY DEF SemInv
  <1> QED BY <1>1, SemInvariance, PTL

----------------------------------------------------------------------------
(* Refinement.                                                             *)

\* A program of acquires and releases uses the scheduler as SchedNext allows:
\* everything proved of the scheduler holds of it, the ASSERTs of
\* thread_unblock and list_push_back included.
THEOREM SemaphoreIsClient == SemaphoreSpec => SchedSafety
PROOF
  <1>1. SemaphoreInit => SchedInit
    BY DEF SemaphoreInit
  <1>2. SemInv /\ [SemaphoreNext]_semaphoreVars => [SchedNext]_schedVars
    BY SemSchedStep
  <1> QED BY <1>1, <1>2, SemInvariance, PTL DEF SemaphoreSpec, SchedSafety

\* Each step of the implementation is a step of the abstract semaphore or none.
LEMMA AbstractStep ==
  ASSUME SemInv, SemInv', [SemaphoreNext]_semaphoreVars
  PROVE  [AbstractSemaphore!SemNext]_<< count + Cardinality(Granted), {t \in Threads : sem_pc[t] = "acquire"} >>
PROOF
  <1> DEFINE W == {t \in Threads : sem_pc[t] = "acquire"}
             p == count + Cardinality(Granted)
  <1>0. /\ IsFiniteSet(Granted) /\ Cardinality(Granted) \in Nat /\ count \in Nat
        /\ IsFiniteSet(W) /\ Cardinality(W) \in Nat /\ Cardinality(Granted) <= Cardinality(W)
        /\ sem_pc \in [Threads -> {"run", "acquire"}]
    BY GrantedFinite, CountBounds DEF SemInv, SemaphoreTypeOK
  <1>card. AbstractSemaphore!Cardinality(W) = Cardinality(W)
    BY Zenon DEF AbstractSemaphore!Cardinality, Cardinality, AbstractSemaphore!IsFiniteSet, IsFiniteSet
  <1>1. ASSUME UNCHANGED semVars PROVE p' = p /\ W' = W
    BY <1>1 DEF semVars, Granted
  <1>2. ASSUME NEW t \in Threads, semaphore_acquire(t), count > 0
        PROVE  AbstractSemaphore!SemNext
    <2>1. count' = count - 1 /\ sem_wq' = sem_wq /\ sem_pc' = sem_pc /\ t \notin W
      BY <1>2 DEF semaphore_acquire
    <2>2. Granted = W
      <3>1. sem_wq = << >>
        BY <1>2 DEF SemInv, QueueSound
      <3> QED BY <3>1, EmptyWakeOrder DEF Granted
    <2>3. Granted' = Granted /\ W' = W
      BY <2>1 DEF Granted
    <2>4. p' = p - 1 /\ p > Cardinality(W)
      BY <1>0, <1>2, <2>1, <2>2, <2>3
    <2>5. W' = W \ {t}
      BY <2>1, <2>3
    <2>6. AbstractSemaphore!Acquire(t)
      BY <1>card, <2>1, <2>4, <2>5 DEF AbstractSemaphore!Acquire, AbstractSemaphore!Spare
    <2> QED BY <2>6 DEF AbstractSemaphore!SemNext
  <1>3. ASSUME NEW t \in Threads, semaphore_acquire(t), ~(count > 0)
        PROVE  AbstractSemaphore!SemNext
    <2>1. count' = count /\ sem_pc' = [sem_pc EXCEPT ![t] = "acquire"] /\ sem_pc[t] = "run" /\ Granted' = Granted
      BY <1>3, SleepEffect DEF semaphore_acquire
    <2>2. t \notin W /\ W' = W \union {t}
      BY <1>0, <2>1
    <2>3. p' = p /\ ~(p > Cardinality(W))
      BY <1>0, <1>3, <2>1
    <2>4. AbstractSemaphore!Wait(t)
      BY <1>card, <2>2, <2>3 DEF AbstractSemaphore!Wait, AbstractSemaphore!Spare
    <2> QED BY <2>4 DEF AbstractSemaphore!SemNext
  <1>4. ASSUME NEW t \in Threads, semaphore_acquire_resume(t)
        PROVE  AbstractSemaphore!SemNext
    <2>1. count' = count /\ sem_pc' = [sem_pc EXCEPT ![t] = "run"] /\ t \in Granted /\ Granted' = Granted \ {t}
      BY <1>4, ResumeEffect DEF semaphore_acquire_resume
    <2>2. t \in W /\ W' = W \ {t}
      BY <1>0, <2>1 DEF Granted
    <2>3. Cardinality(Granted') = Cardinality(Granted) - 1 /\ Cardinality(Granted) # 0
      BY <1>0, <2>1, FS_RemoveElement, FS_EmptySet
    <2>4. p' = p - 1 /\ p > 0
      BY <1>0, <2>1, <2>3
    <2>5. AbstractSemaphore!Acquire(t)
      BY <2>2, <2>4 DEF AbstractSemaphore!Acquire
    <2> QED BY <2>5 DEF AbstractSemaphore!SemNext
  <1>5. ASSUME NEW t \in Threads, semaphore_release(t)
        PROVE  AbstractSemaphore!SemNext
    <2>1. W' = W
      BY <1>5 DEF semaphore_release
    <2>2. p' = p + 1
      <3>1. CASE sem_wq # << >>
        <4>1. Cardinality(Granted') = Cardinality(Granted) + 1 /\ count' = count
          BY <1>0, <1>5, <3>1, HandOver, FS_AddElement DEF semaphore_release
        <4> QED BY <1>0, <4>1
      <3>2. CASE sem_wq = << >>
        <4>1. Granted' = Granted /\ count' = count + 1
          BY <1>5, <3>2, CountBounds DEF semaphore_release, Granted
        <4> QED BY <1>0, <4>1
      <3> QED BY <3>1, <3>2
    <2>3. AbstractSemaphore!Release
      BY <2>1, <2>2 DEF AbstractSemaphore!Release
    <2> QED BY <2>3 DEF AbstractSemaphore!SemNext
  <1>6. CASE SemaphoreEnvironment
    BY <1>1, <1>6, EnvironmentStep
  <1>7. CASE UNCHANGED semaphoreVars
    BY <1>1, <1>7 DEF semaphoreVars
  <1> QED BY <1>2, <1>3, <1>4, <1>5, <1>6, <1>7 DEF SemaphoreNext

\* semaphore.c implements the abstract semaphore: a newcomer never takes a
\* permit that was promised to a waiting thread.
THEOREM SemaphoreRefines == SemaphoreSpec => ImplementsSemaphore
PROOF
  <1>1. SemaphoreInit => AbstractSemaphore!SemInit
    <2> SUFFICES ASSUME SemaphoreInit PROVE AbstractSemaphore!SemInit
      OBVIOUS
    <2>1. Granted = {} /\ {t \in Threads : sem_pc[t] = "acquire"} = {} /\ count = InitialCount
      BY DEF SemaphoreInit, Granted
    <2> QED BY <2>1, FS_EmptySet, SemaphoreAssumption DEF AbstractSemaphore!SemInit
  <1>2. SemInv /\ SemInv' /\ [SemaphoreNext]_semaphoreVars
          => [AbstractSemaphore!SemNext]_<< count + Cardinality(Granted), {t \in Threads : sem_pc[t] = "acquire"} >>
    BY AbstractStep
  <1> QED BY <1>1, <1>2, SemInvariance, PTL
          DEF SemaphoreSpec, ImplementsSemaphore, AbstractSemaphore!SemSafety


----------------------------------------------------------------------------
(* The mutex and the condition variable.                                    *)

\* Some thread, between the two halves of mutex_unlock, is about to wake t.
InHand(t) == \E u \in Threads : popped[u] = << t >>

\* Each queue holds threads asleep at its place, none of them the owner, and
\* whoever waits for the mutex is in its queue or owns it already; a thread is
\* blocked exactly when it is in a queue or in hand.
QueuesSound ==
  /\ IsInjective(mutex_wq) /\ IsInjective(condvar_wq)
  /\ \A t \in Threads : Linked(mutex_wq, t) => pc[t] = "lock_wait" /\ owner \notin {t, NULL}
  /\ \A t \in Threads : Linked(condvar_wq, t) => pc[t] = "cv_wait"
  /\ \A t \in Threads : pc[t] = "lock_wait" => Linked(mutex_wq, t) \/ owner = t
  /\ \A t \in Threads :
       state[t] = "BLOCKED" <=> Linked(mutex_wq, t) \/ Linked(condvar_wq, t) \/ InHand(t)

\* The owner is inside or on its way in, and at most one thread has a waiter in
\* hand: the owner.
Transit ==
  /\ owner # NULL => pc[owner] \in Holding \union {"lock_wait"}
  /\ \A u \in Threads : popped[u] # << >> =>
       /\ pc[u] = "unlock_wake" /\ popped[u] = << owner >>
       /\ \A v \in Threads \ {u} : popped[v] = << >>

MonInv == SchedInv /\ MonTypeOK /\ MutualExclusion /\ QueuesSound /\ Transit

Rest == MonTypeOK /\ MutualExclusion /\ QueuesSound /\ Transit

----------------------------------------------------------------------------
(* Facts the steps share.                                                  *)

\* Everybody in a queue is a blocked thread, and can be woken.
LEMMA QueueFacts ==
  ASSUME MonInv
  PROVE  /\ mutex_wq \in Seq(Threads) /\ IsInjective(mutex_wq)
         /\ condvar_wq \in Seq(Threads) /\ IsInjective(condvar_wq)
         /\ \A u : Linked(mutex_wq, u) => u \in Threads /\ state[u] = "BLOCKED" /\ pc[u] = "lock_wait"
         /\ \A u : Linked(condvar_wq, u) => u \in Threads /\ state[u] = "BLOCKED" /\ pc[u] = "cv_wait"
         /\ wait_queue_remove(mutex_wq) \in WakeOrders
         /\ condvar_wq \in WakeOrders /\ wait_queue_remove(condvar_wq) \in WakeOrders
PROOF
  <1>1. /\ mutex_wq \in Seq(Threads) /\ IsInjective(mutex_wq)
        /\ condvar_wq \in Seq(Threads) /\ IsInjective(condvar_wq)
    BY DEF MonInv, MonTypeOK, QueuesSound
  <1>2. \A u : Linked(mutex_wq, u) \/ Linked(condvar_wq, u) => u \in Threads
    BY <1>1, ElementOfSeq DEF Linked
  <1>3. /\ \A u : Linked(mutex_wq, u) => state[u] = "BLOCKED" /\ pc[u] = "lock_wait"
        /\ \A u : Linked(condvar_wq, u) => state[u] = "BLOCKED" /\ pc[u] = "cv_wait"
    BY <1>2 DEF MonInv, QueuesSound
  <1> QED BY <1>1, <1>2, <1>3, QueueWakeOrder

\* The running thread is in no queue and in nobody's hand.
LEMMA CurrentFacts ==
  ASSUME MonInv, current \in Threads
  PROVE  /\ state[current] = "RUNNING" /\ current # idle
         /\ ~Linked(mutex_wq, current) /\ ~Linked(condvar_wq, current) /\ ~InHand(current)
         /\ owner = current => \A u \in Threads : popped[u] = << >>
PROOF
  <1>1. state[current] = "RUNNING" /\ current # idle
    BY ThreadsAssumption DEF MonInv, SchedInv, OneRunning
  <1>2. ~Linked(mutex_wq, current) /\ ~Linked(condvar_wq, current) /\ ~InHand(current)
    BY <1>1 DEF MonInv, QueuesSound
  <1>3. ASSUME owner = current PROVE \A u \in Threads : popped[u] = << >>
    BY <1>2, <1>3 DEF MonInv, Transit, InHand
  <1> QED BY <1>1, <1>2, <1>3

----------------------------------------------------------------------------
(* Steps that leave the queues and what is in hand alone.                  *)

\* The environment, a client's own interrupt section, and a client that ends
\* block and wake nobody.
LEMMA OutsideStep ==
  ASSUME MonInv, Environment \/ DisableInterrupts \/ EnableInterrupts \/ \E t \in Threads : Exit(t)
  PROVE  /\ SchedNext /\ UNCHANGED monVars
         /\ \A u \in Threads : state'[u] = "BLOCKED" <=> state[u] = "BLOCKED"
PROOF
  <1>0. SchedInv /\ state \in [AllThreads -> ThreadState] /\ Threads \subseteq AllThreads
    BY DEF MonInv, SchedInv, SchedTypeOK, AllThreads
  <1>1. UNCHANGED monVars
    BY DEF Environment, DisableInterrupts, EnableInterrupts, Exit
  <1>2. CASE scheduler_tick \/ thread_yield
    BY <1>0, <1>1, <1>2, YieldEffect, EmptyWakeOrder DEF Effect, Active, SchedNext
  <1>3. CASE scheduler_enter_idle \/ interrupt_save \/ interrupt_restore
    BY <1>1, <1>3 DEF scheduler_enter_idle, interrupt_save, interrupt_restore, SchedNext
  <1>4. ASSUME NEW t \in Threads, thread_create(t) \/ thread_add(t)
        PROVE  /\ SchedNext
               /\ \A u \in Threads : state'[u] = "BLOCKED" <=> state[u] = "BLOCKED"
    BY <1>0, <1>4 DEF thread_create, thread_add, SchedNext
  <1>5. CASE thread_kill_current(<< >>)
    <2>1. SchedNext
      BY <1>5, EmptyWakeOrder DEF SchedNext
    <2>2. Effect(<< >>, << "TERMINATED" >>) /\ state[current] = "RUNNING"
      BY <1>0, <1>5, KillEffect, EmptyWakeOrder DEF SchedInv, OneRunning
    <2>3. << "TERMINATED" >>[1] = "TERMINATED"
      OBVIOUS
    <2> QED BY <1>1, <2>1, <2>2, <2>3, EmptyWakeOrder DEF Effect, Active
  <1> QED BY <1>1, <1>2, <1>3, <1>4, <1>5 DEF Environment, DisableInterrupts, EnableInterrupts, Exit

\* Such a step keeps the invariant.
LEMMA OutsideKeeps ==
  ASSUME MonInv, UNCHANGED monVars,
         \A u \in Threads : state'[u] = "BLOCKED" <=> state[u] = "BLOCKED"
  PROVE  Rest'
PROOF
  BY DEF MonInv, Rest, monVars, MonTypeOK, MutualExclusion, QueuesSound, Transit, InHand

\* The running thread moves on, and owns the mutex exactly if it is inside.
LEMMA MoveKeeps ==
  ASSUME MonInv, MonTypeOK', NEW t \in Threads, current = t,
         UNCHANGED << mutex_wq, condvar_wq, popped >>, NEW place \in PC, Goto(t, place),
         \A u \in Threads : state'[u] = "BLOCKED" <=> state[u] = "BLOCKED",
         owner' = owner \/ (owner = NULL /\ owner' = t),
         place # "lock_wait", place \in Holding <=> owner' = t, popped[t] = << >>
  PROVE  Rest'
PROOF
  <1>1. \A u \in Threads : pc'[u] = IF u = t THEN place ELSE pc[u]
    BY DEF MonInv, MonTypeOK, Goto
  <1>2. ~Linked(mutex_wq, t) /\ ~Linked(condvar_wq, t)
    BY CurrentFacts
  <1>3. MutualExclusion'
    BY <1>1, MonitorAssumption DEF MonInv, MutualExclusion, AllThreads
  <1>4. QueuesSound'
    <2>1. \A u \in Threads : InHand(u)' <=> InHand(u)
      BY DEF InHand
    <2>2. \A u \in Threads : pc'[u] = "lock_wait" => Linked(mutex_wq, u) \/ owner' = u
      BY <1>1, MonitorAssumption DEF MonInv, QueuesSound, AllThreads
    <2>3. \A u \in Threads : Linked(mutex_wq, u) => pc'[u] = "lock_wait" /\ owner' \notin {u, NULL}
      BY <1>1, <1>2, MonitorAssumption DEF MonInv, QueuesSound, AllThreads
    <2>4. \A u \in Threads : Linked(condvar_wq, u) => pc'[u] = "cv_wait"
      BY <1>1, <1>2 DEF MonInv, QueuesSound
    <2> HIDE DEF InHand
    <2> QED BY <2>1, <2>2, <2>3, <2>4 DEF MonInv, QueuesSound
  <1>5. Transit'
    <2>1. owner' # NULL => pc'[owner'] \in Holding \union {"lock_wait"}
      BY <1>1 DEF MonInv, Transit, MonTypeOK
    <2>2. ASSUME NEW u \in Threads, popped[u] # << >>
          PROVE  /\ pc'[u] = "unlock_wake" /\ popped[u] = << owner' >>
                 /\ \A v \in Threads \ {u} : popped[v] = << >>
      <3>1. \E v \in Threads : popped[u] = << v >>
        BY <2>2 DEF MonInv, MonTypeOK
      <3>2. owner # NULL
        BY <2>2, <3>1, MonitorAssumption DEF MonInv, Transit, AllThreads
      <3> QED BY <1>1, <2>2, <3>2 DEF MonInv, Transit
    <2> QED BY <2>1, <2>2 DEF Transit
  <1> QED BY <1>3, <1>4, <1>5 DEF Rest

----------------------------------------------------------------------------
(* The steps that change the queues.                                       *)

\* mutex_lock of an owned mutex: the caller joins the queue and blocks.
LEMMA LockSleeps ==
  ASSUME MonInv, NEW t \in Threads, mutex_lock(t), owner # NULL
  PROVE  [SchedNext]_schedVars /\ Rest'
PROOF
  <1>0. SchedInv /\ MonTypeOK /\ iflag[t] \in BOOLEAN
    BY DEF MonInv, SchedInv, SchedTypeOK, AllThreads
  <1>1. /\ current = t /\ pc[t] \in {"run", "relock"} /\ wait_queue_sleep(<< >>)
        /\ mutex_wq' = wait_queue_add(mutex_wq, t) /\ pc' = [pc EXCEPT ![t] = "lock_wait"]
        /\ saved' = [saved EXCEPT ![t] = iflag[t]]
        /\ UNCHANGED << owner, condvar_wq, condition, popped >>
    BY DEF mutex_lock, At, Goto
  <1>2. SchedNext /\ thread_block(<< >>)
    BY <1>0, <1>1, EmptyWakeOrder, SleepStep
  <1>3. Effect(<< >>, << "BLOCKED" >>)
    BY <1>0, <1>2, EmptyWakeOrder, BlockEffect
  <1>4. << "BLOCKED" >> # << >> /\ << "BLOCKED" >>[1] = "BLOCKED"
    OBVIOUS
  <1>5. \A u \in Threads : state'[u] = "BLOCKED" <=> state[u] = "BLOCKED" \/ u = t
    BY <1>1, <1>3, <1>4, EmptyWakeOrder DEF Effect, Active
  <1>6. ~Linked(mutex_wq, t) /\ ~Linked(condvar_wq, t) /\ ~InHand(t)
    BY <1>1, CurrentFacts
  <1>7. /\ mutex_wq' \in Seq(Threads) /\ IsInjective(mutex_wq')
        /\ \A u : Linked(mutex_wq', u) <=> Linked(mutex_wq, u) \/ u = t
    BY <1>1, <1>6, QueueFacts, QueueAdd
  <1>8. \A u \in Threads : pc'[u] = IF u = t THEN "lock_wait" ELSE pc[u]
    BY <1>0, <1>1 DEF MonTypeOK
  <1>9. owner # t
    BY <1>1, MonitorAssumption DEF MonInv, Transit, AllThreads, Holding
  <1>10. MonTypeOK'
    BY <1>0, <1>1, <1>7 DEF MonTypeOK, PC
  <1>11. MutualExclusion'
    BY <1>1, <1>8 DEF MonInv, MutualExclusion, Holding
  <1>12. QueuesSound'
    <2>1. \A u \in Threads : InHand(u)' <=> InHand(u)
      BY <1>1 DEF InHand
    <2> HIDE DEF InHand
    <2> QED BY <1>1, <1>5, <1>6, <1>7, <1>8, <1>9, <2>1 DEF MonInv, QueuesSound
  <1>13. Transit'
    BY <1>0, <1>1, <1>8, <1>9 DEF MonInv, MonTypeOK, Transit
  <1> QED BY <1>2, <1>10, <1>11, <1>12, <1>13 DEF Rest

\* What mutex_unlock does to the queue, wherever it is called: the first waiter
\* leaves it and is the new owner, or there is none.
LEMMA PassOn ==
  ASSUME MonInv, current \in Threads, owner = current, owner' = NextOwner,
         mutex_wq' = wait_queue_rest(mutex_wq)
  PROVE  /\ mutex_wq' \in Seq(Threads) /\ IsInjective(mutex_wq')
         /\ owner' \in Threads \union {NULL} /\ (owner' = NULL <=> mutex_wq = << >>)
         /\ \A u \in Threads : Linked(mutex_wq, u) <=> u = owner' \/ Linked(mutex_wq', u)
         /\ \A u : Linked(mutex_wq', u) => u # owner' /\ owner' # NULL
         /\ \A u : Linked(wait_queue_remove(mutex_wq), u) <=> u = owner' /\ owner' # NULL
         /\ owner' # NULL => /\ pc[owner'] = "lock_wait" /\ owner' # current
                             /\ wait_queue_remove(mutex_wq) = << owner' >>
         /\ \A u \in Threads : pc[u] = "lock_wait" => Linked(mutex_wq, u) \/ u = current
PROOF
  <1>1. /\ mutex_wq \in Seq(Threads) /\ IsInjective(mutex_wq) /\ NULL \notin Threads
        /\ \A u : Linked(mutex_wq, u) => u \in Threads /\ pc[u] = "lock_wait" /\ u # current
    BY QueueFacts, CurrentFacts, MonitorAssumption DEF AllThreads
  <1>2. \A u \in Threads : pc[u] = "lock_wait" => Linked(mutex_wq, u) \/ u = current
    BY DEF MonInv, QueuesSound
  <1>3. CASE mutex_wq = << >>
    <2>1. owner' = NULL /\ mutex_wq' = << >> /\ wait_queue_remove(mutex_wq) = << >>
      BY <1>3 DEF NextOwner, wait_queue_rest, wait_queue_remove
    <2> QED BY <1>1, <1>2, <1>3, <2>1, EmptyWakeOrder
  <1>4. CASE mutex_wq # << >>
    <2>1. owner' = Head(mutex_wq)
      BY <1>4 DEF NextOwner
    <2> QED BY <1>1, <1>2, <1>4, <2>1, QueueSplit
  <1> QED BY <1>3, <1>4

\* mutex_unlock up to interrupt_restore: the new owner is in hand.
LEMMA UnlockKeeps ==
  ASSUME MonInv, NEW t \in Threads, mutex_unlock(t)
  PROVE  [SchedNext]_schedVars /\ Rest'
PROOF
  <1> DEFINE place == IF mutex_wq = << >> THEN "run" ELSE "unlock_wake"
             ws == wait_queue_remove(mutex_wq)
  <1>0. MonTypeOK
    BY DEF MonInv
  <1>1. /\ current = t /\ pc[t] = "done" /\ owner = t /\ owner' = NextOwner
        /\ mutex_wq' = wait_queue_rest(mutex_wq)
        /\ popped' = [popped EXCEPT ![t] = ws]
        /\ pc' = [pc EXCEPT ![t] = place]
        /\ UNCHANGED << schedVars, condvar_wq, condition, saved >>
    BY DEF mutex_unlock, At, Goto
  <1>2. /\ mutex_wq' \in Seq(Threads) /\ IsInjective(mutex_wq')
        /\ owner' \in Threads \union {NULL} /\ (owner' = NULL <=> mutex_wq = << >>)
        /\ \A u \in Threads : Linked(mutex_wq, u) <=> u = owner' \/ Linked(mutex_wq', u)
        /\ \A u : Linked(mutex_wq', u) => u # owner' /\ owner' # NULL
        /\ owner' # NULL => pc[owner'] = "lock_wait" /\ owner' # t /\ ws = << owner' >>
        /\ \A u \in Threads : pc[u] = "lock_wait" => Linked(mutex_wq, u) \/ u = t
    BY <1>1, PassOn
  <1>3. mutex_wq = << >> => ws = << >>
    BY DEF wait_queue_remove
  <1>4. \A u \in Threads : popped[u] = << >>
    BY <1>1, CurrentFacts
  <1> HIDE DEF ws
  <1>5. \A u \in Threads : pc'[u] = IF u = t THEN place ELSE pc[u]
    BY <1>0, <1>1 DEF MonTypeOK
  <1>6. \A u \in Threads : popped'[u] = IF u = t THEN ws ELSE << >>
    BY <1>0, <1>1, <1>4 DEF MonTypeOK
  <1>7. NULL \notin Threads
    BY MonitorAssumption DEF AllThreads
  <1>8. MonTypeOK'
    <2>1. ws \in {<< >>} \union {<< u >> : u \in Threads}
      BY <1>2, <1>3
    <2>2. popped' \in [Threads -> {<< >>} \union {<< u >> : u \in Threads}]
      BY <1>0, <1>1, <2>1 DEF MonTypeOK
    <2>3. pc' \in [Threads -> PC]
      BY <1>0, <1>1 DEF MonTypeOK, PC
    <2> QED BY <1>0, <1>1, <1>2, <2>2, <2>3 DEF MonTypeOK
  <1>9. MutualExclusion'
    BY <1>1, <1>5 DEF MonInv, MutualExclusion, Holding
  <1>10. \A u \in Threads : InHand(u)' <=> u = owner'
    BY <1>2, <1>3, <1>6, <1>7 DEF InHand
  <1>11. \A u \in Threads : ~InHand(u)
    <2>1. \A u : << u >> # << >>
      OBVIOUS
    <2> QED BY <1>4, <2>1 DEF InHand
  <1>12. QueuesSound'
    <2>1. \A u \in Threads :
            state'[u] = "BLOCKED" <=> Linked(mutex_wq', u) \/ Linked(condvar_wq', u) \/ InHand(u)'
      BY <1>1, <1>2, <1>10, <1>11 DEF MonInv, QueuesSound, schedVars
    <2>2. \A u \in Threads : pc'[u] = "lock_wait" <=> pc[u] = "lock_wait"
      BY <1>1, <1>5
    <2>3. \A u \in Threads : Linked(condvar_wq', u) => pc'[u] = "cv_wait"
      BY <1>1, <1>5, CurrentFacts DEF MonInv, QueuesSound
    <2>4. \A u \in Threads : Linked(mutex_wq', u) => pc'[u] = "lock_wait" /\ owner' \notin {u, NULL}
      BY <1>2, <2>2 DEF MonInv, QueuesSound
    <2>5. \A u \in Threads : pc'[u] = "lock_wait" => Linked(mutex_wq', u) \/ owner' = u
      BY <1>1, <1>2, <2>2
    <2> QED BY <1>1, <1>2, <2>1, <2>3, <2>4, <2>5 DEF MonInv, QueuesSound
  <1>13. Transit'
    <2>1. owner' # NULL => pc'[owner'] \in Holding \union {"lock_wait"}
      BY <1>2, <1>5
    <2> QED BY <1>2, <1>3, <1>5, <1>6, <2>1 DEF Transit
  <1> QED BY <1>1, <1>8, <1>9, <1>12, <1>13 DEF Rest, schedVars

\* thread_unblock at the end of mutex_unlock wakes the owner it has in hand.
LEMMA UnlockWakeKeeps ==
  ASSUME MonInv, NEW t \in Threads, mutex_unlock_wake(t)
  PROVE  [SchedNext]_schedVars /\ Rest'
PROOF
  <1>0. MonTypeOK /\ SchedInv
    BY DEF MonInv
  <1>1. /\ current = t /\ pc[t] = "unlock_wake" /\ wait_queue_wake_all(popped[t])
        /\ popped' = [popped EXCEPT ![t] = << >>] /\ pc' = [pc EXCEPT ![t] = "run"]
        /\ UNCHANGED << owner, mutex_wq, condvar_wq, condition, saved >>
    BY DEF mutex_unlock_wake, At, Goto
  <1>2. /\ popped[t] \in WakeOrders
        /\ \A u \in Threads : Linked(popped[t], u) <=> popped[t] = << u >>
    <2>1. CASE popped[t] = << >>
      BY <2>1, EmptyWakeOrder
    <2>2. ASSUME NEW h \in Threads, popped[t] = << h >>
          PROVE  popped[t] \in WakeOrders /\ \A u \in Threads : Linked(popped[t], u) <=> popped[t] = << u >>
      <3>1. << h >> \in Seq(Threads) /\ IsInjective(<< h >>) /\ \A u : Linked(<< h >>, u) <=> u = h
        BY DEF IsInjective, Linked
      <3>2. state[h] = "BLOCKED"
        BY <2>2 DEF MonInv, QueuesSound, InHand
      <3>3. << h >> \in WakeOrders
        BY <3>1, <3>2, IsWakeOrder
      <3>4. \A u : << h >> = << u >> <=> h = u
        OBVIOUS
      <3> QED BY <2>2, <3>1, <3>3, <3>4
    <2> QED BY <2>1, <2>2, <1>0 DEF MonTypeOK
  <1>3. /\ [SchedNext]_schedVars
        /\ \A u \in Threads : state'[u] = "BLOCKED" <=> state[u] = "BLOCKED" /\ popped[t] # << u >>
    BY <1>0, <1>1, <1>2, ThreadsAssumption, WakeAllEffect
  <1>4. \A u \in Threads : pc'[u] = IF u = t THEN "run" ELSE pc[u]
    BY <1>0, <1>1 DEF MonTypeOK
  <1>5. \A u \in Threads : popped'[u] = IF u = t THEN << >> ELSE popped[u]
    BY <1>0, <1>1 DEF MonTypeOK
  <1>6. MonTypeOK'
    BY <1>0, <1>1 DEF MonTypeOK, PC
  <1>7. MutualExclusion'
    BY <1>1, <1>4 DEF MonInv, MutualExclusion, Holding
  <1>8. \A u \in Threads : InHand(u)' <=> InHand(u) /\ popped[t] # << u >>
    <2>1. ASSUME NEW u \in Threads, popped[t] = << u >> PROVE ~InHand(u)'
      <3>1. popped[t] # << >>
        BY <2>1
      <3>2. \A v \in Threads \ {t} : popped[v] = << >>
        BY <3>1 DEF MonInv, Transit
      <3> QED BY <1>5, <3>2 DEF InHand
    <2>2. ASSUME NEW u \in Threads, popped[t] # << u >> PROVE InHand(u)' <=> InHand(u)
      <3>1. << u >> # << >>
        OBVIOUS
      <3> QED BY <1>5, <2>2, <3>1 DEF InHand
    <2> QED BY <2>1, <2>2 DEF InHand
  <1>9. QueuesSound'
    <2>1. \A u \in Threads : popped[t] = << u >> => ~Linked(mutex_wq, u) /\ ~Linked(condvar_wq, u)
      <3>1. SUFFICES ASSUME NEW u \in Threads, popped[t] = << u >>
                     PROVE  ~Linked(mutex_wq, u) /\ ~Linked(condvar_wq, u)
        OBVIOUS
      <3>2. owner = u
        BY <3>1 DEF MonInv, Transit
      <3>3. pc[u] \in Holding \union {"lock_wait"}
        BY <3>2, MonitorAssumption DEF MonInv, Transit, AllThreads
      <3> QED BY <3>2, <3>3 DEF MonInv, QueuesSound, Holding
    <2> QED BY <1>1, <1>3, <1>4, <1>8, <2>1, CurrentFacts DEF MonInv, QueuesSound
  <1>10. Transit'
    BY <1>1, <1>4, <1>5 DEF MonInv, Transit, MonTypeOK, Holding
  <1> QED BY <1>3, <1>6, <1>7, <1>9, <1>10 DEF Rest

\* condvar_wait up to the context switch: the mutex is passed on, its new owner
\* woken, and the caller asleep in the other queue.
LEMMA CondvarWaitKeeps ==
  ASSUME MonInv, NEW t \in Threads, condvar_wait(t)
  PROVE  [SchedNext]_schedVars /\ Rest'
PROOF
  <1> DEFINE ws == wait_queue_remove(mutex_wq)
  <1>0. SchedInv /\ MonTypeOK /\ iflag[t] \in BOOLEAN /\ NULL \notin Threads
    BY MonitorAssumption DEF MonInv, SchedInv, SchedTypeOK, AllThreads
  <1>1. /\ current = t /\ pc[t] = "held" /\ owner = t /\ owner' = NextOwner
        /\ mutex_wq' = wait_queue_rest(mutex_wq)
        /\ condvar_wq' = wait_queue_add(condvar_wq, t)
        /\ saved' = [saved EXCEPT ![t] = iflag[t]]
        /\ wait_queue_sleep(ws) /\ pc' = [pc EXCEPT ![t] = "cv_wait"]
        /\ UNCHANGED << condition, popped >>
    BY DEF condvar_wait, At, Goto
  <1>2. /\ mutex_wq' \in Seq(Threads) /\ IsInjective(mutex_wq')
        /\ owner' \in Threads \union {NULL}
        /\ \A u \in Threads : Linked(mutex_wq, u) <=> u = owner' \/ Linked(mutex_wq', u)
        /\ \A u : Linked(mutex_wq', u) => u # owner' /\ owner' # NULL
        /\ \A u : Linked(ws, u) <=> u = owner' /\ owner' # NULL
        /\ owner' # NULL => pc[owner'] = "lock_wait" /\ owner' # t
        /\ \A u \in Threads : pc[u] = "lock_wait" => Linked(mutex_wq, u) \/ u = t
    BY <1>1, PassOn
  <1>3. ws \in WakeOrders
    BY QueueFacts
  <1> HIDE DEF ws
  <1>4. SchedNext /\ thread_block(ws)
    BY <1>0, <1>1, <1>3, SleepStep
  <1>5. Effect(ws, << "BLOCKED" >>)
    BY <1>0, <1>3, <1>4, BlockEffect
  <1>6. << "BLOCKED" >> # << >> /\ << "BLOCKED" >>[1] = "BLOCKED"
    OBVIOUS
  <1>7. \A u \in Threads : state'[u] = "BLOCKED" <=> u = t \/ (state[u] = "BLOCKED" /\ u # owner')
    BY <1>0, <1>1, <1>2, <1>5, <1>6 DEF Effect, Active
  <1>8. /\ ~Linked(mutex_wq, t) /\ ~Linked(condvar_wq, t) /\ ~InHand(t)
        /\ \A u \in Threads : popped[u] = << >>
    BY <1>1, CurrentFacts
  <1>9. /\ condvar_wq' \in Seq(Threads) /\ IsInjective(condvar_wq')
        /\ \A u : Linked(condvar_wq', u) <=> Linked(condvar_wq, u) \/ u = t
    BY <1>1, <1>8, QueueFacts, QueueAdd
  <1>10. \A u \in Threads : pc'[u] = IF u = t THEN "cv_wait" ELSE pc[u]
    BY <1>0, <1>1 DEF MonTypeOK
  <1>11. \A u \in Threads : ~InHand(u) /\ ~InHand(u)'
    <2>1. \A u : << u >> # << >>
      OBVIOUS
    <2> QED BY <1>1, <1>8, <2>1 DEF InHand
  <1>12. MonTypeOK'
    BY <1>0, <1>1, <1>2, <1>9 DEF MonTypeOK, PC
  <1>13. MutualExclusion'
    BY <1>1, <1>10 DEF MonInv, MutualExclusion, Holding
  <1>14. QueuesSound'
    <2>1. \A u \in Threads : Linked(mutex_wq', u) => pc'[u] = "lock_wait" /\ owner' \notin {u, NULL}
      BY <1>2, <1>8, <1>10 DEF MonInv, QueuesSound
    <2>2. \A u \in Threads : Linked(condvar_wq', u) => pc'[u] = "cv_wait"
      BY <1>9, <1>10 DEF MonInv, QueuesSound
    <2>3. \A u \in Threads : pc'[u] = "lock_wait" => Linked(mutex_wq', u) \/ owner' = u
      BY <1>2, <1>10
    <2>4. \A u \in Threads :
            state'[u] = "BLOCKED" <=> Linked(mutex_wq', u) \/ Linked(condvar_wq', u) \/ InHand(u)'
      <3>1. \A u \in Threads : Linked(condvar_wq, u) => u # owner'
        BY <1>2 DEF MonInv, QueuesSound
      <3> QED BY <1>2, <1>7, <1>8, <1>9, <1>11, <3>1 DEF MonInv, QueuesSound
    <2> QED BY <1>2, <1>9, <2>1, <2>2, <2>3, <2>4 DEF QueuesSound
  <1>15. Transit'
    <2>1. owner' # NULL => pc'[owner'] \in Holding \union {"lock_wait"}
      BY <1>2, <1>10
    <2> QED BY <1>1, <1>8, <2>1 DEF Transit
  <1> QED BY <1>4, <1>12, <1>13, <1>14, <1>15 DEF Rest

\* condvar_signal and condvar_broadcast: the front of the queue, or all of it,
\* leaves the queue and is woken.
LEMMA SignalKeeps ==
  ASSUME MonInv, NEW t \in Threads, condvar_signal(t) \/ condvar_broadcast(t)
  PROVE  [SchedNext]_schedVars /\ Rest'
PROOF
  <1> DEFINE place == IF pc[t] = "signal" THEN "done" ELSE "run"
  <1>0. SchedInv /\ MonTypeOK
    BY DEF MonInv
  <1>1. /\ current = t /\ pc[t] \in {"run", "signal"} /\ pc' = [pc EXCEPT ![t] = place]
        /\ UNCHANGED << owner, mutex_wq, condition, popped, saved >>
    BY DEF condvar_signal, condvar_broadcast, At, Goto
  <1>2. PICK ws \in WakeOrders :
          /\ wait_queue_wake_all(ws)
          /\ condvar_wq' \in Seq(Threads) /\ IsInjective(condvar_wq')
          /\ \A u : Linked(condvar_wq, u) <=> Linked(ws, u) \/ Linked(condvar_wq', u)
          /\ \A u : ~(Linked(ws, u) /\ Linked(condvar_wq', u))
    <2>1. CASE condvar_signal(t)
      <3>1. /\ wait_queue_wake_all(wait_queue_remove(condvar_wq))
            /\ condvar_wq' = wait_queue_rest(condvar_wq)
        BY <2>1 DEF condvar_signal, wait_queue_wake
      <3> QED BY <3>1, QueueFacts, QueueSplit
    <2>2. CASE condvar_broadcast(t)
      <3>1. wait_queue_wake_all(condvar_wq) /\ condvar_wq' = << >>
        BY <2>2 DEF condvar_broadcast
      <3>2. << >> \in Seq(Threads) /\ IsInjective(<< >>)
        BY EmptySeq DEF IsInjective
      <3> QED BY <3>1, <3>2, QueueFacts, EmptyWakeOrder
    <2> QED BY <2>1, <2>2
  <1>3. /\ [SchedNext]_schedVars
        /\ \A u \in Threads : state'[u] = "BLOCKED" <=> state[u] = "BLOCKED" /\ ~Linked(ws, u)
    BY <1>0, <1>1, <1>2, ThreadsAssumption, WakeAllEffect
  <1>4. \A u \in Threads : pc'[u] = IF u = t THEN place ELSE pc[u]
    BY <1>0, <1>1 DEF MonTypeOK
  <1>5. MonTypeOK'
    BY <1>0, <1>1, <1>2 DEF MonTypeOK, PC, Holding
  <1>6. MutualExclusion'
    BY <1>1, <1>4 DEF MonInv, MutualExclusion, Holding
  <1>7. QueuesSound'
    <2>1. \A u \in Threads : InHand(u)' <=> InHand(u)
      BY <1>1 DEF InHand
    <2>2. \A u \in Threads : Linked(ws, u) => ~Linked(mutex_wq, u) /\ ~InHand(u)
      <3>1. SUFFICES ASSUME NEW u \in Threads, Linked(ws, u) PROVE ~Linked(mutex_wq, u) /\ ~InHand(u)
        OBVIOUS
      <3>2. pc[u] = "cv_wait"
        BY <1>2, <3>1, QueueFacts
      <3>3. ~Linked(mutex_wq, u)
        BY <3>2 DEF MonInv, QueuesSound
      <3>4. owner # u
        BY <3>2, MonitorAssumption DEF MonInv, Transit, Holding, AllThreads
      <3>5. \A v : << v >> # << >> /\ (<< v >> = << u >> => v = u)
        OBVIOUS
      <3>6. ~InHand(u)
        BY <3>4, <3>5 DEF MonInv, Transit, InHand
      <3> QED BY <3>3, <3>6
    <2>3. ~Linked(mutex_wq, t) /\ ~Linked(condvar_wq, t)
      BY <1>1, CurrentFacts
    <2> HIDE DEF InHand
    <2>4. \A u \in Threads :
            state'[u] = "BLOCKED" <=> Linked(mutex_wq', u) \/ Linked(condvar_wq', u) \/ InHand(u)'
      BY <1>1, <1>2, <1>3, <2>1, <2>2 DEF MonInv, QueuesSound
    <2> QED BY <1>1, <1>2, <1>4, <2>3, <2>4 DEF MonInv, QueuesSound
  <1>8. Transit'
    <2>1. owner # NULL => pc'[owner] \in Holding \union {"lock_wait"}
      BY <1>0, <1>1, <1>4 DEF MonInv, Transit, MonTypeOK, Holding
    <2> QED BY <1>1, <1>4, <2>1 DEF MonInv, Transit
  <1> QED BY <1>3, <1>5, <1>6, <1>7, <1>8 DEF Rest

\* The steps after which the running thread has only moved on: a free mutex is
\* taken, wait_queue_sleep has returned, the clients' own code.
LEMMA MovesKeep ==
  ASSUME MonInv, NEW t \in Threads,
         \/ mutex_lock(t) /\ owner = NULL
         \/ mutex_lock_resume(t) \/ condvar_wait_resume(t) \/ Take(t) \/ Produce(t)
  PROVE  [SchedNext]_schedVars /\ Rest'
PROOF
  <1>0. /\ SchedInv /\ MonTypeOK /\ NULL \notin Threads /\ saved[t] \in BOOLEAN
        /\ Holding = {"held", "signal", "done"}
        /\ PC = Holding \union {"run", "lock_wait", "unlock_wake", "cv_wait", "relock"}
    BY MonitorAssumption DEF MonInv, MonTypeOK, AllThreads, Holding, PC
  <1>1. current = t /\ current # idle /\ ~Linked(mutex_wq, t)
    BY ThreadsAssumption, CurrentFacts DEF mutex_lock, mutex_lock_resume, condvar_wait_resume, Take, Produce, At
  <1>2. /\ UNCHANGED << mutex_wq, condvar_wq, popped >> /\ pc[t] # "unlock_wake"
        /\ pc[t] \in Holding => owner = t
        /\ owner = t => pc[t] \in Holding \union {"lock_wait"}
    BY <1>0 DEF MonInv, MutualExclusion, Transit, mutex_lock, mutex_lock_resume, condvar_wait_resume, Take, Produce, At
  <1>3. popped[t] = << >>
    BY <1>2 DEF MonInv, Transit
  <1>4. CASE mutex_lock(t) /\ owner = NULL
    <2>1. owner' = t /\ Goto(t, "held") /\ UNCHANGED << schedVars, condition, saved >>
      BY <1>4 DEF mutex_lock
    <2>2. MonTypeOK'
      BY <1>0, <1>2, <2>1 DEF MonTypeOK, Goto
    <2>3. Rest'
      BY <1>0, <1>1, <1>2, <1>3, <1>4, <2>1, <2>2, MoveKeeps DEF schedVars
    <2> QED BY <2>1, <2>3
  <1>5. CASE mutex_lock_resume(t) \/ condvar_wait_resume(t)
    <2>0. PICK place \in {"held", "relock"} :
            /\ Goto(t, place)
            /\ place = "held" <=> pc[t] = "lock_wait"
            /\ pc[t] \in {"lock_wait", "cv_wait"}
      BY <1>5 DEF mutex_lock_resume, condvar_wait_resume, At
    <2>1. /\ section_end(saved[t]) /\ saved' = [saved EXCEPT ![t] = TRUE]
          /\ UNCHANGED << owner, condition >>
      BY <1>5 DEF mutex_lock_resume, condvar_wait_resume
    <2>2. MonTypeOK'
      BY <1>0, <1>2, <2>0, <2>1 DEF MonTypeOK, Goto
    <2>3. [SchedNext]_schedVars
      BY <1>0, <1>1, <2>1, SectionEndStep
    <2>4. pc[t] = "lock_wait" => owner = t
      BY <1>1 DEF MonInv, QueuesSound
    <2>5. place \in Holding <=> owner = t
      BY <1>0, <1>2, <2>0, <2>4
    <2>6. state' = state
      BY <2>1 DEF section_end
    <2>7. Rest'
      BY <1>0, <1>1, <1>2, <1>3, <2>0, <2>1, <2>2, <2>5, <2>6, MoveKeeps
    <2> QED BY <2>3, <2>7
  <1>6. CASE Take(t) \/ Produce(t)
    <2>0. PICK place \in {"signal", "done"} : Goto(t, place)
      BY <1>6 DEF Take, Produce
    <2>1. /\ UNCHANGED << schedVars, owner, saved >> /\ condition' \in BOOLEAN /\ pc[t] = "held"
      BY <1>6 DEF Take, Produce, At
    <2>2. MonTypeOK'
      BY <1>0, <1>2, <2>0, <2>1 DEF MonTypeOK, Goto
    <2>3. Rest'
      BY <1>0, <1>1, <1>2, <1>3, <2>0, <2>1, <2>2, MoveKeeps DEF schedVars
    <2> QED BY <2>1, <2>3
  <1> QED BY <1>4, <1>5, <1>6

----------------------------------------------------------------------------
(* The invariant.                                                          *)

\* The invariant holds when the mutex and the condition variable are new.
LEMMA MonInitInv == MonInit => MonInv
PROOF
  <1> SUFFICES ASSUME MonInit PROVE MonInv
    OBVIOUS
  <1>1. SchedInv
    BY InitInv DEF MonInit
  <1>2. MonTypeOK
    BY EmptySeq DEF MonInit, MonTypeOK, PC
  <1>3. MutualExclusion
    BY DEF MonInit, MutualExclusion, Holding
  <1>4. QueuesSound
    <2>1. \A t \in Threads : state[t] = "UNUSED"
      BY ThreadsAssumption DEF MonInit, SchedInit, AllThreads
    <2>2. IsInjective(<< >>)
      BY EmptySeq DEF IsInjective
    <2>3. \A t : << t >> # << >>
      OBVIOUS
    <2>4. \A t \in Threads : ~InHand(t)
      BY <2>3 DEF MonInit, InHand
    <2> QED BY <2>1, <2>2, <2>4, EmptyWakeOrder DEF MonInit, QueuesSound
  <1>5. Transit
    BY DEF MonInit, Transit
  <1> QED BY <1>1, <1>2, <1>3, <1>4, <1>5 DEF MonInv

\* Every step is one of the scheduler or none, and keeps the invariant.
LEMMA MonStep ==
  ASSUME MonInv, [MonNext]_vars
  PROVE  [SchedNext]_schedVars /\ Rest'
PROOF
  <1>1. CASE Environment \/ DisableInterrupts \/ EnableInterrupts \/ \E t \in Threads : Exit(t)
    BY <1>1, OutsideStep, OutsideKeeps
  <1>2. ASSUME NEW t \in Threads, mutex_lock(t) PROVE [SchedNext]_schedVars /\ Rest'
    BY <1>2, LockSleeps, MovesKeep
  <1>3. ASSUME NEW t \in Threads, Proceed(t) \/ condvar_signal(t) \/ condvar_broadcast(t)
        PROVE  [SchedNext]_schedVars /\ Rest'
    BY <1>2, <1>3, MovesKeep, UnlockKeeps, UnlockWakeKeeps, CondvarWaitKeeps, SignalKeeps DEF Proceed
  <1>4. CASE UNCHANGED vars
    BY <1>4, OutsideKeeps DEF vars, schedVars
  <1> QED BY <1>1, <1>2, <1>3, <1>4 DEF MonNext

\* The invariant is inductive.
LEMMA MonStepInv == MonInv /\ [MonNext]_vars => MonInv'
PROOF
  <1> SUFFICES ASSUME MonInv, [MonNext]_vars PROVE MonInv'
    OBVIOUS
  <1>1. [SchedNext]_schedVars /\ Rest'
    BY MonStep
  <1>2. SchedInv'
    BY <1>1, StepInv DEF MonInv
  <1> QED BY <1>1, <1>2 DEF MonInv, Rest

\* The invariant holds in every reachable state.
THEOREM MonInvariance == MonSafety => []MonInv
PROOF
  BY MonInitInv, MonStepInv, PTL DEF MonSafety

\* The mutex, the condition variable and the clients keep their types.
THEOREM MonTypeCorrect == MonSafety => []MonTypeOK
PROOF
  <1>1. MonInv => MonTypeOK
    BY DEF MonInv
  <1> QED BY <1>1, MonInvariance, PTL

\* Whoever has returned from mutex_lock or condvar_wait owns the mutex, although
\* neither re-checks it: at most one thread is inside.
THEOREM MutualExclusionCorrect == MonSafety => []MutualExclusion
PROOF
  <1>1. MonInv => MutualExclusion
    BY DEF MonInv
  <1> QED BY <1>1, MonInvariance, PTL

\* No sleeper is out of reach of a wake-up, also between the two halves of
\* mutex_unlock.
THEOREM SleepersReachableCorrect == MonSafety => []SleepersReachable
PROOF
  <1>1. ASSUME MonInv PROVE SleepersReachable
    <2>1. /\ IsInjective(mutex_wq \o condvar_wq)
          /\ \A u : Linked(mutex_wq \o condvar_wq, u) <=> Linked(mutex_wq, u) \/ Linked(condvar_wq, u)
      <3>1. \A u : ~(Linked(mutex_wq, u) /\ Linked(condvar_wq, u))
        BY <1>1, QueueFacts
      <3> QED BY <1>1, <3>1, QueueFacts, ConcatDisjoint
    <2>2. \A t \in Threads :
            state[t] = "BLOCKED" <=> Linked(mutex_wq \o condvar_wq, t) \/ \E u \in Threads : popped[u] = << t >>
      BY <1>1, <2>1 DEF MonInv, QueuesSound, InHand
    <2>3. owner \in Threads \union {NULL}
      BY <1>1 DEF MonInv, MonTypeOK
    <2>4. ASSUME owner # NULL, pc[owner] \notin Holding
          PROVE  /\ pc[owner] = "lock_wait" /\ ~Linked(mutex_wq, owner)
                 /\ state[owner] = "BLOCKED" <=> \E u \in Threads : popped[u] = << owner >>
      <3>1. pc[owner] = "lock_wait" /\ ~Linked(mutex_wq, owner) /\ ~Linked(condvar_wq, owner)
        BY <1>1, <2>3, <2>4 DEF MonInv, Transit, QueuesSound
      <3> QED BY <2>1, <2>2, <2>3, <2>4, <3>1
    <2>5. ASSUME NEW u \in Threads, popped[u] # << >>
          PROVE  /\ pc[u] = "unlock_wake"
                 /\ popped[u] = << owner >> /\ state[owner] = "BLOCKED"
                 /\ \A v \in Threads \ {u} : popped[v] = << >>
      <3>1. /\ pc[u] = "unlock_wake" /\ popped[u] = << owner >>
            /\ \A v \in Threads \ {u} : popped[v] = << >>
        BY <1>1, <2>5 DEF MonInv, Transit
      <3>2. PICK w \in Threads : popped[u] = << w >>
        BY <1>1, <2>5 DEF MonInv, MonTypeOK
      <3>3. owner \in Threads
        BY <3>1, <3>2
      <3> QED BY <2>2, <3>1, <3>3
    <2> QED BY <2>1, <2>2, <2>4, <2>5 DEF SleepersReachable
  <1> QED BY <1>1, MonInvariance, PTL

----------------------------------------------------------------------------
(* Refinement.                                                             *)

\* Consumers and producers use the scheduler as SchedNext allows: what is proved
\* of the scheduler holds while they run, the ASSERTs of thread_unblock and
\* list_push_back included.
THEOREM MonitorIsClient == MonSafety => SchedSafety
PROOF
  <1>1. MonInit => SchedInit
    BY DEF MonInit
  <1>2. MonInv /\ [MonNext]_vars => [SchedNext]_schedVars
    BY MonStep
  <1> QED BY <1>1, <1>2, MonInvariance, PTL DEF MonSafety, SchedSafety

\* The phase of a thread in the abstract lock.
Phase == [t \in Threads |-> IF pc[t] \in Holding THEN "in"
                            ELSE IF pc[t] \in {"lock_wait", "relock"} THEN "trying"
                            ELSE "out"]

\* Each step is one of the abstract lock or none.
LEMMA LockStep ==
  ASSUME MonInv, [MonNext]_vars
  PROVE  [AbstractLock!LockNext]_Phase
PROOF
  <1>0. pc \in [Threads -> PC] /\ NULL \notin Threads
    BY MonitorAssumption DEF MonInv, MonTypeOK, AllThreads
  <1>1. ASSUME NEW t \in Threads, NEW place, Goto(t, place)
        PROVE  Phase' = [Phase EXCEPT ![t] = IF place \in Holding THEN "in"
                                             ELSE IF place \in {"lock_wait", "relock"} THEN "trying" ELSE "out"]
    BY <1>0, <1>1 DEF Goto, Phase
  <1>2. \A t \in Threads : Phase[t] = IF pc[t] \in Holding THEN "in"
                                      ELSE IF pc[t] \in {"lock_wait", "relock"} THEN "trying" ELSE "out"
    BY DEF Phase
  <1>3. ASSUME NEW t \in Threads, owner \in {NULL, t}, pc[t] \notin Holding, NEW place \in Holding, Goto(t, place)
        PROVE  AbstractLock!LockNext
    <2>1. \A u \in Threads : Phase[u] # "in"
      BY <1>0, <1>2, <1>3 DEF MonInv, MutualExclusion
    <2>2. Phase' = [Phase EXCEPT ![t] = "in"] /\ Phase[t] \in {"out", "trying"}
      BY <1>1, <1>2, <1>3
    <2>3. AbstractLock!Enter(t)
      BY <2>1, <2>2 DEF AbstractLock!Enter, Phase
    <2> QED BY <2>3 DEF AbstractLock!LockNext
  <1>4. ASSUME NEW t \in Threads, pc[t] \in Holding, NEW place, Goto(t, place),
               place \notin Holding \union {"lock_wait", "relock"}
        PROVE  AbstractLock!LockNext
    <2>1. Phase' = [Phase EXCEPT ![t] = "out"] /\ Phase[t] = "in"
      BY <1>1, <1>2, <1>4
    <2>2. AbstractLock!Exit(t)
      BY <2>1 DEF AbstractLock!Exit, Phase
    <2> QED BY <2>2 DEF AbstractLock!LockNext
  <1>5. ASSUME NEW t \in Threads, pc[t] \in {"run", "cv_wait"}, NEW place \in {"lock_wait", "relock"}, Goto(t, place)
        PROVE  AbstractLock!LockNext
    <2>1. Phase' = [Phase EXCEPT ![t] = "trying"] /\ Phase[t] = "out"
      BY <1>1, <1>2, <1>5 DEF Holding
    <2>2. AbstractLock!Try(t)
      BY <2>1 DEF AbstractLock!Try, Phase
    <2> QED BY <2>2 DEF AbstractLock!LockNext
  <1>6. ASSUME NEW t \in Threads, NEW place, Goto(t, place),
               \/ pc[t] \in Holding /\ place \in Holding
               \/ pc[t] = "relock" /\ place = "lock_wait"
               \/ pc[t] \in {"run", "unlock_wake"} /\ place = "run"
        PROVE  Phase' = Phase
    <2>1. Phase' = [Phase EXCEPT ![t] = Phase[t]]
      BY <1>1, <1>2, <1>6 DEF Holding
    <2> QED BY <2>1 DEF Phase
  <1>7. CASE Environment \/ DisableInterrupts \/ EnableInterrupts \/ UNCHANGED vars \/ \E t \in Threads : Exit(t)
    <2>1. pc' = pc
      BY <1>7 DEF Environment, DisableInterrupts, EnableInterrupts, Exit, vars, monVars
    <2> QED BY <2>1 DEF Phase
  <1>8. ASSUME NEW t \in Threads, mutex_lock(t) PROVE [AbstractLock!LockNext]_Phase
    <2>1. CASE owner = NULL
      BY <1>3, <1>8, <2>1 DEF mutex_lock, At, Holding
    <2>2. CASE owner # NULL
      BY <1>5, <1>6, <1>8, <2>2 DEF mutex_lock, At
    <2> QED BY <2>1, <2>2
  <1>9. ASSUME NEW t \in Threads, mutex_lock_resume(t) PROVE AbstractLock!LockNext
    <2>1. owner = t
      BY <1>9, CurrentFacts DEF mutex_lock_resume, At, MonInv, QueuesSound
    <2> QED BY <1>3, <1>9, <2>1 DEF mutex_lock_resume, At, Holding
  <1>10. ASSUME NEW t \in Threads, mutex_unlock(t) \/ condvar_wait(t) PROVE AbstractLock!LockNext
    BY <1>4, <1>10 DEF mutex_unlock, condvar_wait, At, Holding
  <1>11. ASSUME NEW t \in Threads, condvar_wait_resume(t) PROVE AbstractLock!LockNext
    BY <1>5, <1>11 DEF condvar_wait_resume, At
  <1>12. ASSUME NEW t \in Threads,
                mutex_unlock_wake(t) \/ condvar_signal(t) \/ condvar_broadcast(t) \/ Take(t) \/ Produce(t)
         PROVE  Phase' = Phase
    BY <1>6, <1>12 DEF mutex_unlock_wake, condvar_signal, condvar_broadcast, Take, Produce, At, Holding
  <1> QED BY <1>7, <1>8, <1>9, <1>10, <1>11, <1>12 DEF MonNext, Proceed

\* The mutex implements the safety part of the abstract lock: one client inside
\* at a time, and nobody gets in without having asked.
THEOREM MonitorRefinesLock == MonSafety => AbstractLock!LockSafety
PROOF
  <1>1. MonInit => AbstractLock!LockInit
    BY DEF MonInit, AbstractLock!LockInit, Holding
  <1>2. MonInv /\ [MonNext]_vars => [AbstractLock!LockNext]_Phase
    BY LockStep
  <1> QED BY <1>1, <1>2, MonInvariance, PTL DEF MonSafety, AbstractLock!LockSafety, Phase
============================================================================
