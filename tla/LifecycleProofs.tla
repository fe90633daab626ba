-------------------------- MODULE LifecycleProofs --------------------------
(***************************************************************************)
(* Threads and processes are freed once, after their last use, and only     *)
(* then, for any number of threads and processes and any assignment of the  *)
(* threads to the processes.                                               *)
(***************************************************************************)
EXTENDS Lifecycle, SchedulerProofs

(* What the life cycle needs to know of the scheduler's state: the threads   *)
(* that have been created, added, that have ended, and that are blocked.    *)
Born == {t \in Threads : state[t] # "UNUSED"}
Listed == {t \in Threads : Added(t)}
Ended == {t \in Threads : state[t] = "TERMINATED"}
Asleep == {t \in Threads : state[t] = "BLOCKED"}

\* process->threads of a process holds exactly its threads that have been added
\* and not been freed.
MembersKnown ==
  \A p \in Processes, t \in Threads :
    t \in threads[p] <=> process[t] = p /\ t \in Listed /\ t \notin destroyed

\* A process that has no thread yet is still in its maker's hands.  A thread that
\* has been created and not added is in the hands of its creator, who cannot end
\* before adding it, and who is a thread of the same process unless the new
\* thread is the only one the process ever had.
CreatorsStay ==
  /\ \A t \in Born : proc[process[t]] # "none"
  /\ \A p \in Processes : maker[p] # NULL =>
       proc[p] = "live" /\ \A t \in Threads : process[t] = p => t \notin Born
  /\ maker[process[reaper]] = NULL
  /\ \A t \in Born \ {reaper} : t \notin Listed =>
       /\ handle[t] \in AllThreads
       /\ handle[t] \in Threads => handle[t] \in Listed /\ handle[t] \notin Ended
       /\ \/ handle[t] \in Threads /\ process[handle[t]] = process[t]
          \/ \A u \in Threads \ {t} : process[u] = process[t] => u \notin Born

\* A detached thread belongs to the reaper alone; every zombie is one, and is in
\* the list once.
DetachedAlone ==
  /\ \A t \in Threads : detached[t] => handle[t] = NULL
  /\ \A t \in Threads \ {reaper} : detached[t] => t \in Born
  /\ IsInjective(zombie_list)
  /\ \A t \in Threads : Linked(zombie_list, t) => detached[t] /\ t \in Ended

\* A thread has at most one joiner, who alone knows it, and who is in its queue
\* until it ends.
JoinersAlone ==
  /\ \A c \in Threads : pc[c] = "join" <=> joined[c] # NULL
  /\ \A c, t \in Threads : joined[c] = t =>
       /\ handle[t] = NULL /\ ~detached[t] /\ t \in Listed
       /\ \A d \in Threads : joined[d] = t => d = c
  /\ \A t \in Threads : IsInjective(termination_queue[t])
  /\ \A c, t \in Threads : Linked(termination_queue[t], c) <=> joined[c] = t /\ t \notin Ended

\* The blocked threads are the reaper in its queue and the joiners whose thread
\* has not ended; the reaper itself never ends.
SleepersKnown ==
  /\ \A t \in Threads :
       t \in Asleep <=> \/ t = reaper /\ reaper_wq # << >>
                        \/ joined[t] # NULL /\ joined[t] \notin Ended
  /\ reaper_wq # << >> => pc[reaper] = "asleep"
  /\ pc[reaper] \in {"loop", "asleep", "drain"} /\ reaper \notin Ended
  /\ \A t \in Threads \ {reaper} : pc[t] \in {"run", "join"}

\* A freed thread has ended and is known to nobody.
FreedUnknown ==
  \A t \in destroyed :
    /\ t \in Ended /\ handle[t] = NULL /\ ~Linked(zombie_list, t)
    /\ \A c \in Threads : joined[c] # t

\* Every thread that has not been freed finds its process alive.
ProcessesLive == \A t \in Born \ destroyed : proc[process[t]] = "live"

\* So does the loaded address space.
SpaceLive == cr3 # kernel_dir => proc[cr3] = "live"

\* A detached thread that has ended is a zombie or freed.
ZombiesKept == \A t \in Ended : detached[t] => Linked(zombie_list, t) \/ t \in destroyed

LifeRest ==
  /\ LifeTypeOK /\ MembersKnown /\ CreatorsStay /\ DetachedAlone /\ JoinersAlone
  /\ SleepersKnown /\ FreedUnknown /\ ProcessesLive /\ SpaceLive /\ ZombiesKept

LifeInv == SchedInv /\ LifeRest

----------------------------------------------------------------------------
(* The four sets.                                                          *)

\* A thread has been added when it is in the ready list, or blocked, or ended.
ListedIs ==
  \A t \in Threads : t \in Listed <=> state[t] \in {"BLOCKED", "TERMINATED"} \/ Linked(ready_list, t)

\* In a state of the scheduler's invariant this is what Added says.
LEMMA ListedForm == SchedInv => ListedIs
PROOF
  <1> SUFFICES ASSUME SchedInv PROVE ListedIs
    OBVIOUS
  <1>1. \A t \in Threads : Linked(ready_list, t) => state[t] \in {"READY", "RUNNING"}
    BY DEF SchedInv, ReadyListSound, Linked
  <1>2. \A t \in Threads : state[t] = "RUNNING" => Linked(ready_list, t)
    BY ThreadsAssumption DEF SchedInv, OneRunning
  <1>3. \A t \in Threads : state[t] \in ThreadState
    BY DEF SchedInv, SchedTypeOK, AllThreads
  <1> QED BY <1>1, <1>2, <1>3 DEF ListedIs, Listed, Added, ThreadState

\* How the sets lie in each other, and where the running thread is.
LEMMA SetFacts ==
  ASSUME SchedInv
  PROVE  /\ Ended \subseteq Listed /\ Asleep \subseteq Listed /\ Listed \subseteq Born
         /\ Born \subseteq Threads /\ Ended \cap Asleep = {}
         /\ current \in Threads => /\ current # idle /\ current \in Listed
                                   /\ current \notin Ended /\ current \notin Asleep
         /\ \A t \in Ended : t # current /\ ~Linked(ready_list, t)
PROOF
  <1>1. \A t \in Threads : Linked(ready_list, t) => state[t] \in {"READY", "RUNNING"}
    BY DEF SchedInv, ReadyListSound, Linked
  <1>2. current \in Threads => state[current] = "RUNNING" /\ Linked(ready_list, current) /\ current # idle
    BY ThreadsAssumption DEF SchedInv, OneRunning
  <1>3. state[current] = "RUNNING"
    BY DEF SchedInv, OneRunning
  <1> QED BY <1>1, <1>2, <1>3, ListedForm DEF ListedIs, Born, Ended, Asleep, Listed, Added

\* Steps that wake ws and leave the current thread in x[1].
LEMMA SetsStep ==
  ASSUME SchedInv, SchedInv', NEW ws \in WakeOrders,
         NEW x \in {<< >>, << "BLOCKED" >>, << "TERMINATED" >>}, Effect(ws, x),
         x # << >> => current \in Threads,
         \A u : Linked(ready_list', u) <=> (Linked(ready_list, u) \/ Linked(ws, u)) /\ ~(x # << >> /\ u = current)
  PROVE  /\ Born' = Born /\ Listed' = Listed
         /\ Ended' = IF x = << "TERMINATED" >> THEN Ended \union {current} ELSE Ended
         /\ \A u \in Threads :
              u \in Asleep' <=> \/ u \in Asleep /\ ~Linked(ws, u)
                                \/ x = << "BLOCKED" >> /\ u = current
PROOF
  <1>1. \A u : Linked(ws, u) => u \in Threads /\ state[u] = "BLOCKED"
    BY WakeOrderProperties
  <1>2. \A u \in Threads : state[u] \in ThreadState /\ state'[u] \in ThreadState
    BY DEF SchedInv, SchedTypeOK, AllThreads
  <1>3. current \in Threads => state[current] = "RUNNING" /\ Linked(ready_list, current)
    BY ThreadsAssumption DEF SchedInv, OneRunning
  <1>4. \A u \in Threads : Linked(ready_list, u) => state[u] \in {"READY", "RUNNING"}
    BY DEF SchedInv, ReadyListSound, Linked
  <1>5. << "BLOCKED" >>[1] = "BLOCKED" /\ << "TERMINATED" >>[1] = "TERMINATED"
    OBVIOUS
  <1>6. << "BLOCKED" >> # << "TERMINATED" >> /\ << "BLOCKED" >> # << >> /\ << "TERMINATED" >> # << >>
    BY <1>5
  <1>7. ASSUME NEW u \in Threads
        PROVE  /\ state'[u] = "TERMINATED" <=> state[u] = "TERMINATED" \/ (x = << "TERMINATED" >> /\ u = current)
               /\ state'[u] = "BLOCKED" <=> \/ state[u] = "BLOCKED" /\ ~Linked(ws, u)
                                            \/ x = << "BLOCKED" >> /\ u = current
               /\ state'[u] = "UNUSED" <=> state[u] = "UNUSED"
    BY <1>1, <1>2, <1>3, <1>5, <1>6, <1>7 DEF Effect, Active, ThreadState
  <1>8. \A u \in Threads : u \in Listed' <=> u \in Listed
    <2>1. ListedIs /\ ListedIs'
      BY ListedForm, PTL
    <2> QED BY <1>1, <1>3, <1>6, <1>7, <2>1 DEF ListedIs
  <1>9. Listed' = Listed
    BY <1>8 DEF Listed
  <1> QED BY <1>7, <1>9 DEF Born, Ended, Asleep

SetsSame == Born' = Born /\ Listed' = Listed /\ Ended' = Ended /\ Asleep' = Asleep

\* Ticks, yields and steps outside the scheduler change none of the sets.
LEMMA QuietSets ==
  ASSUME SchedInv, SchedInv', scheduler_tick \/ thread_yield \/ UNCHANGED << ready_list, state >>
  PROVE  SetsSame
PROOF
  <1>1. CASE UNCHANGED << ready_list, state >>
    BY <1>1 DEF SetsSame, Born, Listed, Added, Ended, Asleep
  <1>2. CASE scheduler_tick \/ thread_yield
    <2>1. Effect(<< >>, << >>) /\ ready_list' = ready_list
      BY <1>2, YieldEffect
    <2>2. /\ Born' = Born /\ Listed' = Listed
          /\ Ended' = IF << >> = << "TERMINATED" >> THEN Ended \union {current} ELSE Ended
          /\ \A u \in Threads :
               u \in Asleep' <=> \/ u \in Asleep /\ ~Linked(<< >>, u)
                                 \/ << >> = << "BLOCKED" >> /\ u = current
      BY <2>1, SetsStep, EmptyWakeOrder
    <2>3. << >> # << "TERMINATED" >> /\ << >> # << "BLOCKED" >>
      OBVIOUS
    <2>4. Asleep \subseteq Threads /\ Asleep' \subseteq Threads
      BY DEF Asleep
    <2> QED BY <2>2, <2>3, <2>4, EmptyWakeOrder DEF SetsSame
  <1> QED BY <1>1, <1>2

\* wait_queue_sleep puts the current thread to sleep.
LEMMA SleepSets ==
  ASSUME SchedInv, SchedInv', wait_queue_sleep(<< >>)
  PROVE  Born' = Born /\ Listed' = Listed /\ Ended' = Ended /\ Asleep' = Asleep \union {current}
PROOF
  <1> DEFINE x == << "BLOCKED" >>
  <1>0. thread_block(<< >>) /\ x # << >> /\ x # << "TERMINATED" >>
    <2>1. x[1] = "BLOCKED" /\ << "TERMINATED" >>[1] = "TERMINATED"
      OBVIOUS
    <2> QED BY <2>1 DEF wait_queue_sleep
  <1>1. /\ Effect(<< >>, x) /\ current \in Threads
        /\ \A u : Linked(ready_list', u) <=> (Linked(ready_list, u) \/ Linked(<< >>, u)) /\ u # current
    BY <1>0, BlockEffect, EmptyWakeOrder
  <1>2. x \in {<< >>, << "BLOCKED" >>, << "TERMINATED" >>}
    OBVIOUS
  <1> HIDE DEF x
  <1>3. /\ Born' = Born /\ Listed' = Listed
        /\ Ended' = IF x = << "TERMINATED" >> THEN Ended \union {current} ELSE Ended
        /\ \A u \in Threads :
             u \in Asleep' <=> \/ u \in Asleep /\ ~Linked(<< >>, u)
                               \/ x = << "BLOCKED" >> /\ u = current
    BY <1>0, <1>1, <1>2, SetsStep, EmptyWakeOrder
  <1>4. Asleep \subseteq Threads /\ Asleep' \subseteq Threads
    BY DEF Asleep
  <1> QED BY <1>0, <1>1, <1>3, <1>4, EmptyWakeOrder DEF x

\* thread_kill_current ends the current thread and wakes ws.
LEMMA KillSets ==
  ASSUME SchedInv, SchedInv', NEW ws \in WakeOrders, thread_kill_current(ws)
  PROVE  /\ current \in Threads
         /\ Born' = Born /\ Listed' = Listed /\ Ended' = Ended \union {current}
         /\ \A u \in Threads : u \in Asleep' <=> u \in Asleep /\ ~Linked(ws, u)
PROOF
  <1> DEFINE x == << "TERMINATED" >>
  <1>0. x # << >> /\ x # << "BLOCKED" >>
    <2>1. x[1] = "TERMINATED" /\ << "BLOCKED" >>[1] = "BLOCKED"
      OBVIOUS
    <2> QED BY <2>1
  <1>1. /\ Effect(ws, x) /\ current \in Threads
        /\ \A u : Linked(ready_list', u) <=> (Linked(ready_list, u) \/ Linked(ws, u)) /\ u # current
    BY KillEffect
  <1>2. x \in {<< >>, << "BLOCKED" >>, << "TERMINATED" >>}
    OBVIOUS
  <1> HIDE DEF x
  <1>3. /\ Born' = Born /\ Listed' = Listed
        /\ Ended' = IF x = << "TERMINATED" >> THEN Ended \union {current} ELSE Ended
        /\ \A u \in Threads :
             u \in Asleep' <=> \/ u \in Asleep /\ ~Linked(ws, u)
                               \/ x = << "BLOCKED" >> /\ u = current
    BY <1>0, <1>1, <1>2, SetsStep
  <1> QED BY <1>0, <1>1, <1>3 DEF x

\* thread_unblock wakes ws.
LEMMA WakeSets ==
  ASSUME SchedInv, SchedInv', NEW ws \in WakeOrders, wait_queue_wake_all(ws)
  PROVE  /\ Born' = Born /\ Listed' = Listed /\ Ended' = Ended
         /\ \A u \in Threads : u \in Asleep' <=> u \in Asleep /\ ~Linked(ws, u)
PROOF
  <1>1. CASE ws = << >>
    <2>1. SetsSame
      BY <1>1, QuietSets DEF wait_queue_wake_all, schedVars
    <2> QED BY <1>1, <2>1, EmptyWakeOrder DEF SetsSame
  <1>2. CASE ws # << >>
    <2>1. /\ Effect(ws, << >>)
          /\ \A u : Linked(ready_list', u) <=> Linked(ready_list, u) \/ Linked(ws, u)
      BY <1>2, WakeEffect DEF wait_queue_wake_all
    <2>2. /\ Born' = Born /\ Listed' = Listed
          /\ Ended' = IF << >> = << "TERMINATED" >> THEN Ended \union {current} ELSE Ended
          /\ \A u \in Threads :
               u \in Asleep' <=> \/ u \in Asleep /\ ~Linked(ws, u)
                                 \/ << >> = << "BLOCKED" >> /\ u = current
      BY <2>1, SetsStep
    <2>3. << >> # << "TERMINATED" >> /\ << >> # << "BLOCKED" >>
      OBVIOUS
    <2> QED BY <2>2, <2>3
  <1> QED BY <1>1, <1>2

\* The loaded address space changes only to that of the thread dispatched.
LEMMA SpaceStep ==
  ASSUME SchedInv, SchedInv', [SchedNext]_schedVars
  PROVE  cr3' = cr3 \/ (current' \in Threads /\ cr3' = process[current'])
PROOF
  <1>1. current' \in AllThreads
    BY DEF SchedInv, SchedTypeOK
  <1>2. ASSUME NEW rl, NEW st, scheduler_switch(rl, st)
        PROVE  cr3' = cr3 \/ (current' \in Threads /\ cr3' = process[current'])
    BY <1>1, <1>2 DEF scheduler_switch, paging_load_directory, AllThreads
  <1>3. CASE UNCHANGED cr3
    BY <1>3
  <1>4. CASE thread_yield \/ scheduler_tick
    BY <1>2, <1>4 DEF thread_yield, scheduler_tick
  <1>5. ASSUME NEW ws, block_section(ws) \/ thread_kill_current(ws)
        PROVE  cr3' = cr3 \/ (current' \in Threads /\ cr3' = process[current'])
    BY <1>2, <1>5 DEF block_section, thread_block, thread_kill_current
  <1>6. ASSUME NEW ws, wake_section(ws) PROVE cr3' = cr3
    BY <1>6 DEF wake_section, thread_unblock
  <1>7. ASSUME NEW t, thread_create(t) \/ thread_add(t) PROVE cr3' = cr3
    BY <1>7 DEF thread_create, thread_add
  <1>8. ASSUME scheduler_enter_idle \/ interrupt_save \/ interrupt_restore PROVE cr3' = cr3
    BY <1>8 DEF scheduler_enter_idle, interrupt_save, interrupt_restore
  <1> QED BY <1>3, <1>4, <1>5, <1>6, <1>7, <1>8 DEF SchedNext, schedVars

\* The loaded address space stays alive when no process ends, or while a thread
\* runs that is not freed.
LEMMA SpaceKept ==
  ASSUME LifeInv, SchedInv', [SchedNext]_schedVars, ProcessesLive', FreedUnknown',
         proc' \in [Processes -> {"none", "live", "destroyed"}],
         (\A p \in Processes : proc[p] = "live" => proc'[p] = "live") \/ current' \in Threads
  PROVE  SpaceLive'
PROOF
  <1>1. current' \in Threads => /\ cr3' = process[current']
                                /\ current' \in Born' /\ current' \notin Ended'
    <2>1. ASSUME current' \in Threads PROVE state'[current'] = "RUNNING" /\ cr3' = process[current']
      BY <2>1, ThreadsAssumption DEF SchedInv, OneRunning, ContextLoaded
    <2> QED BY <2>1 DEF Born, Ended
  <1>2. CASE current' \in Threads
    BY <1>1, <1>2 DEF ProcessesLive, FreedUnknown, SpaceLive
  <1>3. CASE current' \notin Threads
    <2>1. cr3' = cr3 /\ cr3 \in Processes \union {kernel_dir}
      BY <1>3, SpaceStep DEF LifeInv, SchedInv, SchedTypeOK
    <2> QED BY <1>3, <2>1 DEF LifeInv, LifeRest, SpaceLive
  <1> QED BY <1>2, <1>3

----------------------------------------------------------------------------
(* Each action.                                                            *)

\* What the actions use of the constants and of the invariant.
LEMMA LifeFacts ==
  ASSUME LifeInv
  PROVE  /\ reaper \in Threads /\ NULL \notin Threads /\ idle \notin Threads /\ NULL # idle
         /\ process \in [Threads -> Processes]
         /\ \A t \in Threads : process[t] = process[reaper] => t = reaper
         /\ AllThreads = Threads \union {idle}
         /\ SchedInv /\ LifeTypeOK
PROOF
  BY ThreadsAssumption, ProcessAssumption, LifecycleAssumption DEF AllThreads, LifeInv, LifeRest

\* Ticks, yields, the end of the boot.
LEMMA OutsideKeeps ==
  ASSUME LifeInv, Environment \/ UNCHANGED vars
  PROVE  [SchedNext]_schedVars /\ LifeRest'
PROOF
  <1>1. [SchedNext]_schedVars /\ UNCHANGED lifeVars
    BY DEF Environment, SchedNext, vars
  <1>2. SchedInv'
    BY <1>1, StepInv DEF LifeInv
  <1>3. SetsSame
    BY <1>2, QuietSets DEF LifeInv, Environment, scheduler_enter_idle, vars, schedVars
  <1>4. /\ LifeTypeOK' /\ MembersKnown' /\ CreatorsStay' /\ DetachedAlone' /\ JoinersAlone'
        /\ SleepersKnown' /\ FreedUnknown' /\ ProcessesLive' /\ ZombiesKept'
    BY <1>1, <1>3
       DEF SetsSame, lifeVars, LifeInv, LifeRest, LifeTypeOK, MembersKnown, CreatorsStay, DetachedAlone,
           JoinersAlone, SleepersKnown, FreedUnknown, ProcessesLive, ZombiesKept
  <1>5. SpaceLive'
    BY <1>1, <1>2, <1>4, SpaceKept DEF lifeVars, LifeTypeOK
  <1> QED BY <1>1, <1>4, <1>5 DEF LifeRest

\* process_create: a process without threads.
LEMMA ProcessCreateKeeps ==
  ASSUME LifeInv, NEW p \in Processes, process_create(p)
  PROVE  [SchedNext]_schedVars /\ LifeRest'
PROOF
  <1>0. /\ reaper \in Threads /\ process \in [Threads -> Processes] /\ LifeTypeOK
        /\ SchedInv /\ current \in AllThreads /\ Born \subseteq Threads
    BY LifeFacts, SetFacts DEF SchedInv, SchedTypeOK
  <1>1. /\ proc[p] = "none" /\ proc' = [proc EXCEPT ![p] = "live"]
        /\ maker' = [maker EXCEPT ![p] = current]
        /\ UNCHANGED << schedVars, threads, handle, detached, destroyed, termination_queue,
                        zombie_list, reaper_wq, pc, joined >>
    BY DEF process_create
  <1>2. SchedInv'
    BY <1>0, <1>1, StepInv
  <1>3. SetsSame
    BY <1>0, <1>1, <1>2, QuietSets DEF schedVars
  <1>4. \A t \in Threads : process[t] = p => t \notin Born
    BY <1>0, <1>1 DEF LifeInv, LifeRest, CreatorsStay
  <1>5. /\ \A q \in Processes : proc'[q] = IF q = p THEN "live" ELSE proc[q]
        /\ \A q \in Processes : maker'[q] = IF q = p THEN current ELSE maker[q]
    BY <1>0, <1>1 DEF LifeTypeOK
  <1>6. LifeTypeOK'
    BY <1>0, <1>1 DEF LifeTypeOK
  <1>7. CreatorsStay'
    <2>1. reaper \in Born
      BY <1>0 DEF process_create, ReaperStarted, Added, Born
    <2> QED BY <1>0, <1>1, <1>3, <1>4, <1>5, <2>1 DEF SetsSame, LifeInv, LifeRest, CreatorsStay
  <1>8. /\ MembersKnown' /\ DetachedAlone' /\ JoinersAlone' /\ SleepersKnown' /\ FreedUnknown' /\ ZombiesKept'
    BY <1>1, <1>3
       DEF SetsSame, LifeInv, LifeRest, MembersKnown, DetachedAlone,
           JoinersAlone, SleepersKnown, FreedUnknown, ZombiesKept
  <1>9. ProcessesLive'
    BY <1>0, <1>1, <1>3, <1>5 DEF SetsSame, LifeInv, LifeRest, ProcessesLive
  <1>10. SpaceLive'
    BY <1>1, <1>2, <1>5, <1>6, <1>8, <1>9, SpaceKept DEF LifeTypeOK
  <1> QED BY <1>1, <1>6, <1>7, <1>8, <1>9, <1>10 DEF LifeRest

\* thread_create and thread_add in terms of the sets.
LEMMA CreateSets ==
  ASSUME SchedInv, SchedInv', NEW t \in Threads, thread_create(t)
  PROVE  /\ t \notin Born /\ Born' = Born \union {t} /\ Listed' = Listed /\ Ended' = Ended /\ Asleep' = Asleep
PROOF
  <1>1. /\ state[t] = "UNUSED" /\ ready_list' = ready_list
        /\ \A u \in Threads : state'[u] = IF u = t THEN "READY" ELSE state[u]
    BY DEF thread_create, SchedInv, SchedTypeOK, AllThreads
  <1>2. ~Linked(ready_list, t)
    BY <1>1 DEF SchedInv, ReadyListSound, Linked
  <1> QED BY <1>1, <1>2 DEF Born, Listed, Added, Ended, Asleep

\* thread_add puts the thread in the ready list.
LEMMA AddSets ==
  ASSUME SchedInv, NEW t \in Threads, thread_add(t)
  PROVE  /\ t \in Born /\ t \notin Listed /\ t \notin Ended /\ Listed' = Listed \union {t}
         /\ Born' = Born /\ Ended' = Ended /\ Asleep' = Asleep
PROOF
  <1>1. /\ state[t] = "READY" /\ ~Linked(ready_list, t) /\ state' = state
        /\ ready_list \in Seq(Threads) /\ IsInjective(ready_list)
        /\ ready_list' = wait_queue_add(ready_list, t)
    BY DEF thread_add, scheduler_add, wait_queue_add, SchedInv, SchedTypeOK, ReadyListSound
  <1>2. \A u : Linked(ready_list', u) <=> Linked(ready_list, u) \/ u = t
    BY <1>1, QueueAdd
  <1> QED BY <1>1, <1>2 DEF Born, Listed, Added, Ended, Asleep

\* reaper_init: the reaper and its process.
LEMMA ReaperInitKeeps ==
  ASSUME LifeInv, reaper_init
  PROVE  [SchedNext]_schedVars /\ LifeRest'
PROOF
  <1>0. /\ reaper \in Threads /\ process \in [Threads -> Processes] /\ LifeTypeOK
        /\ SchedInv /\ Born \subseteq Threads /\ Listed \subseteq Born /\ Ended \subseteq Listed
        /\ \A t \in Threads : process[t] = process[reaper] => t = reaper
    BY LifeFacts, SetFacts
  <1>1. UNCHANGED << maker, handle, detached, destroyed, termination_queue, zombie_list, reaper_wq, pc, joined >>
    BY DEF reaper_init
  <1>2. CASE thread_create(reaper) /\ proc' = [proc EXCEPT ![process[reaper]] = "live"] /\ UNCHANGED threads
    <2>1. SchedNext
      BY <1>0, <1>2 DEF SchedNext
    <2>2. SchedInv'
      BY <1>0, <2>1, StepInv
    <2>3. /\ reaper \notin Born /\ Born' = Born \union {reaper} /\ Listed' = Listed
          /\ Ended' = Ended /\ Asleep' = Asleep
      BY <1>0, <1>2, <2>2, CreateSets
    <2>4. \A q \in Processes : proc'[q] = IF q = process[reaper] THEN "live" ELSE proc[q]
      BY <1>0, <1>2 DEF LifeTypeOK
    <2>5. maker[process[reaper]] = NULL
      BY DEF LifeInv, LifeRest, CreatorsStay
    <2>6. LifeTypeOK'
      BY <1>0, <1>1, <1>2 DEF LifeTypeOK
    <2>7. CreatorsStay'
      BY <1>0, <1>1, <2>3, <2>4, <2>5 DEF LifeInv, LifeRest, CreatorsStay
    <2>8. /\ MembersKnown' /\ DetachedAlone' /\ JoinersAlone' /\ SleepersKnown' /\ FreedUnknown' /\ ZombiesKept'
      BY <1>1, <1>2, <2>3
         DEF LifeInv, LifeRest, MembersKnown, DetachedAlone,
             JoinersAlone, SleepersKnown, FreedUnknown, ZombiesKept
    <2>9. ProcessesLive'
      BY <1>0, <1>1, <2>3, <2>4 DEF LifeInv, LifeRest, ProcessesLive
    <2>10. SpaceLive'
      BY <2>1, <2>2, <2>4, <2>6, <2>8, <2>9, SpaceKept DEF LifeTypeOK
    <2> QED BY <2>1, <2>6, <2>7, <2>8, <2>9, <2>10 DEF LifeRest
  <1>3. CASE /\ thread_add(reaper) /\ UNCHANGED proc
             /\ threads' = [threads EXCEPT ![process[reaper]] = @ \union {reaper}]
    <2>1. SchedNext
      BY <1>0, <1>3 DEF SchedNext
    <2>2. SchedInv'
      BY <1>0, <2>1, StepInv
    <2>3. /\ reaper \in Born /\ reaper \notin Ended /\ Listed' = Listed \union {reaper}
          /\ Born' = Born /\ Ended' = Ended /\ Asleep' = Asleep
      BY <1>0, <1>3, AddSets
    <2>4. \A q \in Processes : threads'[q] = IF q = process[reaper] THEN threads[q] \union {reaper} ELSE threads[q]
      BY <1>0, <1>3 DEF LifeTypeOK
    <2>5. LifeTypeOK'
      BY <1>0, <1>1, <1>3, <2>4 DEF LifeTypeOK
    <2>6. MembersKnown'
      <3>1. reaper \notin destroyed
        BY <2>3 DEF LifeInv, LifeRest, FreedUnknown
      <3>2. ASSUME NEW q \in Processes, NEW u \in Threads
            PROVE  u \in threads'[q] <=> process[u] = q /\ u \in Listed' /\ u \notin destroyed'
        <4>1. u \in threads[q] <=> process[u] = q /\ u \in Listed /\ u \notin destroyed
          BY DEF LifeInv, LifeRest, MembersKnown
        <4>2. u \in threads'[q] <=> u \in threads[q] \/ (q = process[reaper] /\ u = reaper)
          BY <2>4
        <4>3. destroyed' = destroyed
          BY <1>1
        <4> QED BY <2>3, <3>1, <4>1, <4>2, <4>3
      <3> QED BY <3>2 DEF MembersKnown
    <2>7. /\ CreatorsStay' /\ DetachedAlone' /\ JoinersAlone' /\ SleepersKnown' /\ FreedUnknown'
          /\ ProcessesLive' /\ ZombiesKept'
      BY <1>0, <1>1, <1>3, <2>3
         DEF LifeInv, LifeRest, CreatorsStay, DetachedAlone,
             JoinersAlone, SleepersKnown, FreedUnknown, ProcessesLive, ZombiesKept
    <2>8. SpaceLive'
      BY <1>3, <2>1, <2>2, <2>5, <2>7, SpaceKept DEF LifeTypeOK
    <2> QED BY <2>1, <2>5, <2>6, <2>7, <2>8 DEF LifeRest
  <1> QED BY <1>2, <1>3 DEF reaper_init

\* thread_create by a client.
LEMMA CreateKeeps ==
  ASSUME LifeInv, NEW t \in Threads \ {reaper}, create(t)
  PROVE  [SchedNext]_schedVars /\ LifeRest'
PROOF
  <1>0. /\ reaper \in Threads /\ process \in [Threads -> Processes] /\ LifeTypeOK
        /\ SchedInv /\ Born \subseteq Threads /\ Listed \subseteq Born /\ Ended \subseteq Listed
        /\ NULL \notin Threads /\ NULL # idle /\ current \in AllThreads /\ idle \notin Threads
        /\ AllThreads = Threads \union {idle}
        /\ current \in Threads => current \in Listed /\ current \notin Ended
    BY LifeFacts, SetFacts DEF SchedInv, SchedTypeOK
  <1>1. /\ (current # idle /\ process[current] = process[t]) \/ maker[process[t]] = current
        /\ thread_create(t)
        /\ maker' = [maker EXCEPT ![process[t]] = NULL]
        /\ handle' = [handle EXCEPT ![t] = current]
        /\ UNCHANGED << threads, proc, detached, destroyed, termination_queue, zombie_list,
                        reaper_wq, pc, joined >>
    BY DEF create
  <1>2. SchedNext
    BY <1>1 DEF SchedNext
  <1>3. SchedInv'
    BY <1>0, <1>2, StepInv
  <1>4. t \notin Born /\ Born' = Born \union {t} /\ Listed' = Listed /\ Ended' = Ended /\ Asleep' = Asleep
    BY <1>0, <1>1, <1>3, CreateSets
  <1>5. /\ \A q \in Processes : maker'[q] = IF q = process[t] THEN NULL ELSE maker[q]
        /\ \A u \in Threads : handle'[u] = IF u = t THEN current ELSE handle[u]
    BY <1>0, <1>1 DEF LifeTypeOK
  <1>6. LifeTypeOK'
    BY <1>0, <1>1 DEF LifeTypeOK
  <1>7. proc[process[t]] = "live"
    <2>1. CASE maker[process[t]] = current
      BY <1>0, <2>1 DEF LifeInv, LifeRest, CreatorsStay
    <2>2. CASE current # idle /\ process[current] = process[t]
      BY <1>0, <2>2 DEF LifeInv, LifeRest, ProcessesLive, FreedUnknown
    <2> QED BY <1>1, <2>1, <2>2
  <1>8. CreatorsStay'
    <2>1. \A u \in Born' : proc'[process[u]] # "none"
      BY <1>0, <1>1, <1>4, <1>7 DEF LifeInv, LifeRest, CreatorsStay
    <2>2. \A q \in Processes : maker'[q] # NULL =>
            proc'[q] = "live" /\ \A u \in Threads : process[u] = q => u \notin Born'
      BY <1>0, <1>1, <1>4, <1>5 DEF LifeInv, LifeRest, CreatorsStay
    <2>3. /\ handle'[t] \in AllThreads
          /\ handle'[t] \in Threads => handle'[t] \in Listed' /\ handle'[t] \notin Ended'
          /\ \/ handle'[t] \in Threads /\ process[handle'[t]] = process[t]
             \/ \A u \in Threads \ {t} : process[u] = process[t] => u \notin Born'
      <3>1. CASE current # idle /\ process[current] = process[t]
        BY <1>0, <1>4, <1>5, <3>1
      <3>2. CASE maker[process[t]] = current
        BY <1>0, <1>4, <1>5, <3>2 DEF LifeInv, LifeRest, CreatorsStay
      <3> QED BY <1>1, <3>1, <3>2
    <2>4. ASSUME NEW u \in Born \ {reaper}, u \notin Listed
          PROVE  /\ handle'[u] \in AllThreads
                 /\ handle'[u] \in Threads => handle'[u] \in Listed' /\ handle'[u] \notin Ended'
                 /\ \/ handle'[u] \in Threads /\ process[handle'[u]] = process[u]
                    \/ \A v \in Threads \ {u} : process[v] = process[u] => v \notin Born'
      <3>1. handle'[u] = handle[u] /\ u # t
        BY <1>0, <1>4, <1>5, <2>4
      <3>2. ASSUME process[u] = process[t], \A v \in Threads \ {u} : process[v] = process[u] => v \notin Born
            PROVE  FALSE
        \* Nobody but a thread of the process itself could create t, and u is
        \* the only one and does not run yet.
        <4>1. maker[process[t]] = NULL
          BY <1>0, <2>4, <3>2 DEF LifeInv, LifeRest, CreatorsStay
        <4>2. current \in Threads /\ process[current] = process[u]
          BY <1>0, <1>1, <3>2, <4>1
        <4> QED BY <1>0, <2>4, <3>2, <4>2
      <3> QED BY <1>0, <1>4, <2>4, <3>1, <3>2 DEF LifeInv, LifeRest, CreatorsStay
    <2>5. maker'[process[reaper]] = NULL
      BY <1>0, <1>5 DEF LifeInv, LifeRest, CreatorsStay
    <2> QED BY <1>4, <2>1, <2>2, <2>3, <2>4, <2>5 DEF CreatorsStay
  <1>9. MembersKnown' /\ SleepersKnown' /\ ZombiesKept'
    BY <1>1, <1>4 DEF LifeInv, LifeRest, MembersKnown, SleepersKnown, ZombiesKept
  <1>10. DetachedAlone'
    BY <1>0, <1>1, <1>4, <1>5 DEF LifeInv, LifeRest, DetachedAlone
  <1>11. JoinersAlone'
    BY <1>0, <1>1, <1>4, <1>5 DEF LifeInv, LifeRest, JoinersAlone
  <1>12. FreedUnknown'
    BY <1>0, <1>1, <1>4, <1>5 DEF LifeInv, LifeRest, FreedUnknown
  <1>13. ProcessesLive'
    BY <1>0, <1>1, <1>4, <1>7 DEF LifeInv, LifeRest, ProcessesLive
  <1>14. SpaceLive'
    BY <1>1, <1>2, <1>3, <1>6, <1>12, <1>13, SpaceKept DEF LifeTypeOK
  <1> QED BY <1>2, <1>6, <1>8, <1>9, <1>10, <1>11, <1>12, <1>13, <1>14 DEF LifeRest

\* thread_add by the creator.
LEMMA AddKeeps ==
  ASSUME LifeInv, NEW t \in Threads \ {reaper}, add(t)
  PROVE  [SchedNext]_schedVars /\ LifeRest'
PROOF
  <1>0. /\ reaper \in Threads /\ process \in [Threads -> Processes] /\ LifeTypeOK
        /\ SchedInv /\ Born \subseteq Threads /\ Listed \subseteq Born /\ Ended \subseteq Listed
    BY LifeFacts, SetFacts
  <1>1. /\ thread_add(t)
        /\ threads' = [threads EXCEPT ![process[t]] = @ \union {t}]
        /\ UNCHANGED << proc, maker, handle, detached, destroyed, termination_queue, zombie_list,
                        reaper_wq, pc, joined >>
    BY DEF add
  <1>2. SchedNext
    BY <1>1 DEF SchedNext
  <1>3. SchedInv'
    BY <1>0, <1>2, StepInv
  <1>4. /\ t \in Born /\ t \notin Ended /\ Listed' = Listed \union {t}
        /\ Born' = Born /\ Ended' = Ended /\ Asleep' = Asleep
    BY <1>0, <1>1, AddSets
  <1>5. \A q \in Processes : threads'[q] = IF q = process[t] THEN threads[q] \union {t} ELSE threads[q]
    BY <1>0, <1>1 DEF LifeTypeOK
  <1>6. LifeTypeOK'
    BY <1>0, <1>1, <1>5 DEF LifeTypeOK
  <1>7. MembersKnown'
    <2>1. t \notin destroyed
      BY <1>4 DEF LifeInv, LifeRest, FreedUnknown
    <2>2. ASSUME NEW q \in Processes, NEW u \in Threads
          PROVE  u \in threads'[q] <=> process[u] = q /\ u \in Listed' /\ u \notin destroyed'
      <3>1. u \in threads[q] <=> process[u] = q /\ u \in Listed /\ u \notin destroyed
        BY DEF LifeInv, LifeRest, MembersKnown
      <3>2. u \in threads'[q] <=> u \in threads[q] \/ (q = process[t] /\ u = t)
        BY <1>5
      <3>3. destroyed' = destroyed
        BY <1>1
      <3> QED BY <1>4, <2>1, <3>1, <3>2, <3>3
    <2> QED BY <2>2 DEF MembersKnown
  <1>8. /\ CreatorsStay' /\ DetachedAlone' /\ JoinersAlone' /\ SleepersKnown' /\ FreedUnknown'
        /\ ProcessesLive' /\ ZombiesKept'
    BY <1>0, <1>1, <1>4
       DEF LifeInv, LifeRest, CreatorsStay, DetachedAlone,
           JoinersAlone, SleepersKnown, FreedUnknown, ProcessesLive, ZombiesKept
  <1>9. SpaceLive'
    BY <1>1, <1>2, <1>3, <1>6, <1>8, SpaceKept DEF LifeTypeOK
  <1> QED BY <1>2, <1>6, <1>7, <1>8, <1>9 DEF LifeRest

\* The reaper's queue holds the reaper or nobody; waking it empties it.
LEMMA ReaperQueue ==
  ASSUME LifeInv
  PROVE  /\ reaper_wq \in WakeOrders
         /\ wait_queue_remove(reaper_wq) = reaper_wq /\ wait_queue_rest(reaper_wq) = << >>
         /\ \A u : Linked(reaper_wq, u) <=> u = reaper /\ reaper_wq # << >>
PROOF
  <1>0. reaper_wq \in {<< >>, << reaper >>} /\ reaper \in Threads
    BY LifeFacts DEF LifeTypeOK
  <1>1. CASE reaper_wq = << >>
    BY <1>1, EmptyWakeOrder DEF wait_queue_remove, wait_queue_rest
  <1>2. CASE reaper_wq = << reaper >>
    <2>1. << reaper >> # << >> /\ Head(<< reaper >>) = reaper /\ Tail(<< reaper >>) = << >>
      OBVIOUS
    <2>2. << reaper >> \in Seq(Threads) /\ IsInjective(<< reaper >>) /\ \A u : Linked(<< reaper >>, u) <=> u = reaper
      BY <1>0 DEF IsInjective, Linked
    <2>3. state[reaper] = "BLOCKED"
      BY <1>0, <1>2, <2>1 DEF LifeInv, LifeRest, SleepersKnown, Asleep
    <2>4. << reaper >> \in WakeOrders
      BY <2>2, <2>3, IsWakeOrder
    <2> QED BY <1>2, <2>1, <2>2, <2>4 DEF wait_queue_remove, wait_queue_rest
  <1> QED BY <1>0, <1>1, <1>2

\* scheduler_push_zombie of a thread that is no zombie yet.
LEMMA PushZombie ==
  ASSUME LifeInv, NEW t \in Threads, ~Linked(zombie_list, t), push_zombie(t)
  PROVE  /\ zombie_list' \in Seq(Threads) /\ IsInjective(zombie_list')
         /\ \A u : Linked(zombie_list', u) <=> Linked(zombie_list, u) \/ u = t
         /\ reaper_wq' = << >>
PROOF
  <1>1. zombie_list \in Seq(Threads) /\ IsInjective(zombie_list)
    BY LifeFacts DEF LifeTypeOK, LifeInv, LifeRest, DetachedAlone
  <1>2. zombie_list' = wait_queue_add(zombie_list, t) /\ reaper_wq' = wait_queue_rest(reaper_wq)
    BY DEF push_zombie, wait_queue_add
  <1> QED BY <1>1, <1>2, QueueAdd, ReaperQueue

\* The threads scheduler_terminate wakes: the joiner, then the reaper if the
\* thread is detached.
LEMMA ExitWakes ==
  ASSUME LifeInv, NEW t \in Threads, t \notin Ended
  PROVE  LET ws == termination_queue[t] \o wait_queue_remove(reaper_wq) IN
         /\ termination_queue[t] \in WakeOrders /\ ws \in WakeOrders
         /\ \A u : Linked(termination_queue[t], u) <=> u \in Threads /\ joined[u] = t
         /\ \A u : Linked(ws, u) <=> (u \in Threads /\ joined[u] = t) \/ (u = reaper /\ reaper_wq # << >>)
PROOF
  <1> DEFINE q == termination_queue[t]
  <1>0. /\ reaper \in Threads /\ q \in Seq(Threads) /\ IsInjective(q) /\ NULL \notin Threads
        /\ reaper_wq \in Seq(Threads) /\ IsInjective(reaper_wq)
    BY LifeFacts, ReaperQueue, WakeOrderProperties DEF LifeTypeOK, LifeInv, LifeRest, JoinersAlone
  <1>1. \A u : Linked(q, u) => u \in Threads
    BY <1>0, ElementOfSeq DEF Linked
  <1>2. \A u : Linked(q, u) <=> u \in Threads /\ joined[u] = t
    BY <1>1 DEF LifeInv, LifeRest, JoinersAlone
  <1>3. \A u \in Threads : joined[u] = t => state[u] = "BLOCKED" /\ u # reaper
    BY <1>0 DEF LifeInv, LifeRest, SleepersKnown, JoinersAlone, Asleep
  <1> HIDE DEF q
  <1>4. q \in WakeOrders
    BY <1>0, <1>2, <1>3, IsWakeOrder
  <1>5. /\ q \o reaper_wq \in Seq(Threads) /\ IsInjective(q \o reaper_wq)
        /\ \A u : Linked(q \o reaper_wq, u) <=> Linked(q, u) \/ Linked(reaper_wq, u)
    BY <1>0, <1>2, <1>3, ReaperQueue, ConcatDisjoint
  <1>6. \A u : Linked(q \o reaper_wq, u) => state[u] = "BLOCKED"
    BY <1>2, <1>3, <1>5, ReaperQueue, WakeOrderProperties
  <1>7. q \o reaper_wq \in WakeOrders
    BY <1>5, <1>6, IsWakeOrder
  <1> QED BY <1>2, <1>4, <1>5, <1>7, ReaperQueue DEF q

\* thread_exit.
LEMMA ExitKeeps ==
  ASSUME LifeInv, NEW t \in Threads \ {reaper}, exit(t)
  PROVE  [SchedNext]_schedVars /\ LifeRest'
PROOF
  <1>0. /\ reaper \in Threads /\ process \in [Threads -> Processes] /\ LifeTypeOK
        /\ SchedInv /\ Born \subseteq Threads /\ Listed \subseteq Born /\ Ended \subseteq Listed
        /\ NULL \notin Threads /\ reaper_wq \in {<< >>, << reaper >>}
    BY LifeFacts, SetFacts DEF LifeTypeOK
  <1>1. /\ current = t /\ pc[t] = "run"
        /\ \A u \in Threads : handle[u] = t => u \in Listed
        /\ termination_queue' = [termination_queue EXCEPT ![t] = << >>]
        /\ UNCHANGED << threads, proc, maker, handle, detached, destroyed, pc, joined >>
    BY DEF exit, Listed
  <1>2. t \in Listed /\ t \notin Ended /\ t \notin destroyed /\ ~Linked(zombie_list, t)
    BY <1>0, <1>1, SetFacts DEF LifeInv, LifeRest, DetachedAlone, FreedUnknown
  <1>3. PICK ws \in WakeOrders :
          /\ thread_kill_current(ws)
          /\ \A u : Linked(ws, u) <=> \/ u \in Threads /\ joined[u] = t
                                      \/ detached[t] /\ u = reaper /\ reaper_wq # << >>
    BY <1>2, ExitWakes DEF exit
  <1>4. SchedNext
    BY <1>3 DEF SchedNext
  <1>5. SchedInv'
    BY <1>0, <1>4, StepInv
  <1>6. /\ Born' = Born /\ Listed' = Listed /\ Ended' = Ended \union {t}
        /\ \A u \in Threads : u \in Asleep' <=> u \in Asleep /\ ~Linked(ws, u)
    BY <1>0, <1>1, <1>3, <1>5, KillSets
  <1>7. /\ zombie_list' \in Seq(Threads) /\ IsInjective(zombie_list')
        /\ \A u : Linked(zombie_list', u) <=> Linked(zombie_list, u) \/ (detached[t] /\ u = t)
        /\ reaper_wq' = IF detached[t] THEN << >> ELSE reaper_wq
    <2>1. CASE detached[t]
      BY <1>2, <2>1, PushZombie DEF exit
    <2>2. CASE ~detached[t]
      BY <1>0, <2>2 DEF exit, LifeTypeOK, LifeInv, LifeRest, DetachedAlone
    <2> QED BY <2>1, <2>2
  <1>8. \A u \in Threads : termination_queue'[u] = IF u = t THEN << >> ELSE termination_queue[u]
    BY <1>0, <1>1 DEF LifeTypeOK
  <1>9. LifeTypeOK'
    <2>1. termination_queue' \in [Threads -> Seq(Threads)]
      BY <1>0, <1>1, EmptySeq DEF LifeTypeOK
    <2> QED BY <1>0, <1>1, <1>7, <2>1 DEF LifeTypeOK
  <1>10. CreatorsStay'
    BY <1>0, <1>1, <1>6 DEF LifeInv, LifeRest, CreatorsStay
  <1>11. DetachedAlone'
    BY <1>0, <1>1, <1>6, <1>7 DEF LifeInv, LifeRest, DetachedAlone
  <1>12. JoinersAlone'
    <2>1. IsInjective(<< >>)
      BY EmptySeq DEF IsInjective
    <2> QED BY <1>0, <1>1, <1>6, <1>8, <2>1, EmptyWakeOrder DEF LifeInv, LifeRest, JoinersAlone
  <1>13. SleepersKnown'
    <2>1. ASSUME NEW u \in Threads
          PROVE  u \in Asleep' <=> \/ u = reaper /\ reaper_wq' # << >>
                                   \/ joined[u] # NULL /\ joined[u] \notin Ended'
      <3>1. u \in Asleep <=> (u = reaper /\ reaper_wq # << >>) \/ (joined[u] # NULL /\ joined[u] \notin Ended)
        BY DEF LifeInv, LifeRest, SleepersKnown
      <3>2. u = reaper => joined[u] = NULL
        BY <1>0 DEF LifeInv, LifeRest, SleepersKnown, JoinersAlone
      <3> QED BY <1>0, <1>3, <1>6, <1>7, <3>1, <3>2
    <2> QED BY <1>1, <1>6, <1>7, <2>1 DEF LifeInv, LifeRest, SleepersKnown
  <1>14. FreedUnknown'
    BY <1>0, <1>1, <1>2, <1>6, <1>7 DEF LifeInv, LifeRest, FreedUnknown
  <1>15. MembersKnown' /\ ProcessesLive'
    BY <1>1, <1>6 DEF LifeInv, LifeRest, MembersKnown, ProcessesLive
  <1>16. ZombiesKept'
    BY <1>1, <1>6, <1>7 DEF LifeInv, LifeRest, ZombiesKept
  <1>17. SpaceLive'
    BY <1>1, <1>4, <1>5, <1>9, <1>14, <1>15, SpaceKept DEF LifeTypeOK
  <1> QED BY <1>4, <1>9, <1>10, <1>11, <1>12, <1>13, <1>14, <1>15, <1>16, <1>17 DEF LifeRest

\* thread_detach.
LEMMA DetachKeeps ==
  ASSUME LifeInv, NEW c \in Threads \ {reaper}, NEW t \in Threads \ {reaper}, thread_detach(c, t)
  PROVE  [SchedNext]_schedVars /\ LifeRest'
PROOF
  <1>0. /\ reaper \in Threads /\ process \in [Threads -> Processes] /\ LifeTypeOK
        /\ SchedInv /\ Born \subseteq Threads /\ Listed \subseteq Born /\ Ended \subseteq Listed
        /\ NULL \notin Threads /\ reaper_wq \in {<< >>, << reaper >>} /\ idle \notin Threads
    BY LifeFacts, SetFacts DEF LifeTypeOK
  <1>1. /\ current = c /\ handle[t] = c /\ ~detached[t] /\ t \in Listed
        /\ handle' = [handle EXCEPT ![t] = NULL]
        /\ detached' = [detached EXCEPT ![t] = TRUE]
        /\ UNCHANGED << threads, proc, maker, destroyed, termination_queue, pc, joined >>
    BY DEF thread_detach, Listed
  <1>2. t \notin destroyed /\ ~Linked(zombie_list, t) /\ \A d \in Threads : joined[d] # t
    BY <1>0, <1>1 DEF LifeInv, LifeRest, DetachedAlone, FreedUnknown, JoinersAlone
  <1>3. /\ [SchedNext]_schedVars
        /\ zombie_list' \in Seq(Threads) /\ IsInjective(zombie_list')
        /\ \A u : Linked(zombie_list', u) <=> Linked(zombie_list, u) \/ (t \in Ended /\ u = t)
        /\ reaper_wq' = IF t \in Ended THEN << >> ELSE reaper_wq
        /\ SchedInv' => /\ Born' = Born /\ Listed' = Listed /\ Ended' = Ended
                        /\ \A u \in Threads :
                             u \in Asleep' <=> u \in Asleep /\ ~(t \in Ended /\ u = reaper /\ reaper_wq # << >>)
    <2>1. CASE t \in Ended
      <3>1. wait_queue_wake_all(reaper_wq) /\ push_zombie(t)
        BY <2>1, ReaperQueue DEF thread_detach, Ended, wait_queue_wake
      <3>2. [SchedNext]_schedVars
        BY <1>0, <1>1, <3>1, ReaperQueue, WakeAllEffect
      <3>3. SchedInv'
        BY <1>0, <3>2, StepInv
      <3> QED BY <1>0, <1>2, <2>1, <3>1, <3>2, <3>3, PushZombie, ReaperQueue, WakeSets
    <2>2. CASE t \notin Ended
      <3>1. UNCHANGED << schedVars, zombie_list, reaper_wq >>
        BY <2>2 DEF thread_detach, Ended
      <3>2. SchedInv' => SetsSame
        BY <1>0, <3>1, QuietSets DEF schedVars
      <3> QED BY <1>0, <2>2, <3>1, <3>2 DEF SetsSame, LifeTypeOK, LifeInv, LifeRest, DetachedAlone
    <2> QED BY <2>1, <2>2
  <1>4. SchedInv'
    BY <1>0, <1>3, StepInv
  <1>5. /\ \A u \in Threads : handle'[u] = IF u = t THEN NULL ELSE handle[u]
        /\ \A u \in Threads : detached'[u] = IF u = t THEN TRUE ELSE detached[u]
    BY <1>0, <1>1 DEF LifeTypeOK
  <1>6. LifeTypeOK'
    BY <1>0, <1>1, <1>3 DEF LifeTypeOK
  <1>7. CreatorsStay'
    BY <1>0, <1>1, <1>3, <1>4, <1>5 DEF LifeInv, LifeRest, CreatorsStay
  <1>8. DetachedAlone'
    <2>1. \A u \in Threads : detached'[u] => handle'[u] = NULL
      BY <1>0, <1>5 DEF LifeInv, LifeRest, DetachedAlone
    <2>2. \A u \in Threads \ {reaper} : detached'[u] => u \in Born'
      BY <1>0, <1>1, <1>3, <1>4, <1>5 DEF LifeInv, LifeRest, DetachedAlone
    <2>3. \A u \in Threads : Linked(zombie_list', u) => detached'[u] /\ u \in Ended'
      BY <1>3, <1>4, <1>5 DEF LifeInv, LifeRest, DetachedAlone
    <2> QED BY <1>3, <2>1, <2>2, <2>3 DEF DetachedAlone
  <1>9. JoinersAlone'
    BY <1>0, <1>1, <1>2, <1>3, <1>4, <1>5 DEF LifeInv, LifeRest, JoinersAlone
  <1>10. SleepersKnown'
    <2>1. ASSUME NEW u \in Threads
          PROVE  u \in Asleep' <=> \/ u = reaper /\ reaper_wq' # << >>
                                   \/ joined[u] # NULL /\ joined[u] \notin Ended'
      <3>1. u \in Asleep <=> (u = reaper /\ reaper_wq # << >>) \/ (joined[u] # NULL /\ joined[u] \notin Ended)
        BY DEF LifeInv, LifeRest, SleepersKnown
      <3>2. u = reaper => joined[u] = NULL
        BY <1>0 DEF LifeInv, LifeRest, SleepersKnown, JoinersAlone
      <3> QED BY <1>3, <1>4, <3>1, <3>2
    <2> QED BY <1>1, <1>3, <1>4, <2>1 DEF LifeInv, LifeRest, SleepersKnown
  <1>11. FreedUnknown'
    BY <1>0, <1>1, <1>2, <1>3, <1>4, <1>5 DEF LifeInv, LifeRest, FreedUnknown
  <1>12. MembersKnown' /\ ProcessesLive'
    BY <1>1, <1>3, <1>4 DEF LifeInv, LifeRest, MembersKnown, ProcessesLive
  <1>13. ZombiesKept'
    BY <1>0, <1>1, <1>3, <1>4, <1>5 DEF LifeInv, LifeRest, ZombiesKept
  <1>14. SpaceLive'
    BY <1>1, <1>3, <1>4, <1>6, <1>11, <1>12, SpaceKept DEF LifeTypeOK
  <1> QED BY <1>3, <1>6, <1>7, <1>8, <1>9, <1>10, <1>11, <1>12, <1>13, <1>14 DEF LifeRest

\* thread_join of a thread that has not ended: the caller sleeps in its queue.
LEMMA JoinSleepKeeps ==
  ASSUME LifeInv, NEW c \in Threads \ {reaper}, NEW t \in Threads \ {reaper}, thread_join(c, t), t \notin Ended
  PROVE  [SchedNext]_schedVars /\ LifeRest'
PROOF
  <1>0. /\ reaper \in Threads /\ process \in [Threads -> Processes] /\ LifeTypeOK
        /\ SchedInv /\ Born \subseteq Threads /\ Listed \subseteq Born /\ Ended \subseteq Listed
        /\ NULL \notin Threads
    BY LifeFacts, SetFacts
  <1>1. /\ current = c /\ pc[c] = "run" /\ handle[t] = c /\ ~detached[t] /\ t \in Listed
        /\ handle' = [handle EXCEPT ![t] = NULL]
        /\ termination_queue' = [termination_queue EXCEPT ![t] = wait_queue_add(@, c)]
        /\ pc' = [pc EXCEPT ![c] = "join"]
        /\ joined' = [joined EXCEPT ![c] = t]
        /\ wait_queue_sleep(<< >>)
        /\ UNCHANGED << destroyed, threads, proc, maker, detached, zombie_list, reaper_wq >>
    BY DEF thread_join, Listed, Ended
  <1>2. SchedNext
    BY <1>0, <1>1, SleepStep, EmptyWakeOrder
  <1>3. SchedInv'
    BY <1>0, <1>2, StepInv
  <1>4. Born' = Born /\ Listed' = Listed /\ Ended' = Ended /\ Asleep' = Asleep \union {c}
    BY <1>0, <1>1, <1>3, SleepSets
  <1>5. joined[c] = NULL /\ t \notin destroyed /\ \A d \in Threads : joined[d] # t
    BY <1>0, <1>1 DEF LifeInv, LifeRest, FreedUnknown, JoinersAlone
  <1>6. /\ termination_queue'[t] \in Seq(Threads) /\ IsInjective(termination_queue'[t])
        /\ \A u : Linked(termination_queue'[t], u) <=> Linked(termination_queue[t], u) \/ u = c
    <2>1. termination_queue[t] \in Seq(Threads) /\ IsInjective(termination_queue[t])
      BY <1>0 DEF LifeTypeOK, LifeInv, LifeRest, JoinersAlone
    <2>2. ~Linked(termination_queue[t], c)
      BY <1>5 DEF LifeInv, LifeRest, JoinersAlone
    <2>3. termination_queue'[t] = wait_queue_add(termination_queue[t], c)
      BY <1>0, <1>1 DEF LifeTypeOK
    <2> QED BY <2>1, <2>2, <2>3, QueueAdd
  <1>7. /\ \A u \in Threads : handle'[u] = IF u = t THEN NULL ELSE handle[u]
        /\ \A u \in Threads : pc'[u] = IF u = c THEN "join" ELSE pc[u]
        /\ \A u \in Threads : joined'[u] = IF u = c THEN t ELSE joined[u]
        /\ \A u \in Threads \ {t} : termination_queue'[u] = termination_queue[u]
    BY <1>0, <1>1 DEF LifeTypeOK
  <1>8. LifeTypeOK'
    <2>1. termination_queue' \in [Threads -> Seq(Threads)]
      BY <1>0, <1>1, <1>6, <1>7 DEF LifeTypeOK
    <2> QED BY <1>0, <1>1, <2>1 DEF LifeTypeOK
  <1>9. MembersKnown' /\ ProcessesLive' /\ ZombiesKept'
    BY <1>1, <1>4 DEF LifeInv, LifeRest, MembersKnown, ProcessesLive, ZombiesKept
  <1>10. CreatorsStay'
    BY <1>0, <1>1, <1>4, <1>7 DEF LifeInv, LifeRest, CreatorsStay
  <1>11. DetachedAlone'
    BY <1>0, <1>1, <1>4, <1>7 DEF LifeInv, LifeRest, DetachedAlone
  <1>12. JoinersAlone'
    <2>1. \A d \in Threads : pc'[d] = "join" <=> joined'[d] # NULL
      BY <1>0, <1>7 DEF LifeInv, LifeRest, JoinersAlone
    <2>2. ASSUME NEW d \in Threads, NEW u \in Threads, joined'[d] = u
          PROVE  /\ handle'[u] = NULL /\ ~detached'[u] /\ u \in Listed'
                 /\ \A e \in Threads : joined'[e] = u => e = d
      BY <1>1, <1>4, <1>5, <1>7, <2>2 DEF LifeInv, LifeRest, JoinersAlone
    <2>3. \A u \in Threads : IsInjective(termination_queue'[u])
      BY <1>6, <1>7 DEF LifeInv, LifeRest, JoinersAlone
    <2>4. \A d, u \in Threads : Linked(termination_queue'[u], d) <=> joined'[d] = u /\ u \notin Ended'
      BY <1>0, <1>4, <1>5, <1>6, <1>7 DEF LifeInv, LifeRest, JoinersAlone
    <2> QED BY <2>1, <2>2, <2>3, <2>4 DEF JoinersAlone
  <1>13. SleepersKnown'
    BY <1>0, <1>1, <1>4, <1>5, <1>7 DEF LifeInv, LifeRest, SleepersKnown
  <1>14. FreedUnknown'
    BY <1>0, <1>1, <1>4, <1>5, <1>7 DEF LifeInv, LifeRest, FreedUnknown
  <1>15. SpaceLive'
    BY <1>1, <1>2, <1>3, <1>8, <1>9, <1>14, SpaceKept DEF LifeTypeOK
  <1> QED BY <1>2, <1>8, <1>9, <1>10, <1>11, <1>12, <1>13, <1>14, <1>15 DEF LifeRest

\* thread_destroy and process_destroy of ended threads: a process dies only with
\* its last thread, whether that one is in its list yet or not.
LEMMA DestroyKeeps ==
  ASSUME LifeInv, NEW ts \in SUBSET Ended, destroy(ts), SetsSame, UNCHANGED maker
  PROVE  /\ MembersKnown' /\ ProcessesLive'
         /\ threads' \in [Processes -> SUBSET Threads] /\ destroyed' \in SUBSET Threads
         /\ proc' \in [Processes -> {"none", "live", "destroyed"}]
         /\ \A t \in Born : proc'[process[t]] # "none"
         /\ \A p \in Processes : maker[p] # NULL => proc'[p] = proc[p]
PROOF
  <1>0. /\ reaper \in Threads /\ process \in [Threads -> Processes] /\ LifeTypeOK
        /\ Born \subseteq Threads /\ Listed \subseteq Born /\ Ended \subseteq Listed
        /\ \A t \in Threads : process[t] = process[reaper] => t = reaper
        /\ destroyed \subseteq Ended /\ reaper \notin Ended
    BY LifeFacts, SetFacts DEF LifeInv, LifeRest, FreedUnknown, SleepersKnown
  <1>1. /\ destroyed' = destroyed \union ts
        /\ threads' = [p \in Processes |-> threads[p] \ ts]
        /\ proc' = process_destroy(ts)
    BY DEF destroy
  <1>2. /\ \A p \in Processes : threads'[p] = threads[p] \ ts
        /\ \A p \in Processes : proc'[p] = IF (\E t \in ts : process[t] = p) /\ threads[p] \subseteq ts
                                           THEN "destroyed" ELSE proc[p]
    BY <1>1 DEF process_destroy
  <1>3. MembersKnown'
    <2>1. ASSUME NEW p \in Processes, NEW t \in Threads
          PROVE  t \in threads'[p] <=> process[t] = p /\ t \in Listed' /\ t \notin destroyed'
      <3>1. t \in threads[p] <=> process[t] = p /\ t \in Listed /\ t \notin destroyed
        BY DEF LifeInv, LifeRest, MembersKnown
      <3> QED BY <1>1, <1>2, <3>1 DEF SetsSame
    <2> QED BY <2>1 DEF MembersKnown
  <1>4. ProcessesLive'
    <2>1. SUFFICES ASSUME NEW u \in Born, u \notin destroyed, u \notin ts
                   PROVE  proc'[process[u]] = "live"
      BY <1>1 DEF ProcessesLive, SetsSame
    <2>2. process[u] \in Processes /\ proc[process[u]] = "live"
      BY <1>0, <2>1 DEF LifeInv, LifeRest, ProcessesLive
    <2>3. ASSUME NEW t \in ts, process[t] = process[u], threads[process[u]] \subseteq ts PROVE FALSE
      <3>1. u \notin Listed
        BY <1>0, <2>1, <2>2, <2>3 DEF LifeInv, LifeRest, MembersKnown
      <3>2. u # reaper
        BY <1>0, <2>1, <2>3
      <3>3. CASE handle[u] \in Threads /\ process[handle[u]] = process[u]
        <4>1. handle[u] \in Listed /\ handle[u] \notin Ended
          BY <2>1, <3>1, <3>2, <3>3 DEF LifeInv, LifeRest, CreatorsStay
        <4>2. handle[u] \in threads[process[u]]
          BY <1>0, <2>2, <3>3, <4>1 DEF LifeInv, LifeRest, MembersKnown
        <4> QED BY <2>3, <4>1, <4>2
      <3>4. CASE \A v \in Threads \ {u} : process[v] = process[u] => v \notin Born
        BY <1>0, <2>1, <2>3, <3>4
      <3> QED BY <2>1, <3>1, <3>2, <3>3, <3>4 DEF LifeInv, LifeRest, CreatorsStay
    <2> QED BY <1>2, <2>2, <2>3
  <1>5. /\ threads' \in [Processes -> SUBSET Threads] /\ destroyed' \in SUBSET Threads
        /\ proc' \in [Processes -> {"none", "live", "destroyed"}]
    BY <1>0, <1>1 DEF LifeTypeOK, process_destroy
  <1>6. \A t \in Born : proc'[process[t]] # "none"
    BY <1>0, <1>2 DEF LifeInv, LifeRest, CreatorsStay
  <1>7. \A p \in Processes : maker[p] # NULL => proc'[p] = proc[p]
    BY <1>0, <1>2 DEF LifeInv, LifeRest, CreatorsStay
  <1> QED BY <1>3, <1>4, <1>5, <1>6, <1>7

\* thread_join of a thread that has ended.
LEMMA JoinEndedKeeps ==
  ASSUME LifeInv, NEW c \in Threads \ {reaper}, NEW t \in Threads \ {reaper}, thread_join(c, t), t \in Ended
  PROVE  [SchedNext]_schedVars /\ LifeRest'
PROOF
  <1>0. /\ reaper \in Threads /\ process \in [Threads -> Processes] /\ LifeTypeOK
        /\ SchedInv /\ Born \subseteq Threads /\ Listed \subseteq Born /\ Ended \subseteq Listed
        /\ NULL \notin Threads
    BY LifeFacts, SetFacts
  <1>1. /\ current = c /\ handle[t] = c /\ ~detached[t] /\ t \in Listed /\ destroy({t})
        /\ handle' = [handle EXCEPT ![t] = NULL]
        /\ UNCHANGED << schedVars, termination_queue, pc, joined, maker, detached, zombie_list, reaper_wq >>
    BY DEF thread_join, Listed, Ended
  <1>2. SchedInv'
    BY <1>0, <1>1, StepInv
  <1>3. SetsSame
    BY <1>0, <1>1, <1>2, QuietSets DEF schedVars
  <1>4. destroyed' = destroyed \union {t}
    BY <1>1 DEF destroy
  <1>5. {t} \in SUBSET Ended
    OBVIOUS
  <1>6. /\ MembersKnown' /\ ProcessesLive'
        /\ threads' \in [Processes -> SUBSET Threads] /\ destroyed' \in SUBSET Threads
        /\ proc' \in [Processes -> {"none", "live", "destroyed"}]
        /\ \A u \in Born : proc'[process[u]] # "none"
        /\ \A p \in Processes : maker[p] # NULL => proc'[p] = proc[p]
    BY <1>1, <1>3, <1>5, DestroyKeeps
  <1>7. \A u \in Threads : handle'[u] = IF u = t THEN NULL ELSE handle[u]
    BY <1>0, <1>1 DEF LifeTypeOK
  <1>8. LifeTypeOK'
    BY <1>0, <1>1, <1>6 DEF LifeTypeOK
  <1>9. CreatorsStay'
    BY <1>0, <1>1, <1>3, <1>6, <1>7 DEF SetsSame, LifeInv, LifeRest, CreatorsStay
  <1>10. DetachedAlone' /\ JoinersAlone'
    BY <1>0, <1>1, <1>3, <1>7 DEF SetsSame, LifeInv, LifeRest, DetachedAlone, JoinersAlone
  <1>11. SleepersKnown' /\ ZombiesKept'
    BY <1>1, <1>3, <1>4 DEF SetsSame, LifeInv, LifeRest, SleepersKnown, ZombiesKept
  <1>12. FreedUnknown'
    <2>1. ~Linked(zombie_list, t) /\ \A d \in Threads : joined[d] # t
      BY <1>0, <1>1 DEF LifeInv, LifeRest, DetachedAlone, JoinersAlone
    <2> QED BY <1>0, <1>1, <1>3, <1>4, <1>7, <2>1 DEF SetsSame, LifeInv, LifeRest, FreedUnknown
  <1>13. SpaceLive'
    BY <1>1, <1>2, <1>6, <1>12, SpaceKept DEF schedVars
  <1> QED BY <1>1, <1>6, <1>8, <1>9, <1>10, <1>11, <1>12, <1>13 DEF LifeRest

\* thread_join once the joiner runs again: the thread it waited for has ended.
LEMMA JoinResumeKeeps ==
  ASSUME LifeInv, NEW c \in Threads, thread_join_resume(c)
  PROVE  [SchedNext]_schedVars /\ LifeRest'
PROOF
  <1> DEFINE t == joined[c]
  <1>0. /\ reaper \in Threads /\ process \in [Threads -> Processes] /\ LifeTypeOK
        /\ SchedInv /\ Born \subseteq Threads /\ Listed \subseteq Born /\ Ended \subseteq Listed
        /\ NULL \notin Threads /\ idle \notin Threads
    BY LifeFacts, SetFacts
  <1>1. /\ current = c /\ pc[c] = "join" /\ destroy({t}) /\ section_end(TRUE)
        /\ pc' = [pc EXCEPT ![c] = "run"] /\ joined' = [joined EXCEPT ![c] = NULL]
        /\ UNCHANGED << maker, handle, detached, termination_queue, zombie_list, reaper_wq >>
    BY DEF thread_join_resume
  <1>2. [SchedNext]_schedVars
    BY <1>0, <1>1, SectionEndStep
  <1>3. SchedInv'
    BY <1>0, <1>2, StepInv
  <1>4. SetsSame /\ current' = current
    BY <1>0, <1>1, <1>3, QuietSets DEF section_end
  <1>5. /\ t \in Threads /\ c # reaper /\ c \notin Asleep
    BY <1>0, <1>1, SetFacts DEF LifeTypeOK, LifeInv, LifeRest, JoinersAlone, SleepersKnown
  <1>6. t \in Ended
    BY <1>0, <1>5 DEF LifeInv, LifeRest, SleepersKnown
  <1>7. /\ handle[t] = NULL /\ ~detached[t] /\ ~Linked(zombie_list, t)
        /\ \A d \in Threads : joined[d] = t => d = c
    BY <1>5 DEF LifeInv, LifeRest, JoinersAlone, DetachedAlone
  <1>8. destroyed' = destroyed \union {t} /\ {t} \in SUBSET Ended
    BY <1>1, <1>6 DEF destroy
  <1>9. /\ MembersKnown' /\ ProcessesLive'
        /\ threads' \in [Processes -> SUBSET Threads] /\ destroyed' \in SUBSET Threads
        /\ proc' \in [Processes -> {"none", "live", "destroyed"}]
        /\ \A u \in Born : proc'[process[u]] # "none"
        /\ \A p \in Processes : maker[p] # NULL => proc'[p] = proc[p]
    BY <1>1, <1>4, <1>8, DestroyKeeps
  <1> HIDE DEF t
  <1>10. /\ \A u \in Threads : pc'[u] = IF u = c THEN "run" ELSE pc[u]
         /\ \A u \in Threads : joined'[u] = IF u = c THEN NULL ELSE joined[u]
    BY <1>0, <1>1 DEF LifeTypeOK
  <1>11. LifeTypeOK'
    BY <1>0, <1>1, <1>9 DEF LifeTypeOK
  <1>12. CreatorsStay'
    BY <1>0, <1>1, <1>4, <1>9 DEF SetsSame, LifeInv, LifeRest, CreatorsStay
  <1>13. DetachedAlone'
    BY <1>1, <1>4 DEF SetsSame, LifeInv, LifeRest, DetachedAlone
  <1>14. JoinersAlone'
    BY <1>0, <1>1, <1>4, <1>6, <1>10 DEF SetsSame, LifeInv, LifeRest, JoinersAlone, t
  <1>15. SleepersKnown'
    BY <1>0, <1>1, <1>4, <1>5, <1>10 DEF SetsSame, LifeInv, LifeRest, SleepersKnown
  <1>16. FreedUnknown'
    BY <1>0, <1>1, <1>4, <1>6, <1>7, <1>8, <1>10 DEF SetsSame, LifeInv, LifeRest, FreedUnknown
  <1>17. ZombiesKept'
    BY <1>1, <1>4, <1>8 DEF SetsSame, LifeInv, LifeRest, ZombiesKept
  <1>18. SpaceLive'
    BY <1>1, <1>2, <1>3, <1>4, <1>9, <1>16, SpaceKept
  <1> QED BY <1>2, <1>9, <1>11, <1>12, <1>13, <1>14, <1>15, <1>16, <1>17, <1>18 DEF LifeRest

\* The reaper goes to sleep.
LEMMA ReaperSleepKeeps ==
  ASSUME LifeInv, reaper_sleep
  PROVE  [SchedNext]_schedVars /\ LifeRest'
PROOF
  <1>0. reaper \in Threads /\ LifeTypeOK /\ SchedInv /\ NULL \notin Threads
    BY LifeFacts
  <1>1. /\ current = reaper /\ pc[reaper] = "loop" /\ wait_queue_sleep(<< >>)
        /\ reaper_wq' = wait_queue_add(reaper_wq, reaper)
        /\ pc' = [pc EXCEPT ![reaper] = "asleep"]
        /\ UNCHANGED << threads, proc, maker, handle, detached, destroyed, termination_queue,
                        zombie_list, joined >>
    BY DEF reaper_sleep
  <1>2. SchedNext
    BY <1>0, SleepStep, EmptyWakeOrder, <1>1
  <1>3. SchedInv'
    BY <1>0, <1>2, StepInv
  <1>4. Born' = Born /\ Listed' = Listed /\ Ended' = Ended /\ Asleep' = Asleep \union {reaper}
    BY <1>0, <1>1, <1>3, SleepSets
  <1>5. reaper_wq' = << reaper >> /\ << reaper >> # << >>
    <2>1. reaper_wq = << >>
      BY <1>0, <1>1 DEF LifeInv, LifeRest, SleepersKnown
    <2>2. Append(<< >>, reaper) = << reaper >> /\ << reaper >> # << >>
      OBVIOUS
    <2> QED BY <1>1, <2>1, <2>2 DEF wait_queue_add
  <1>6. \A u \in Threads : pc'[u] = IF u = reaper THEN "asleep" ELSE pc[u]
    BY <1>0, <1>1 DEF LifeTypeOK
  <1>7. LifeTypeOK'
    BY <1>0, <1>1, <1>5 DEF LifeTypeOK
  <1>8. /\ MembersKnown' /\ CreatorsStay' /\ DetachedAlone' /\ FreedUnknown' /\ ProcessesLive' /\ ZombiesKept'
    BY <1>1, <1>4 DEF LifeInv, LifeRest, MembersKnown, CreatorsStay, DetachedAlone,
                      FreedUnknown, ProcessesLive, ZombiesKept
  <1>9. JoinersAlone'
    BY <1>1, <1>4, <1>6 DEF LifeInv, LifeRest, JoinersAlone
  <1>10. SleepersKnown'
    BY <1>0, <1>1, <1>4, <1>5, <1>6 DEF LifeInv, LifeRest, SleepersKnown
  <1>11. SpaceLive'
    BY <1>1, <1>2, <1>3, <1>7, <1>8, SpaceKept DEF LifeTypeOK
  <1> QED BY <1>2, <1>7, <1>8, <1>9, <1>10, <1>11 DEF LifeRest

\* The reaper runs again.
LEMMA ReaperResumeKeeps ==
  ASSUME LifeInv, reaper_resume
  PROVE  [SchedNext]_schedVars /\ LifeRest'
PROOF
  <1>0. reaper \in Threads /\ LifeTypeOK /\ SchedInv /\ idle \notin Threads
    BY LifeFacts
  <1>1. /\ current = reaper /\ pc[reaper] = "asleep" /\ section_end(TRUE)
        /\ pc' = [pc EXCEPT ![reaper] = "drain"]
        /\ UNCHANGED << threads, proc, maker, handle, detached, destroyed, termination_queue,
                        zombie_list, reaper_wq, joined >>
    BY DEF reaper_resume
  <1>2. [SchedNext]_schedVars
    BY <1>0, <1>1, SectionEndStep
  <1>3. SchedInv'
    BY <1>0, <1>2, StepInv
  <1>4. SetsSame
    BY <1>0, <1>1, <1>3, QuietSets DEF section_end
  <1>5. \A u \in Threads : pc'[u] = IF u = reaper THEN "drain" ELSE pc[u]
    BY <1>0, <1>1 DEF LifeTypeOK
  <1>6. reaper_wq = << >>
    BY <1>0, <1>1, SetFacts DEF LifeInv, LifeRest, SleepersKnown
  <1>7. LifeTypeOK'
    BY <1>0, <1>1 DEF LifeTypeOK
  <1>8. /\ MembersKnown' /\ CreatorsStay' /\ DetachedAlone' /\ FreedUnknown' /\ ProcessesLive' /\ ZombiesKept'
    BY <1>1, <1>4 DEF SetsSame, LifeInv, LifeRest, MembersKnown, CreatorsStay, DetachedAlone,
                      FreedUnknown, ProcessesLive, ZombiesKept
  <1>9. JoinersAlone' /\ SleepersKnown'
    BY <1>0, <1>1, <1>4, <1>5, <1>6 DEF SetsSame, LifeInv, LifeRest, JoinersAlone, SleepersKnown
  <1>10. SpaceLive'
    BY <1>1, <1>2, <1>3, <1>7, <1>8, SpaceKept DEF LifeTypeOK
  <1> QED BY <1>2, <1>7, <1>8, <1>9, <1>10 DEF LifeRest

\* The reaper frees every zombie.
LEMMA ReaperDrainKeeps ==
  ASSUME LifeInv, reaper_drain
  PROVE  [SchedNext]_schedVars /\ LifeRest'
PROOF
  <1> DEFINE ts == ToSet(zombie_list)
  <1>0. /\ reaper \in Threads /\ LifeTypeOK /\ SchedInv /\ NULL \notin Threads
        /\ zombie_list \in Seq(Threads) /\ Born \subseteq Threads
        /\ Listed \subseteq Born /\ Ended \subseteq Listed
    BY LifeFacts, SetFacts DEF LifeTypeOK
  <1>1. /\ current = reaper /\ pc[reaper] = "drain" /\ destroy(ts) /\ zombie_list' = << >>
        /\ pc' = [pc EXCEPT ![reaper] = "loop"]
        /\ UNCHANGED << schedVars, maker, handle, detached, termination_queue, reaper_wq, joined >>
    BY DEF reaper_drain
  <1>2. SchedInv'
    BY <1>0, <1>1, StepInv
  <1>3. SetsSame /\ current' = current
    BY <1>0, <1>1, <1>2, QuietSets DEF schedVars
  <1>4. \A u : u \in ts <=> u \in Threads /\ Linked(zombie_list, u)
    BY <1>0, ElementOfSeq, LenProperties DEF ToSet, Linked
  <1> HIDE DEF ts
  <1>5. ts \in SUBSET Ended /\ \A u \in ts : detached[u] /\ handle[u] = NULL
    BY <1>4 DEF LifeInv, LifeRest, DetachedAlone
  <1>6. /\ MembersKnown' /\ ProcessesLive'
        /\ threads' \in [Processes -> SUBSET Threads] /\ destroyed' \in SUBSET Threads
        /\ proc' \in [Processes -> {"none", "live", "destroyed"}]
        /\ \A u \in Born : proc'[process[u]] # "none"
        /\ \A p \in Processes : maker[p] # NULL => proc'[p] = proc[p]
    BY <1>1, <1>3, <1>5, DestroyKeeps
  <1>7. destroyed' = destroyed \union ts
    BY <1>1 DEF destroy
  <1>8. \A u \in Threads : pc'[u] = IF u = reaper THEN "loop" ELSE pc[u]
    BY <1>0, <1>1 DEF LifeTypeOK
  <1>9. LifeTypeOK'
    BY <1>0, <1>1, <1>6, EmptySeq DEF LifeTypeOK
  <1>10. CreatorsStay'
    BY <1>0, <1>1, <1>3, <1>6 DEF SetsSame, LifeInv, LifeRest, CreatorsStay
  <1>11. DetachedAlone'
    <2>1. IsInjective(<< >>)
      BY EmptySeq DEF IsInjective
    <2> QED BY <1>1, <1>3, <2>1, EmptyWakeOrder DEF SetsSame, LifeInv, LifeRest, DetachedAlone
  <1>12. JoinersAlone' /\ SleepersKnown'
    BY <1>0, <1>1, <1>3, <1>8 DEF SetsSame, LifeInv, LifeRest, JoinersAlone, SleepersKnown
  <1>13. FreedUnknown'
    <2>1. \A u \in ts, d \in Threads : joined[d] # u
      BY <1>4, <1>5 DEF LifeInv, LifeRest, JoinersAlone
    <2> QED BY <1>1, <1>3, <1>5, <1>7, <2>1, EmptyWakeOrder DEF SetsSame, LifeInv, LifeRest, FreedUnknown
  <1>14. ZombiesKept'
    BY <1>0, <1>1, <1>3, <1>4, <1>7 DEF SetsSame, LifeInv, LifeRest, ZombiesKept
  <1>15. SpaceLive'
    BY <1>0, <1>1, <1>2, <1>3, <1>6, <1>13, SpaceKept
  <1> QED BY <1>1, <1>6, <1>9, <1>10, <1>11, <1>12, <1>13, <1>14, <1>15 DEF LifeRest

----------------------------------------------------------------------------
(* The invariant.                                                          *)

\* The invariant holds before reaper_init.
LEMMA LifeInitInv == LifeInit => LifeInv
PROOF
  <1> SUFFICES ASSUME LifeInit PROVE LifeInv
    OBVIOUS
  <1>0. SchedInv
    BY InitInv DEF LifeInit
  <1>1. /\ Born = {} /\ Ended = {} /\ Asleep = {} /\ Listed = {}
    BY ThreadsAssumption DEF LifeInit, SchedInit, AllThreads, Born, Ended, Asleep, Listed, Added
  <1>2. reaper \in Threads /\ process \in [Threads -> Processes] /\ NULL \notin Threads
    BY ProcessAssumption, LifecycleAssumption DEF AllThreads
  <1>3. LifeTypeOK
    BY <1>2, EmptySeq DEF LifeInit, LifeTypeOK
  <1>4. IsInjective(<< >>)
    BY EmptySeq DEF IsInjective
  <1>5. DetachedAlone /\ JoinersAlone
    BY <1>1, <1>2, <1>4, EmptyWakeOrder DEF LifeInit, DetachedAlone, JoinersAlone
  <1>6. MembersKnown /\ CreatorsStay /\ SleepersKnown /\ FreedUnknown /\ ProcessesLive /\ ZombiesKept
    BY <1>1, <1>2 DEF LifeInit, MembersKnown, CreatorsStay, SleepersKnown,
                      FreedUnknown, ProcessesLive, ZombiesKept
  <1>7. SpaceLive
    BY DEF LifeInit, SchedInit, SpaceLive
  <1> QED BY <1>0, <1>3, <1>5, <1>6, <1>7 DEF LifeInv, LifeRest

\* Every step is one of the scheduler or none, and keeps the invariant.
LEMMA LifeStep ==
  ASSUME LifeInv, [LifeNext]_vars
  PROVE  [SchedNext]_schedVars /\ LifeRest'
PROOF
  <1>1. CASE Environment \/ UNCHANGED vars
    BY <1>1, OutsideKeeps
  <1>2. CASE reaper_init
    BY <1>2, ReaperInitKeeps
  <1>3. ASSUME NEW p \in Processes, process_create(p) PROVE [SchedNext]_schedVars /\ LifeRest'
    BY <1>3, ProcessCreateKeeps
  <1>4. ASSUME NEW t \in Threads \ {reaper}, create(t) \/ add(t) \/ exit(t)
        PROVE  [SchedNext]_schedVars /\ LifeRest'
    BY <1>4, CreateKeeps, AddKeeps, ExitKeeps
  <1>5. ASSUME NEW c \in Threads \ {reaper}, NEW t \in Threads \ {reaper}, thread_join(c, t) \/ thread_detach(c, t)
        PROVE  [SchedNext]_schedVars /\ LifeRest'
    BY <1>5, JoinSleepKeeps, JoinEndedKeeps, DetachKeeps
  <1>6. ASSUME NEW t \in Threads, Proceed(t) PROVE [SchedNext]_schedVars /\ LifeRest'
    BY <1>6, JoinResumeKeeps, ReaperSleepKeeps, ReaperResumeKeeps, ReaperDrainKeeps DEF Proceed
  <1> QED BY <1>1, <1>2, <1>3, <1>4, <1>5, <1>6 DEF LifeNext

\* The invariant is inductive.
LEMMA LifeStepInv == LifeInv /\ [LifeNext]_vars => LifeInv'
PROOF
  <1> SUFFICES ASSUME LifeInv, [LifeNext]_vars PROVE LifeInv'
    OBVIOUS
  <1>1. [SchedNext]_schedVars /\ LifeRest'
    BY LifeStep
  <1>2. SchedInv'
    BY <1>1, StepInv DEF LifeInv
  <1> QED BY <1>1, <1>2 DEF LifeInv

\* The invariant holds in every reachable state.
THEOREM LifeInvariance == LifeSafety => []LifeInv
PROOF
  BY LifeInitInv, LifeStepInv, PTL DEF LifeSafety

\* Threads, processes, queues and lists keep their types; the reaper is in its
\* queue at most once.
THEOREM LifeTypeCorrect == LifeSafety => []LifeTypeOK
PROOF
  <1>1. LifeInv => LifeTypeOK
    BY DEF LifeInv, LifeRest
  <1> QED BY <1>1, LifeInvariance, PTL

\* thread_destroy never frees a thread that something still refers to, and
\* nothing refers to it afterwards.
THEOREM NoUseAfterFreeCorrect == LifeSafety => []NoUseAfterFree
PROOF
  <1>1. ASSUME LifeInv PROVE NoUseAfterFree
    <2>1. SUFFICES ASSUME NEW t \in destroyed
                   PROVE  /\ state[t] = "TERMINATED" /\ current # t
                          /\ ~Linked(ready_list, t) /\ ~Linked(zombie_list, t)
                          /\ termination_queue[t] = << >>
                          /\ \A c \in Threads : joined[c] # t
                          /\ handle[t] = NULL
      BY DEF NoUseAfterFree
    <2>2. /\ t \in Ended /\ handle[t] = NULL /\ ~Linked(zombie_list, t)
          /\ \A c \in Threads : joined[c] # t
      BY <1>1, <2>1 DEF LifeInv, LifeRest, FreedUnknown
    <2>3. t \in Threads /\ state[t] = "TERMINATED" /\ current # t /\ ~Linked(ready_list, t)
      BY <1>1, <2>2, SetFacts DEF LifeInv, Ended
    <2>4. termination_queue[t] = << >>
      <3>1. termination_queue[t] \in Seq(Threads) /\ \A c \in Threads : ~Linked(termination_queue[t], c)
        BY <1>1, <2>2, <2>3 DEF LifeInv, LifeRest, LifeTypeOK, JoinersAlone
      <3>2. termination_queue[t] # << >> => Linked(termination_queue[t], termination_queue[t][1])
        BY <3>1, EmptySeq, LenProperties DEF Linked
      <3>3. termination_queue[t] # << >> => termination_queue[t][1] \in Threads
        BY <3>1, EmptySeq, LenProperties, ElementOfSeq
      <3> QED BY <3>1, <3>2, <3>3
    <2> QED BY <2>2, <2>3, <2>4
  <1> QED BY <1>1, LifeInvariance, PTL

\* process_destroy frees no process that a thread or CR3 still uses.
THEOREM ProcessOutlivesThreadsCorrect == LifeSafety => []ProcessOutlivesThreads
PROOF
  <1>1. LifeInv => ProcessOutlivesThreads
    BY DEF LifeInv, LifeRest, ProcessesLive, SpaceLive, Born, ProcessOutlivesThreads
  <1> QED BY <1>1, LifeInvariance, PTL

\* No detached thread that has ended slips past the reaper.
THEOREM NoZombieForgottenCorrect == LifeSafety => []NoZombieForgotten
PROOF
  <1>1. LifeInv => NoZombieForgotten
    BY DEF LifeInv, LifeRest, ZombiesKept, Ended, NoZombieForgotten
  <1> QED BY <1>1, LifeInvariance, PTL

\* The life cycle uses the scheduler as SchedNext allows: what is proved of the
\* scheduler holds while threads and processes come and go.
THEOREM LifecycleIsClient == LifeSafety => SchedSafety
PROOF
  <1>1. LifeInit => SchedInit
    BY DEF LifeInit
  <1>2. LifeInv /\ [LifeNext]_vars => [SchedNext]_schedVars
    BY LifeStep
  <1> QED BY <1>1, <1>2, LifeInvariance, PTL DEF LifeSafety, SchedSafety
============================================================================
