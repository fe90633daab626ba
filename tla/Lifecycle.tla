----------------------------- MODULE Lifecycle -----------------------------
(***************************************************************************)
(* The life of threads and processes: thread_create, thread_add, thread_exit,*)
(* thread_join, thread_detach and thread_destroy (kernel/task/thread.c),    *)
(* process_create and process_destroy (kernel/task/process.c), the zombie   *)
(* list of the scheduler and the reaper thread (kernel/task/reaper.c).      *)
(*                                                                         *)
(* Each member of Threads and Processes stands for one allocation and is    *)
(* used once.  The clients keep the contract of thread.h: whoever created a  *)
(* thread adds it before it exits itself, may join it or detach it, once, and *)
(* does not touch it afterwards; a process gets its first thread from the     *)
(* thread that created it and its later threads from its own threads.        *)
(***************************************************************************)
EXTENDS WaitQueue

CONSTANTS
  reaper,      \* reaper_thread
  NULL

ASSUME LifecycleAssumption ==
  /\ reaper \in Threads
  /\ \A t \in Threads : process[t] = process[reaper] => t = reaper
  /\ NULL \notin AllThreads

VARIABLES
  threads,            \* process->threads of each process
  proc,               \* "none", "live" or "destroyed" for each process
  maker,              \* who called process_create, until the first thread_create
  handle,             \* who holds the pointer thread_create returned
  detached,           \* thread->detached
  destroyed,          \* the threads thread_destroy has freed
  termination_queue,  \* thread->termination_queue
  zombie_list,
  reaper_wq,
  pc,                 \* "run"; "join": in thread_join; for the reaper "loop",
                      \*   "asleep" (in wait_queue_sleep) and "drain"
  joined              \* the argument of thread_join

lifeVars == << threads, proc, maker, handle, detached, destroyed, termination_queue,
               zombie_list, reaper_wq, pc, joined >>
vars == << schedVars, lifeVars >>

LifeInit ==
  /\ SchedInit
  /\ threads = [p \in Processes |-> {}]
  /\ proc = [p \in Processes |-> "none"]
  /\ maker = [p \in Processes |-> NULL]
  /\ handle = [t \in Threads |-> NULL]
  /\ detached = [t \in Threads |-> t = reaper]
  /\ destroyed = {}
  /\ termination_queue = [t \in Threads |-> << >>]
  /\ zombie_list = << >>
  /\ reaper_wq = << >>
  /\ pc = [t \in Threads |-> IF t = reaper THEN "loop" ELSE "run"]
  /\ joined = [t \in Threads |-> NULL]

----------------------------------------------------------------------------
(* Creation.                                                               *)

\* Client code runs: kernel_main during the boot, or a thread outside any call.
InClientCode == Executing /\ (current # idle => pc[current] = "run")

\* The thread has been through thread_add: only then does its process know it.
Added(t) == state[t] # "UNUSED" /\ (state[t] = "READY" => Linked(ready_list, t))

\* kernel_main starts the reaper before anything else (kernelmain.c:27).
ReaperStarted == Added(reaper)

\* reaper_init: process, thread, thread_add, by kernel_main with interrupts off.
reaper_init ==
  /\ current = idle /\ ~iflag[idle]
  /\ \/ /\ thread_create(reaper)
        /\ proc' = [proc EXCEPT ![process[reaper]] = "live"]
        /\ UNCHANGED threads
     \/ /\ thread_add(reaper)
        /\ threads' = [threads EXCEPT ![process[reaper]] = @ \union {reaper}]
        /\ UNCHANGED proc
  /\ UNCHANGED << maker, handle, detached, destroyed, termination_queue, zombie_list,
                  reaper_wq, pc, joined >>

process_create(p) ==
  /\ InClientCode /\ ReaperStarted
  /\ proc[p] = "none"
  /\ proc' = [proc EXCEPT ![p] = "live"]
  /\ maker' = [maker EXCEPT ![p] = current]
  /\ UNCHANGED << schedVars, threads, handle, detached, destroyed, termination_queue,
                  zombie_list, reaper_wq, pc, joined >>

create(t) ==
  /\ InClientCode
  /\ IF current # idle /\ process[current] = process[t] THEN TRUE ELSE maker[process[t]] = current
  /\ thread_create(t)
  /\ maker' = [maker EXCEPT ![process[t]] = NULL]
  /\ handle' = [handle EXCEPT ![t] = current]
  /\ UNCHANGED << threads, proc, detached, destroyed, termination_queue, zombie_list,
                  reaper_wq, pc, joined >>

\* thread_add, by whoever created the thread.
add(t) ==
  /\ InClientCode /\ handle[t] = current
  /\ thread_add(t)
  /\ threads' = [threads EXCEPT ![process[t]] = @ \union {t}]
  /\ UNCHANGED << proc, maker, handle, detached, destroyed, termination_queue, zombie_list,
                  reaper_wq, pc, joined >>

----------------------------------------------------------------------------
(* Termination.                                                            *)

\* Mutant: a process is destroyed with any of its threads.
process_destroy_early(ts) == [p \in Processes |-> IF \E t \in ts : process[t] = p THEN "destroyed" ELSE proc[p]]

\* The processes left once the threads ts are gone: process_destroy is called
\* for a process whose last thread has just been destroyed.
process_destroy(ts) ==
  [p \in Processes |-> IF (\E t \in ts : process[t] = p) /\ threads[p] \subseteq ts
                       THEN "destroyed" ELSE proc[p]]

\* thread_destroy on every thread of ts, one after the other, with the
\* process_destroy calls in between, in one section.
destroy(ts) ==
  /\ destroyed' = destroyed \union ts
  /\ threads' = [p \in Processes |-> threads[p] \ ts]
  /\ proc' = process_destroy(ts)

\* scheduler_push_zombie; the caller wakes wait_queue_remove(reaper_wq).
push_zombie(t) ==
  /\ zombie_list' = Append(zombie_list, t)
  /\ reaper_wq' = wait_queue_rest(reaper_wq)

\* Mutant: every terminated thread is handed to the reaper.
exit_zombie(t) ==
  /\ current = t /\ pc[t] = "run"
  /\ \A u \in Threads : handle[u] = t => Added(u)
  /\ push_zombie(t)
  /\ thread_kill_current(termination_queue[t] \o wait_queue_remove(reaper_wq))
  /\ termination_queue' = [termination_queue EXCEPT ![t] = << >>]
  /\ UNCHANGED << threads, proc, maker, handle, detached, destroyed, pc, joined >>

\* Mutant: the joiners are not woken.
exit_silent(t) ==
  /\ current = t /\ pc[t] = "run"
  /\ \A u \in Threads : handle[u] = t => Added(u)
  /\ IF detached[t]
     THEN push_zombie(t) /\ thread_kill_current(wait_queue_remove(reaper_wq))
     ELSE thread_kill_current(<< >>) /\ UNCHANGED << zombie_list, reaper_wq >>
  /\ UNCHANGED << threads, proc, maker, handle, detached, destroyed, termination_queue, pc, joined >>

\* thread_exit and thread_kill_current: scheduler_terminate wakes the joiners
\* and passes a detached thread to the reaper; then the last context switch.
exit(t) ==
  /\ current = t /\ pc[t] = "run"
  /\ \A u \in Threads : handle[u] = t => Added(u)
  /\ IF detached[t]
     THEN /\ push_zombie(t)
          /\ thread_kill_current(termination_queue[t] \o wait_queue_remove(reaper_wq))
     ELSE /\ thread_kill_current(termination_queue[t])
          /\ UNCHANGED << zombie_list, reaper_wq >>
  /\ termination_queue' = [termination_queue EXCEPT ![t] = << >>]
  /\ UNCHANGED << threads, proc, maker, handle, detached, destroyed, pc, joined >>

\* thread_join up to its decision: destroy a terminated thread at once, or
\* sleep in its termination queue.
thread_join(c, t) ==
  /\ current = c /\ pc[c] = "run" /\ handle[t] = c /\ ~detached[t]
  /\ Added(t)
  /\ handle' = [handle EXCEPT ![t] = NULL]
  /\ IF state[t] = "TERMINATED"
     THEN /\ destroy({t})
          /\ UNCHANGED << schedVars, termination_queue, pc, joined >>
     ELSE /\ termination_queue' = [termination_queue EXCEPT ![t] = wait_queue_add(@, c)]
          /\ pc' = [pc EXCEPT ![c] = "join"]
          /\ joined' = [joined EXCEPT ![c] = t]
          /\ wait_queue_sleep(<< >>)
          /\ UNCHANGED << destroyed, threads, proc >>
  /\ UNCHANGED << maker, detached, zombie_list, reaper_wq >>

\* The rest of thread_join once the joiner runs again.
thread_join_resume(c) ==
  /\ current = c /\ pc[c] = "join"
  /\ destroy({joined[c]})
  /\ section_end(TRUE)
  /\ pc' = [pc EXCEPT ![c] = "run"]
  /\ joined' = [joined EXCEPT ![c] = NULL]
  /\ UNCHANGED << maker, handle, detached, termination_queue, zombie_list, reaper_wq >>

\* Mutant: a thread that has already terminated is not handed to the reaper.
thread_detach_late(c, t) ==
  /\ current = c /\ pc[c] = "run" /\ handle[t] = c /\ ~detached[t]
  /\ Added(t)
  /\ handle' = [handle EXCEPT ![t] = NULL]
  /\ detached' = [detached EXCEPT ![t] = TRUE]
  /\ UNCHANGED << schedVars, threads, proc, maker, destroyed, termination_queue, zombie_list, reaper_wq, pc, joined >>

\* thread_detach: a thread that has already terminated goes to the reaper now.
thread_detach(c, t) ==
  /\ current = c /\ pc[c] = "run" /\ handle[t] = c /\ ~detached[t]
  /\ Added(t)
  /\ handle' = [handle EXCEPT ![t] = NULL]
  /\ detached' = [detached EXCEPT ![t] = TRUE]
  /\ IF state[t] = "TERMINATED"
     THEN wait_queue_wake(reaper_wq) /\ push_zombie(t)
     ELSE UNCHANGED << schedVars, zombie_list, reaper_wq >>
  /\ UNCHANGED << threads, proc, maker, destroyed, termination_queue, pc, joined >>

----------------------------------------------------------------------------
(* The reaper: while (true) { sleep; drain }.                              *)

\* It goes to sleep without looking at the zombie list (reaper.c:41-42).
reaper_sleep ==
  /\ current = reaper /\ pc[reaper] = "loop"
  /\ reaper_wq' = wait_queue_add(reaper_wq, reaper)
  /\ pc' = [pc EXCEPT ![reaper] = "asleep"]
  /\ wait_queue_sleep(<< >>)
  /\ UNCHANGED << threads, proc, maker, handle, detached, destroyed, termination_queue,
                  zombie_list, joined >>

\* It has been woken and restores interrupts.
reaper_resume ==
  /\ current = reaper /\ pc[reaper] = "asleep"
  /\ pc' = [pc EXCEPT ![reaper] = "drain"]
  /\ section_end(TRUE)
  /\ UNCHANGED << threads, proc, maker, handle, detached, destroyed, termination_queue,
                  zombie_list, reaper_wq, joined >>

\* Mutant: one zombie per wake-up.
reaper_drain_one ==
  /\ current = reaper /\ pc[reaper] = "drain"
  /\ destroy(ToSet(wait_queue_remove(zombie_list)))
  /\ zombie_list' = wait_queue_rest(zombie_list)
  /\ pc' = [pc EXCEPT ![reaper] = "loop"]
  /\ UNCHANGED << schedVars, maker, handle, detached, termination_queue, reaper_wq, joined >>

\* It destroys every zombie, in one section.
reaper_drain ==
  /\ current = reaper /\ pc[reaper] = "drain"
  /\ destroy(ToSet(zombie_list))
  /\ zombie_list' = << >>
  /\ pc' = [pc EXCEPT ![reaper] = "loop"]
  /\ UNCHANGED << schedVars, maker, handle, detached, termination_queue, reaper_wq, joined >>

----------------------------------------------------------------------------

Environment ==
  /\ \/ scheduler_tick
     \/ ReaperStarted /\ scheduler_enter_idle
     \/ InClientCode /\ thread_yield
  /\ UNCHANGED lifeVars

\* What the reaper and a joiner do next when they run.
Proceed(t) ==
  \/ thread_join_resume(t)
  \/ t = reaper /\ (reaper_sleep \/ reaper_resume \/ reaper_drain)

LifeNext ==
  \/ Environment
  \/ reaper_init
  \/ \E p \in Processes : process_create(p)
  \/ \E t \in Threads \ {reaper} : create(t) \/ add(t) \/ exit(t)
  \/ \E c, t \in Threads \ {reaper} : thread_join(c, t) \/ thread_detach(c, t)
  \/ \E t \in Threads : Proceed(t)

LifeSafety == LifeInit /\ [][LifeNext]_vars

(* Fairness: the timer (see Scheduler), the boot, and the next step of a     *)
(* thread that is given the CPU again and again.  No thread has to end.     *)
LifeFairness ==
  /\ SF_vars(scheduler_tick /\ UNCHANGED lifeVars)
  /\ WF_vars(reaper_init)
  /\ WF_vars(ReaperStarted /\ scheduler_enter_idle /\ UNCHANGED lifeVars)
  /\ \A t \in Threads : SF_vars(Proceed(t))

LifeSpec == LifeSafety /\ LifeFairness

----------------------------------------------------------------------------
(* Properties.                                                             *)

\* The types; the reaper is in its queue at most once (list_insert_before asserts that a node is unlinked, list.c:60-77).
LifeTypeOK ==
  /\ threads \in [Processes -> SUBSET Threads]
  /\ proc \in [Processes -> {"none", "live", "destroyed"}]
  /\ maker \in [Processes -> AllThreads \union {NULL}]
  /\ handle \in [Threads -> AllThreads \union {NULL}]
  /\ detached \in [Threads -> BOOLEAN]
  /\ destroyed \in SUBSET Threads
  /\ termination_queue \in [Threads -> Seq(Threads)]
  /\ zombie_list \in Seq(Threads)
  /\ reaper_wq \in {<< >>, << reaper >>}
  /\ pc \in [Threads -> {"run", "join", "loop", "asleep", "drain"}]
  /\ joined \in [Threads -> Threads \union {NULL}]

\* No freed thread is reachable: it is not running, in no list, nobody sleeps
\* on it, nobody is about to destroy it again, and no client still holds it.
\* thread_destroy's ASSERT (thread.c:300) held when it was freed.
NoUseAfterFree ==
  \A t \in destroyed :
    /\ state[t] = "TERMINATED"
    /\ current # t
    /\ ~Linked(ready_list, t) /\ ~Linked(zombie_list, t)
    /\ termination_queue[t] = << >>
    /\ \A c \in Threads : joined[c] # t
    /\ handle[t] = NULL

\* A process outlives its threads, so none of them that has been created and not
\* freed has a dangling process pointer; and it outlives its use as the loaded
\* address space, although idle keeps the page directory it finds in CR3
\* (scheduler.c:225) and process_destroy does not look at CR3.
ProcessOutlivesThreads ==
  /\ \A t \in Threads \ destroyed : state[t] # "UNUSED" => proc[process[t]] = "live"
  /\ cr3 # kernel_dir => proc[cr3] = "live"

\* Once a detached thread has ended it is a zombie or has been freed: none slips
\* past the reaper, whether it is detached before or after it ends.
NoZombieForgotten ==
  \A t \in Threads : state[t] = "TERMINATED" /\ detached[t] =>
                       Linked(zombie_list, t) \/ t \in destroyed

\* Whoever joins a thread that ends returns from thread_join, and the thread is
\* freed: the end of a thread and its joiner do not miss each other, and the
\* joiner is given the CPU again.
JoinReturns ==
  \A c, t \in Threads :
    (joined[c] = t /\ state[t] = "TERMINATED") ~> (joined[c] = NULL /\ t \in destroyed)

\* The reaper has been woken and has not drained the zombie list yet.
ReaperWoken == pc[reaper] = "drain" \/ (pc[reaper] = "asleep" /\ reaper_wq = << >>)

\* A zombie that is on the list before a woken reaper drains it is freed, also one
\* that was added after the wake-up.
ZombiesReaped ==
  \A t \in Threads : (Linked(zombie_list, t) /\ ReaperWoken) ~> t \in destroyed

\* Whether a thread that has ended is joined or reaped, it is freed in the end and
\* nobody goes on waiting for it.
EndedAreFreed == JoinReturns /\ ZombiesReaped

\* "When true the reaper owns this thread's lifetime and will call
\* thread_destroy() once it terminates" (thread.h:55-56).
DetachedAreReaped ==
  \A t \in Threads : (detached[t] /\ state[t] = "TERMINATED") ~> t \in destroyed

============================================================================
