----------------------------- MODULE Scheduler -----------------------------
(***************************************************************************)
(* The round-robin scheduler of kernel/task/scheduler.c with the thread    *)
(* operations of kernel/task/thread.c that drive it, on one CPU.           *)
(*                                                                         *)
(* A kernel section that runs with interrupts off (between interrupt_save  *)
(* and interrupt_restore, inside an interrupt handler or inside a system   *)
(* call) cannot be interleaved with another thread: it is one action, up   *)
(* to and including the context switch it ends in.  Everything else is     *)
(* interleaved by the timer interrupt.                                     *)
(*                                                                         *)
(* The module also says what any client of the scheduler may do (SchedNext);*)
(* the modules that model the mutex, the semaphore, the condition variable *)
(* and the thread life cycle extend this one and are shown to be such      *)
(* clients.                                                                *)
(***************************************************************************)
EXTENDS Integers, Sequences, SequencesExt

CONSTANTS
  Threads,        \* the struct threads kmalloc can hand out; idle is not one
  idle,           \* idle_thread, the static struct of scheduler.c
  Processes,      \* the struct processes
  process,        \* thread->process, fixed when the thread is created
  kernel_dir,     \* the page directory loaded at boot, of no process
  QUANTUM         \* SCHEDULER_QUANTUM_TICKS

ASSUME ThreadsAssumption == idle \notin Threads
ASSUME FiniteAssumption == IsFiniteSet(Threads)
ASSUME ProcessAssumption == process \in [Threads -> Processes] /\ kernel_dir \notin Processes
ASSUME QuantumAssumption == QUANTUM \in Nat \ {0}

VARIABLES
  ready_list,         \* the ready list; the running thread stays in it
  current,            \* scheduler_current()
  state,              \* thread->state; "UNUSED" before thread_create
  quantum_remaining,  \* ticks until the running thread is preempted
  iflag,              \* EFLAGS.IF of each thread: the value it has, or will
                      \*   have again once context_switch returns to it
  cr3,                \* the process whose page directory is loaded
  tss_esp0            \* the thread whose kernel stack Ring 3 would enter

schedVars == << ready_list, current, state, quantum_remaining, iflag, cr3, tss_esp0 >>

AllThreads == Threads \union {idle}

ThreadState == {"UNUSED", "READY", "RUNNING", "BLOCKED", "TERMINATED"}

----------------------------------------------------------------------------
(* The ready list.                                                         *)

\* sched_node is linked: its prev and next are not NULL.
Linked(rl, t) == \E i \in 1..Len(rl) : rl[i] = t

\* The position of a linked thread.
Pos(rl, t) == CHOOSE i \in 1..Len(rl) : rl[i] = t

scheduler_add(rl, t) == Append(rl, t)

scheduler_remove(rl, t) == IF Linked(rl, t) THEN RemoveAt(rl, Pos(rl, t)) ELSE rl

\* Mutant: the rotation restarts at the front instead of going on.
scheduler_next_front(rl) == IF rl = << >> THEN idle ELSE rl[1]

\* Mutant: list_prev where list_next is meant.
scheduler_next_prev(rl) ==
  IF rl = << >> THEN idle
  ELSE IF ~Linked(rl, current) THEN rl[1]
  ELSE LET i == Pos(rl, current) IN IF i = 1 THEN rl[Len(rl)] ELSE rl[i - 1]

\* The thread scheduler_next() selects: idle when nothing is ready, the front
\* when the current thread is not in the list (it blocked, it terminated, or
\* it is idle), otherwise the successor of the current thread, cyclically.
scheduler_next(rl) ==
  IF rl = << >> THEN idle
  ELSE IF ~Linked(rl, current) THEN rl[1]
  ELSE LET i == Pos(rl, current) IN IF i = Len(rl) THEN rl[1] ELSE rl[i + 1]

\* Mutant: the stack of the thread that leaves is written, not that of next.
tss_set_kernel_stack_old(next) == IF next = current THEN tss_esp0 ELSE current

tss_set_kernel_stack(next) == IF next = current THEN tss_esp0 ELSE next

\* idle_thread.process is NULL: idle keeps the address space it finds.
paging_load_directory(next) == IF next \in {current, idle} THEN cr3 ELSE process[next]

\* Mutant: a preempted thread is not demoted.
demote_never(rl, st) == st

\* scheduler_next() turns the running thread back into a ready one.
demote(rl, st) ==
  IF rl # << >> /\ st[current] = "RUNNING" /\ current # idle
  THEN [st EXCEPT ![current] = "READY"]
  ELSE st

\* scheduler_switch(), entered with the ready list rl and the thread states st
\* that the section has left so far.
scheduler_switch(rl, st) ==
  LET next == scheduler_next(rl) IN
  /\ ready_list' = rl
  /\ current' = next
  /\ state' = [demote(rl, st) EXCEPT ![next] = "RUNNING"]
  /\ quantum_remaining' = QUANTUM
  /\ tss_esp0' = tss_set_kernel_stack(next)
  /\ cr3' = paging_load_directory(next)

----------------------------------------------------------------------------
(* The operations.  `ws' is the sequence of threads a section wakes before  *)
(* it goes on: thread_unblock is called on each of them in that order.      *)

\* Some code other than the idle loop runs: a thread, or, before
\* scheduler_enter_idle, kernel_main in the name of idle with interrupts off.
Executing == current # idle \/ ~iflag[idle]

\* The threads blocked now, in every order in which some of them can be woken.
WakeOrders ==
  UNION {{ ws \in [1..n -> {t \in Threads : state[t] = "BLOCKED"}] : IsInjective(ws) }
          : n \in 0..Cardinality(Threads)}

\* The states once every thread of ws has been through thread_unblock.
Woken(ws) == [t \in AllThreads |-> IF Linked(ws, t) THEN "READY" ELSE state[t]]

\* The kernel's boot as scheduler_start leaves it: current is idle, interrupts
\* are off, kernel_main is about to create the first threads.
SchedInit ==
  /\ ready_list = << >>
  /\ current = idle
  /\ state = [t \in AllThreads |-> IF t = idle THEN "RUNNING" ELSE "UNUSED"]
  /\ quantum_remaining = QUANTUM
  /\ iflag = [t \in AllThreads |-> t # idle]
  /\ cr3 = kernel_dir
  /\ tss_esp0 = idle

\* kernel_main leaves the bootstrap stack for the idle loop, which executes sti.
scheduler_enter_idle ==
  /\ current = idle /\ ~iflag[idle]
  /\ iflag' = [iflag EXCEPT ![idle] = TRUE]
  /\ UNCHANGED << ready_list, current, state, quantum_remaining, cr3, tss_esp0 >>

\* The running thread disables interrupts (or enters a system call).
interrupt_save ==
  /\ current # idle /\ iflag[current]
  /\ iflag' = [iflag EXCEPT ![current] = FALSE]
  /\ UNCHANGED << ready_list, current, state, quantum_remaining, cr3, tss_esp0 >>

\* The running thread enables them again (or returns from the system call).
interrupt_restore ==
  /\ current # idle /\ ~iflag[current]
  /\ iflag' = [iflag EXCEPT ![current] = TRUE]
  /\ UNCHANGED << ready_list, current, state, quantum_remaining, cr3, tss_esp0 >>

\* thread_create: the thread is READY but not yet in any list.
thread_create(t) ==
  /\ Executing
  /\ state[t] = "UNUSED"
  /\ state' = [state EXCEPT ![t] = "READY"]
  /\ UNCHANGED << ready_list, current, quantum_remaining, iflag, cr3, tss_esp0 >>

\* Mutant: a second thread_add of the same thread is let through.
thread_add_again(t) ==
  /\ Executing
  /\ state[t] = "READY"
  /\ ready_list' = scheduler_add(ready_list, t)
  /\ UNCHANGED << current, state, quantum_remaining, iflag, cr3, tss_esp0 >>

\* thread_add: the contract (an ASSERT of list_push_back) is that the thread
\* has been created and is in no list.
thread_add(t) ==
  /\ Executing
  /\ state[t] = "READY" /\ ~Linked(ready_list, t)
  /\ ready_list' = scheduler_add(ready_list, t)
  /\ UNCHANGED << current, state, quantum_remaining, iflag, cr3, tss_esp0 >>

\* thread_unblock on every thread of ws.  The interrupt flag the caller is left
\* with is for the section around the calls to say.
thread_unblock(ws) ==
  /\ current # idle
  /\ ready_list' = ready_list \o ws
  /\ state' = Woken(ws)
  /\ UNCHANGED << current, quantum_remaining, cr3, tss_esp0 >>

\* Any client's section that wakes ws, ending with interrupts on or off.
wake_section(ws) ==
  /\ thread_unblock(ws)
  /\ \E b \in BOOLEAN : iflag' = [iflag EXCEPT ![current] = b]

\* thread_yield.
thread_yield ==
  /\ current # idle
  /\ scheduler_switch(ready_list, state)
  /\ UNCHANGED iflag

\* thread_block and wait_queue_sleep, after waking ws in the same section, up to
\* the context switch.
thread_block(ws) ==
  /\ current # idle
  /\ scheduler_switch(scheduler_remove(ready_list \o ws, current),
                      [Woken(ws) EXCEPT ![current] = "BLOCKED"])

\* Any client's section that puts the current thread to sleep.  When the thread
\* is dispatched again it is still inside the section, with interrupts off, or
\* the section ends at once and restores them.
block_section(ws) ==
  /\ thread_block(ws)
  /\ \E b \in BOOLEAN : iflag' = [iflag EXCEPT ![current] = b]

\* thread_kill_current: scheduler_terminate wakes the joiners (and the reaper),
\* then the thread yields for the last time.
thread_kill_current(ws) ==
  /\ current # idle
  /\ scheduler_switch(scheduler_remove(ready_list, current) \o ws,
                      [Woken(ws) EXCEPT ![current] = "TERMINATED"])
  /\ UNCHANGED iflag

\* Mutant: the quantum is tested before it is decremented.
scheduler_tick_off_by_one ==
  /\ iflag[current]
  /\ IF quantum_remaining > 0
     THEN /\ quantum_remaining' = quantum_remaining - 1
          /\ UNCHANGED << ready_list, current, state, iflag, cr3, tss_esp0 >>
     ELSE scheduler_switch(ready_list, state) /\ UNCHANGED iflag

\* The timer interrupt, taken only while the running thread has interrupts on.
scheduler_tick ==
  /\ iflag[current]
  /\ IF quantum_remaining - 1 > 0
     THEN /\ quantum_remaining' = quantum_remaining - 1
          /\ UNCHANGED << ready_list, current, state, iflag, cr3, tss_esp0 >>
     ELSE scheduler_switch(ready_list, state) /\ UNCHANGED iflag

SchedNext ==
  \/ scheduler_enter_idle
  \/ interrupt_save
  \/ interrupt_restore
  \/ \E t \in Threads : thread_create(t)
  \/ \E t \in Threads : thread_add(t)
  \/ \E ws \in WakeOrders \ {<< >>} : wake_section(ws)
  \/ thread_yield
  \/ \E ws \in WakeOrders : block_section(ws)
  \/ \E ws \in WakeOrders : thread_kill_current(ws)
  \/ scheduler_tick

SchedSafety == SchedInit /\ [][SchedNext]_schedVars

(* Fairness.  The PIC latches a timer interrupt that arrives while IF is 0  *)
(* and delivers it as soon as IF is 1: strong fairness.  A section that     *)
(* disabled interrupts ends, and so does the boot: weak fairness.           *)
SchedFairness ==
  /\ SF_schedVars(scheduler_tick)
  /\ WF_schedVars(interrupt_restore)
  /\ WF_schedVars(scheduler_enter_idle)

SchedSpec == SchedSafety /\ SchedFairness

----------------------------------------------------------------------------
(* Properties.                                                             *)

\* The type of the scheduler's state.  The quantum never reaches 0 between two
\* ticks: `--quantum_remaining' (scheduler.c:386) cannot wrap around.
SchedTypeOK ==
  /\ ready_list \in Seq(Threads)
  /\ current \in AllThreads
  /\ state \in [AllThreads -> ThreadState]
  /\ quantum_remaining \in 1..QUANTUM
  /\ iflag \in [AllThreads -> BOOLEAN]
  /\ cr3 \in Processes \union {kernel_dir}
  /\ tss_esp0 \in AllThreads

\* No thread is in the ready list twice (list_push_back asserts its node is
\* unlinked), and no thread that blocked or terminated is still in it, whatever
\* the order of wake-ups, preemptions and terminations.
ReadyListSound ==
  /\ IsInjective(ready_list)
  /\ \A i \in 1..Len(ready_list) : state[ready_list[i]] \in {"READY", "RUNNING"}

\* Exactly one thread is RUNNING besides idle, it is the current one, and it is
\* in the ready list, so that scheduler_next() can find its successor.
OneRunning ==
  /\ state[current] = "RUNNING"
  /\ \A t \in Threads : state[t] = "RUNNING" => t = current
  /\ current # idle => Linked(ready_list, current)

\* While a thread runs, CR3 holds its process's page directory and the TSS its
\* kernel stack, although scheduler_switch() skips both writes when the thread
\* does not change and the CR3 write for idle.
ContextLoaded ==
  current # idle => cr3 = process[current] /\ tss_esp0 = current

\* A thread that waits its turn.
Waiting(t) == state[t] = "READY" /\ Linked(ready_list, t)

\* The position of the current thread, 0 when it is not in the list.
Cursor == IF Linked(ready_list, current) THEN Pos(ready_list, current) ELSE 0

\* The wait of a thread at position i has become shorter when it has moved
\* towards the front, or when it has not moved and the cursor has: up to i
\* without reaching it, or, from beyond i, further on or back to the front.
Shorter(i, c, i1, c1) ==
  \/ i1 < i
  \/ i1 = i /\ c < i /\ c < c1 /\ c1 < i
  \/ i1 = i /\ c > i /\ (c1 > c \/ c1 < i)

RoundRobinStep ==
  \A t \in Threads : Waiting(t) /\ Waiting(t)' =>
    LET i == Pos(ready_list, t)  i1 == Pos(ready_list', t) IN
    IF current' # current THEN Shorter(i, Cursor, i1, Cursor') ELSE i1 <= i

\* Every dispatch brings every waiting thread strictly closer to the CPU, also
\* when blocking and terminating threads send the rotation back to the front
\* (scheduler.c:157-161) and woken threads join the list; and a step that
\* dispatches nobody moves nobody back.
RoundRobin == [][RoundRobinStep]_schedVars

LeavesByItselfStep ==
  \A t \in Threads : Linked(ready_list, t) /\ ~Linked(ready_list', t) =>
    t = current /\ state'[t] \in {"BLOCKED", "TERMINATED"}

\* A thread leaves the ready list only in its own time slice, by blocking or
\* terminating: no other thread can take it out.
LeavesByItself == [][LeavesByItselfStep]_schedVars

\* No starvation: a thread that is in the ready list eventually runs.
EventuallyRuns == \A t \in Threads : Waiting(t) ~> current = t

============================================================================
