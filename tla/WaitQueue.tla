----------------------------- MODULE WaitQueue -----------------------------
(***************************************************************************)
(* The wait queues of kernel/task/wait.c, on which the mutex, the          *)
(* semaphore, the condition variable, thread_join and the reaper sleep.    *)
(* A queue is the sequence of the threads asleep in it.  wait_queue_remove  *)
(* returns a thread or NULL; here it is the sequence of at most one thread  *)
(* that the caller goes on to wake, and wait_queue_rest the queue it leaves.*)
(***************************************************************************)
EXTENDS Scheduler

wait_queue_add(q, t) == Append(q, t)

\* Mutant: every sleeper is taken.
wait_queue_remove_every(q) == q

wait_queue_remove(q) == IF q = << >> THEN << >> ELSE << Head(q) >>

\* Mutant: the popped thread stays in the queue.
wait_queue_rest_stale(q) == q

wait_queue_rest(q) == IF q = << >> THEN << >> ELSE Tail(q)

\* wait_queue_sleep, entered after the section has woken ws; the caller adds
\* the current thread to its queue in the same step.  The section is still
\* open: interrupts are off when the thread runs again, until it calls
\* interrupt_restore.
wait_queue_sleep(ws) == thread_block(ws) /\ iflag' = [iflag EXCEPT ![current] = FALSE]

\* interrupt_restore at the end of such a section, with the flag it had saved.
section_end(saved) ==
  /\ iflag' = [iflag EXCEPT ![current] = saved]
  /\ UNCHANGED << ready_list, current, state, quantum_remaining, cr3, tss_esp0 >>

\* wait_queue_wake_all wakes the whole queue in order; wait_queue_wake its front.
wait_queue_wake_all(q) == IF q = << >> THEN UNCHANGED schedVars
                          ELSE thread_unblock(q) /\ UNCHANGED iflag

wait_queue_wake(q) == wait_queue_wake_all(wait_queue_remove(q))

============================================================================
