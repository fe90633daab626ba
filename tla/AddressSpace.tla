--------------------------- MODULE AddressSpace ----------------------------
(***************************************************************************)
(* What a process's user address space is made of and who frees it: the ELF *)
(* image (kernel/kernel/elf_loader.c), the user stacks and user threads      *)
(* (kernel/arch/x86/usermode.c), the exec system call                       *)
(* (kernel/arch/x86/syscall.c), thread_destroy and process_destroy.         *)
(*                                                                         *)
(* Every operation here runs with interrupts off (in a system call, at boot, *)
(* or in the reaper) and is one action.  Any allocation may fail: `heap' is  *)
(* the number of kmalloc calls of the operation that succeed, the frames run *)
(* out when they run out.                                                  *)
(***************************************************************************)
EXTENDS Paging, Sequences, SequencesExt

CONSTANTS
  Threads,          \* user threads
  Processes,
  process,          \* thread->process
  Images,           \* the ELF images: each the sequence of the pages it loads,
                    \*   none twice
  StackStart,       \* first page of the user stack region, which ends at NumPages
  KernelStackPages, \* KERNEL_STACK_SIZE / PAGE_SIZE
  MaxExecs          \* bound of the model: how often exec is called

StackPages == {v \in Pages : v >= StackStart}
MaxImage == Max({Len(i) : i \in Images})

ASSUME SpaceAssumption ==
  /\ process \in [Threads -> Processes]
  /\ Images \subseteq Seq(Pages) /\ \A i \in Images : IsInjective(i)
  /\ StackStart \in Nat \ {0} /\ MaxExecs \in Nat

VARIABLES
  mem,              \* the physical memory and the mappings (module Paging)
  reserved,         \* the frames pmm_init left marked
  page_directory,   \* process->page_directory, 0 when there is no process
  loaded,           \* the processes that have been given their first image
  user_stacks,      \* process->user_stacks: the reserved stack pages
  user_stack,       \* thread->user_stack, 0 when there is no such thread
  kernel_stack,     \* the frames of the thread's kernel stack
  esp_page,         \* the page the thread's Ring 3 stack really is in
  intact,           \* the threads whose address space no other thread replaced
  execs,
  panicked          \* an ASSERT has fired: the machine has stopped

vars == << mem, reserved, page_directory, loaded, user_stacks, user_stack, kernel_stack,
           esp_page, intact, execs, panicked >>

Live(t) == user_stack[t] # 0
LiveIn(p) == {t \in Threads : process[t] = p /\ Live(t)}

SpaceInit ==
  /\ \E n \in 0..NumFrames : reserved = 1..n
  /\ mem = FreshMemory(reserved)
  /\ page_directory = [p \in Processes |-> 0]
  /\ loaded = {}
  /\ user_stacks = [p \in Processes |-> << >>]
  /\ user_stack = [t \in Threads |-> 0]
  /\ kernel_stack = [t \in Threads |-> {}]
  /\ esp_page = [t \in Threads |-> 0]
  /\ intact = {}
  /\ execs = 0
  /\ panicked = FALSE

----------------------------------------------------------------------------
(* Loading an image.                                                       *)

\* One page of elf_load: allocate, map, verify, remember.  l.heap counts down.
load_page(d, l, v) ==
  LET f == pmm_alloc_page(l.m)
      m1 == paging_map(Taken(l.m, f), d, v, f) IN
  IF ~l.ok THEN l
  ELSE IF f = 0 THEN [l EXCEPT !.ok = FALSE]
  ELSE IF paging_translate(m1, d, v) # f \/ l.heap = 0
  THEN [l EXCEPT !.ok = FALSE, !.m = pmm_free_page(paging_unmap(m1, d, v), f)]
  ELSE [l EXCEPT !.m = m1, !.heap = @ - 1, !.loaded = Append(@, v)]

unload_page(d, m, v) == pmm_free_page(paging_unmap(m, d, v), paging_translate(m, d, v))

\* elf_load: after a failure the pages loaded so far are removed, last first.
elf_load(m, d, image, heap) ==
  LET Step(l, v) == load_page(d, l, v)
      Undo(n, v) == unload_page(d, n, v)
      l == FoldLeft(Step, [ok |-> TRUE, m |-> m, heap |-> heap, loaded |-> << >>], image) IN
  IF l.ok THEN l ELSE [l EXCEPT !.m = FoldLeft(Undo, l.m, Reverse(l.loaded))]

----------------------------------------------------------------------------
(* Processes.                                                              *)

process_create(p) ==
  LET d == pmm_alloc_page(mem) IN
  /\ ~panicked /\ page_directory[p] = 0 /\ d # 0
  /\ mem' = Taken(mem, d)
  /\ page_directory' = [page_directory EXCEPT ![p] = d]
  /\ UNCHANGED << reserved, loaded, user_stacks, user_stack, kernel_stack, esp_page, intact, execs, panicked >>

\* The first image of a process, which init_process_start panics without.
load(p, image, heap) ==
  LET d == page_directory[p]
      l == elf_load(mem, d, image, heap) IN
  /\ ~panicked /\ d # 0 /\ p \notin loaded /\ LiveIn(p) = {}
  /\ mem' = l.m
  /\ loaded' = loaded \union {p}
  /\ panicked' = ~l.ok
  /\ UNCHANGED << reserved, page_directory, user_stacks, user_stack, kernel_stack, esp_page, intact, execs >>

----------------------------------------------------------------------------
(* User stacks and threads.                                                *)

\* Mutant: the search goes one page too far down.
user_stack_alloc_below(m, d, stacks) ==
  LET free == {v \in Pages : v >= StackStart - 1 /\ v \notin ToSet(stacks) /\ paging_translate(m, d, v) = 0} IN
  IF free = {} THEN 0 ELSE Max(free)

\* Mutant: only the mappings are looked at, not the reservations.
user_stack_alloc_unreserved(m, d, stacks) ==
  LET free == {v \in StackPages : paging_translate(m, d, v) = 0} IN
  IF free = {} THEN 0 ELSE Max(free)

\* user_stack_alloc: the highest stack page neither reserved nor mapped.
user_stack_alloc(m, d, stacks) ==
  LET free == {v \in StackPages : v \notin ToSet(stacks) /\ paging_translate(m, d, v) = 0} IN
  IF free = {} THEN 0 ELSE Max(free)

user_stack_reserve(stacks, v) == Append(stacks, v)

\* usermode_stack_release removes the first entry for v; its last line asserts
\* that there is one.
usermode_stack_release(stacks, v) == RemoveFirst(stacks, v)

\* The kernel stack thread_create allocates, {} when the frames run out.
KernelStack(m) ==
  LET free == Frames \ m.used IN
  IF Cardinality(free) < KernelStackPages THEN {}
  ELSE {f \in free : Cardinality({g \in free : g < f}) < KernelStackPages}

\* The two functions that create a user thread; they differ in what becomes of
\* the reservation when there is no frame for the stack (`keep').
user_thread_create(t, heap, keep) ==
  LET p == process[t]
      d == page_directory[p]
      v == user_stack_alloc(mem, d, user_stacks[p])
      f == pmm_alloc_page(mem)
      m1 == paging_map(Taken(mem, f), d, v, f)
      ks == KernelStack(m1) IN
  /\ ~panicked /\ d # 0 /\ ~Live(t)
  /\ v # 0 /\ heap >= 2
  /\ IF f = 0
     THEN /\ user_stacks' = [user_stacks EXCEPT ![p] = IF keep THEN user_stack_reserve(@, v) ELSE @]
          /\ UNCHANGED << mem, user_stack, kernel_stack, esp_page, intact, panicked >>
     ELSE IF paging_translate(m1, d, v) # f
     THEN /\ panicked' = TRUE
          /\ UNCHANGED << mem, user_stacks, user_stack, kernel_stack, esp_page, intact >>
     ELSE IF ks = {} \/ heap < 3
     THEN /\ mem' = pmm_free_page(paging_unmap(m1, d, v), f)
          /\ UNCHANGED << user_stacks, user_stack, kernel_stack, esp_page, intact, panicked >>
     ELSE /\ mem' = [m1 EXCEPT !.used = @ \union ks]
          /\ user_stacks' = [user_stacks EXCEPT ![p] = user_stack_reserve(@, v)]
          /\ user_stack' = [user_stack EXCEPT ![t] = v]
          /\ kernel_stack' = [kernel_stack EXCEPT ![t] = ks]
          /\ esp_page' = [esp_page EXCEPT ![t] = v]
          /\ intact' = intact \union {t}
          /\ UNCHANGED panicked
  /\ UNCHANGED << reserved, page_directory, loaded, execs >>

\* usermode_thread_create leaves the reservation behind (usermode.c:225-229).
usermode_thread_create(t, heap) == user_thread_create(t, heap, TRUE)

usermode_elf_thread_create(t, heap) == user_thread_create(t, heap, FALSE)

\* Mutant: the page of the user stack is unmapped but not freed.
thread_destroy_leak(m, d, t) ==
  paging_unmap([m EXCEPT !.used = @ \ kernel_stack[t]], d, user_stack[t])

\* thread_destroy: kernel stack, user stack page (as recorded in the thread).
thread_destroy(m, d, t) ==
  unload_page(d, [m EXCEPT !.used = @ \ kernel_stack[t]], user_stack[t])

\* thread_destroy of a terminated thread, by its joiner or the reaper, and
\* process_destroy when it was the last one.
destroy(t) ==
  LET p == process[t]
      d == page_directory[p]
      m1 == thread_destroy(mem, d, t)
      stacks == usermode_stack_release(user_stacks[p], user_stack[t])
      last == LiveIn(p) = {t} IN
  /\ ~panicked /\ Live(t)
  /\ user_stack' = [user_stack EXCEPT ![t] = 0]
  /\ kernel_stack' = [kernel_stack EXCEPT ![t] = {}]
  /\ esp_page' = [esp_page EXCEPT ![t] = 0]
  /\ user_stacks' = [user_stacks EXCEPT ![p] = stacks]
  /\ panicked' = (last /\ stacks # << >>)
  /\ IF last /\ stacks = << >>
     THEN /\ mem' = paging_destroy_directory(m1, d)
          /\ page_directory' = [page_directory EXCEPT ![p] = 0]
          /\ loaded' = loaded \ {p}
     ELSE /\ mem' = m1
          /\ UNCHANGED << page_directory, loaded >>
  /\ intact' = intact \ {t}
  /\ UNCHANGED << reserved, execs >>

----------------------------------------------------------------------------
(* exec.                                                                   *)

\* usermode_stack_create for the process in directory d: what it leaves of the
\* memory and of the reservations.
usermode_stack_create(m, d, stacks, heap) ==
  LET v == user_stack_alloc(m, d, stacks)
      f == pmm_alloc_page(m)
      m1 == paging_map(Taken(m, f), d, v, f) IN
  IF v = 0 \/ heap = 0 \/ f = 0 THEN [v |-> 0, m |-> m, stacks |-> stacks]
  ELSE IF paging_translate(m1, d, v) # f
  THEN [v |-> 0, m |-> pmm_free_page(paging_unmap(m1, d, v), f), stacks |-> stacks]
  ELSE [v |-> v, m |-> m1, stacks |-> user_stack_reserve(stacks, v)]

\* sys_exec by thread t.  The new address space is complete before the old one
\* is touched; `fits' is the answer of exec_build_user_stack.  user_stack[t] is
\* not updated and its old reservation is not released.
sys_exec(t, image, heap, fits) ==
  LET p == process[t]
      old == page_directory[p]
      new == pmm_alloc_page(mem)
      l == elf_load(Taken(mem, new), new, image, heap)
      s == usermode_stack_create(l.m, new, user_stacks[p], l.heap)
      done == l.ok /\ s.v # 0 /\ fits IN
  /\ ~panicked /\ Live(t) /\ execs < MaxExecs /\ new # 0
  /\ execs' = execs + 1
  /\ user_stacks' = [user_stacks EXCEPT ![p] = IF l.ok THEN s.stacks ELSE @]
  /\ IF done
     THEN /\ mem' = paging_destroy_directory(s.m, old)
          /\ page_directory' = [page_directory EXCEPT ![p] = new]
          /\ esp_page' = [esp_page EXCEPT ![t] = s.v]
          /\ intact' = (intact \ LiveIn(p)) \union {t}
     ELSE /\ mem' = paging_destroy_directory(IF l.ok THEN s.m ELSE l.m, new)
          /\ UNCHANGED << page_directory, esp_page, intact >>
  /\ UNCHANGED << reserved, loaded, user_stack, kernel_stack, panicked >>

SpaceNext ==
  \/ \E p \in Processes : process_create(p)
  \/ \E p \in Processes, image \in Images, heap \in 0..MaxImage : load(p, image, heap)
  \/ \E t \in Threads, heap \in 2..3 :
       usermode_thread_create(t, heap) \/ usermode_elf_thread_create(t, heap)
  \/ \E t \in Threads : destroy(t)
  \/ \E t \in Threads, image \in Images, heap \in 0..(MaxImage + 1), fits \in BOOLEAN :
       sys_exec(t, image, heap, fits)

SpaceSpec == SpaceInit /\ [][SpaceNext]_vars

----------------------------------------------------------------------------
(* Properties.                                                             *)

\* The types; user stacks lie in the user stack region.
SpaceTypeOK ==
  /\ mem \in Memory
  /\ reserved \in SUBSET Frames
  /\ page_directory \in [Processes -> Frames \union {0}]
  /\ loaded \in SUBSET Processes
  /\ user_stacks \in [Processes -> Seq(StackPages)]
  /\ user_stack \in [Threads -> StackPages \union {0}]
  /\ kernel_stack \in [Threads -> SUBSET Frames]
  /\ esp_page \in [Threads -> StackPages \union {0}]
  /\ intact \in SUBSET Threads
  /\ execs \in 0..MaxExecs
  /\ panicked \in BOOLEAN

\* The directories, and everything that holds a frame: the directories
\* themselves, page table entries of every level, and kernel stacks.
Directories == {page_directory[p] : p \in Processes} \ {0}
Holders ==
       {<< "dir", d, 0 >> : d \in Directories}
  \union {<< "table", d, x >> : d \in Directories, x \in Tables}
  \union {<< "page", d, v >> : d \in Directories, v \in Pages}
Held(h) == CASE h[1] = "dir" -> h[2]
             [] h[1] = "table" -> mem.tables[h[2]][h[3]]
             [] h[1] = "page" -> mem.pages[h[2]][h[3]]

\* Every frame in use has exactly one owner: nothing is leaked, freed while it
\* is still mapped, or mapped twice, whichever allocation failed and whatever
\* rollback ran.
FramesAccounted ==
  ~panicked =>
  /\ mem.used = reserved \union ({Held(h) : h \in Holders} \ {0}) \union UNION {kernel_stack[t] : t \in Threads}
  /\ \A h, g \in Holders : Held(h) = Held(g) /\ Held(h) # 0 => h = g
  /\ \A h \in Holders : Held(h) \notin reserved /\ \A t \in Threads : Held(h) \notin kernel_stack[t]
  /\ \A t, u \in Threads : t # u => kernel_stack[t] \intersect kernel_stack[u] = {}
  /\ Cardinality(Directories) = Cardinality({p \in Processes : page_directory[p] # 0})

\* No stack page is given out twice: reservations are distinct, and so are the
\* pages in which the threads of a process have their stacks.  And
\* usermode_stack_release finds what it is asked to release: the ASSERT(false)
\* that ends it (usermode.c:174) is not reached.
StacksDistinct ==
  /\ \A p \in Processes : IsInjective(user_stacks[p])
  /\ \A t, u \in Threads : t # u /\ process[t] = process[u] /\ Live(t) /\ Live(u) =>
       esp_page[t] # esp_page[u] /\ user_stack[t] # user_stack[u]
  /\ \A t \in Threads : Live(t) => user_stack[t] \in ToSet(user_stacks[process[t]])

\* A user thread's stack stays mapped as long as no other thread of its process
\* calls exec; in particular exec leaves its caller a stack.
OwnStackMapped ==
  \A t \in intact : paging_translate(mem, page_directory[process[t]], esp_page[t]) # 0

\* An operation that fails gives back every frame, page table and mapping it
\* took: when no thread or process has come, gone or changed its address space,
\* the memory is as it was.
FailureRestoresMemory ==
  [][page_directory' = page_directory /\ user_stack' = user_stack /\ loaded' = loaded /\ ~panicked'
       => mem' = mem]_vars

\* "Every user-mode thread must have released its user stack before the process
\* can be destroyed" (process.c:131-135): with its last thread gone a process
\* holds no reservation, so that the ASSERT of process_destroy does not fire.
ReservationsReleased ==
  \A p \in Processes : LiveIn(p) = {} => user_stacks[p] = << >>

============================================================================
