---------------------------- MODULE KernelSpace ----------------------------
(***************************************************************************)
(* The kernel half of the address spaces (kernel/mm/paging.c, vam.c, vmm.c): *)
(* the direct map, the heap's pages, the kernel stacks and the rest.  The    *)
(* page tables belong to kernel_directory; a process directory holds copies  *)
(* of its entries, taken when the directory was made and never renewed.      *)
(*                                                                         *)
(* Pages are numbered from KERNEL_VIRT_BASE, the frames are those of module   *)
(* Paging: mem.tables[d] is the kernel half of the directory in frame d, and  *)
(* only mem.pages[kernel_directory] is used, the tables being shared.        *)
(* Operations run with interrupts off and are one action each.  Heap blocks   *)
(* are module Heap's; here a kmalloc is the number of pages it grows by.     *)
(***************************************************************************)
EXTENDS Paging, Sequences, SequencesExt

CONSTANTS
  Threads,
  Processes,
  process,            \* thread->process
  BootPages,          \* BOOTSTRAP_MAP_SIZE: the direct map, and the start of the heap
  ImagePages,         \* the pages of the kernel image, a part of the direct map
  StacksStart,        \* KERNEL_STACKS_START, the end of the heap region
  KERNEL_STACK_COUNT,
  StackPages,         \* KERNEL_STACK_SIZE / PAGE_SIZE
  HEAP_PAGES,
  RunLengths,         \* the page counts vmm_alloc_pages_any is called with
  ReservedCounts      \* how many frames are in use after paging_init, from 1 on

NoPage == -1
NoSlot == -1
HeapStart == BootPages
StacksEnd == StacksStart + KERNEL_STACK_COUNT * StackPages
BootTables == {Table(v) : v \in 0..(BootPages - 1)}
kernel_directory == Cardinality(BootTables) + 1
Slots == 0..(KERNEL_STACK_COUNT - 1)
IdleSlot == 0

\* Besides the layout: after paging_init there is memory for heap_init and
\* scheduler_start, each of which needs one page table.
ASSUME KernelAssumption ==
  /\ process \in [Threads -> Processes]
  /\ BootPages = NumFrames + 1                 \* all memory is in the direct map
  /\ ImagePages \subseteq 0..(BootPages - 1)
  /\ TableEntries > 1 /\ StackPages \in 1..TableEntries /\ HEAP_PAGES \in 1..TableEntries
  /\ StacksStart \in Nat /\ KERNEL_STACK_COUNT \in Nat \ {0}
  /\ BootPages < StacksStart /\ StacksEnd <= NumPages
  /\ BootPages % TableEntries = 0 /\ StacksStart % TableEntries = 0 /\ StacksEnd % TableEntries = 0
  /\ RunLengths \subseteq 1..NumPages
  /\ \A n \in ReservedCounts :
       n \in Nat /\ kernel_directory <= n /\ n + (HEAP_PAGES + 1) + (StackPages + 1) <= NumFrames

VARIABLES
  mem,             \* the physical memory and the mappings (module Paging)
  bitmap,          \* the pages vam.c holds occupied
  stack_bitmap,    \* the stack slots vam.c holds occupied
  heap_end,
  page_directory,  \* process->page_directory, 0 when there is no process
  kernel_stack,    \* the slot of thread->kernel_stack
  cr3,             \* the directory the CPU uses
  runs,            \* what vmm_alloc_pages_any has returned: << page, count >>
  halted           \* an ASSERT fired, or the kernel took a page fault

vars == << mem, bitmap, stack_bitmap, heap_end, page_directory, kernel_stack, cr3, runs, halted >>

Live(t) == kernel_stack[t] # NoSlot
LiveIn(p) == {t \in Threads : process[t] = p /\ Live(t)}

\* The n pages from v on, and the pages of a stack slot.
PagesFrom(v, n) == [i \in 1..n |-> v + i - 1]
SlotPages(s) == PagesFrom(StacksStart + s * StackPages, StackPages)

\* What the CPU finds at kernel page v through directory d.  An entry that is
\* not the kernel directory's leads nowhere it should.
Seen(m, d, v) ==
  IF m.tables[d][Table(v)] = m.tables[kernel_directory][Table(v)]
  THEN paging_translate(m, kernel_directory, v) ELSE 0

----------------------------------------------------------------------------
(* The virtual memory manager (vmm.c): pages with frames behind them.       *)

unmap_page(m, v) ==
  pmm_free_page(paging_unmap(m, kernel_directory, v), paging_translate(m, kernel_directory, v))

\* vmm_unmap_pages: pages that are not mapped are skipped.
vmm_unmap_pages(m, v, n) ==
  LET Step(k, w) == IF paging_translate(k, kernel_directory, w) = 0 THEN k ELSE unmap_page(k, w) IN
  FoldLeft(Step, m, PagesFrom(v, n))

\* One page of vmm_map_pages: nobody looks whether paging_map succeeded.
vmm_map_page(l, w) ==
  LET f == pmm_alloc_page(l.m) IN
  IF ~l.ok THEN l
  ELSE IF f = 0 THEN [l EXCEPT !.ok = FALSE]
  ELSE [l EXCEPT !.m = paging_map(Taken(l.m, f), kernel_directory, w, f), !.done = @ + 1]

\* Mutant: pages that are mapped already are mapped over.
vmm_map_pages_over(m, v, n) ==
  LET l == FoldLeft(vmm_map_page, [ok |-> TRUE, m |-> m, done |-> 0], PagesFrom(v, n)) IN
  IF l.ok THEN l ELSE [l EXCEPT !.m = vmm_unmap_pages(l.m, v, l.done)]

\* vmm_map_pages: refused when a page is mapped already, undone when the frames
\* run out.
vmm_map_pages(m, v, n) ==
  LET l == FoldLeft(vmm_map_page, [ok |-> TRUE, m |-> m, done |-> 0], PagesFrom(v, n)) IN
  IF \E w \in ToSet(PagesFrom(v, n)) : paging_translate(m, kernel_directory, w) # 0
  THEN [ok |-> FALSE, m |-> m, done |-> 0]
  ELSE IF l.ok THEN l ELSE [l EXCEPT !.m = vmm_unmap_pages(l.m, v, l.done)]

----------------------------------------------------------------------------
(* The virtual address manager (vam.c).                                     *)

\* vam_init: the image, the heap region and the stack region are taken.
vam_init == ImagePages \union HeapStart..(StacksEnd - 1)

\* vam_alloc_pages: the lowest run of n free pages.
vam_alloc_pages(b, n) ==
  LET starts == {v \in 0..(NumPages - n) : ToSet(PagesFrom(v, n)) \intersect b = {}} IN
  IF starts = {} THEN NoPage ELSE Min(starts)

\* vam_alloc_stack: the lowest free slot; vam_free_stack gives one back.
vam_alloc_stack(b) == IF Slots \subseteq b THEN NoSlot ELSE Min(Slots \ b)
vam_free_stack(b, s) == b \ {s}

----------------------------------------------------------------------------
(* The heap's pages.                                                        *)

\* heap_expand maps the page at heap_end in the kernel directory and writes a
\* block header to it through the directory that is loaded.
heap_expand(m, e, d) ==
  LET l == vmm_map_pages(m, e, 1)
      fault == l.ok /\ Seen(l.m, d, e) = 0 IN
  [ok |-> l.ok, m |-> l.m, fault |-> fault, heap_end |-> IF l.ok /\ ~fault THEN e + 1 ELSE e]

\* A kmalloc that needs `grow' more pages, 0 or 1.  Until the scheduler starts
\* the kernel allocates a handful of structures, which fit in the first table
\* of the heap.
CanGrow(grow) == grow = 1 /\ cr3 = kernel_directory => heap_end % TableEntries # 0
kmalloc(grow) ==
  IF grow = 1 THEN heap_expand(mem, heap_end, cr3)
  ELSE [ok |-> TRUE, m |-> mem, fault |-> FALSE, heap_end |-> heap_end]

----------------------------------------------------------------------------
(* Boot: pmm_init and paging_init, vam_init, heap_init, scheduler_start.     *)

\* paging_init copies the bootstrap entries: the direct map, page v to frame v.
paging_init(n) ==
  LET fresh == FreshMemory(1..n) IN
  [fresh EXCEPT
     !.tables[kernel_directory] = [x \in Tables |-> IF x \in BootTables THEN x + 1 ELSE 0],
     !.pages[kernel_directory] = [v \in Pages |-> IF v < BootPages THEN v ELSE 0]]

\* The stack of idle, which is never given back.
scheduler_start(m) == FoldLeft(vmm_map_page, [ok |-> TRUE, m |-> m, done |-> 0], SlotPages(IdleSlot))

KernelInit ==
  /\ \E n \in ReservedCounts : mem = scheduler_start(vmm_map_pages(paging_init(n), HeapStart, HEAP_PAGES).m).m
  /\ bitmap = vam_init
  /\ stack_bitmap = {IdleSlot}
  /\ heap_end = HeapStart + HEAP_PAGES
  /\ page_directory = [p \in Processes |-> 0]
  /\ kernel_stack = [t \in Threads |-> NoSlot]
  /\ cr3 = kernel_directory
  /\ runs = {}
  /\ halted = FALSE

----------------------------------------------------------------------------
(* Processes.                                                              *)

\* paging_create_directory: a frame, and copies of the kernel's entries.
paging_create_directory(m, d) == [Taken(m, d) EXCEPT !.tables[d] = m.tables[kernel_directory]]

\* paging_destroy_directory, of which the kernel half sees only the frame go.
paging_destroy_directory_kernel(m, d) ==
  [pmm_free_page(m, d) EXCEPT !.tables[d] = [x \in Tables |-> 0]]

\* Mutant: the result of pmm_alloc_page is not looked at.
process_create_unchecked(p, grow) ==
  LET k == kmalloc(grow)
      d == pmm_alloc_page(k.m) IN
  /\ ~halted /\ page_directory[p] = 0 /\ CanGrow(grow)
  /\ halted' = k.fault
  /\ heap_end' = k.heap_end
  /\ page_directory' = [page_directory EXCEPT ![p] = d]
  /\ mem' = Taken(k.m, d)
  /\ UNCHANGED << bitmap, stack_bitmap, kernel_stack, cr3, runs >>

\* process_create; the heap keeps what it has grown by when it fails.
process_create(p, grow) ==
  LET k == kmalloc(grow)
      d == pmm_alloc_page(k.m)
      made == k.ok /\ ~k.fault /\ d # 0 IN
  /\ ~halted /\ page_directory[p] = 0 /\ CanGrow(grow)
  /\ halted' = k.fault
  /\ heap_end' = k.heap_end
  /\ page_directory' = [page_directory EXCEPT ![p] = IF made THEN d ELSE 0]
  /\ mem' = IF made THEN paging_create_directory(k.m, d) ELSE k.m
  /\ UNCHANGED << bitmap, stack_bitmap, kernel_stack, cr3, runs >>

----------------------------------------------------------------------------
(* Threads and their kernel stacks.                                         *)

\* Mutant: a stack page is only looked for in the kernel directory.
map_stack_page_kernel_only(d, l, w) ==
  LET f == pmm_alloc_page(l.m)
      m1 == paging_map(Taken(l.m, f), kernel_directory, w, f) IN
  IF ~l.ok \/ l.halt THEN l
  ELSE IF f = 0 THEN [l EXCEPT !.ok = FALSE]
  ELSE [l EXCEPT !.m = m1, !.done = Append(@, w),
                 !.halt = paging_translate(m1, kernel_directory, w) = 0]

\* One page of the stack: mapped in the kernel directory, and asserted to be
\* visible there and in the directory of the thread's process.
map_stack_page(d, l, w) ==
  LET f == pmm_alloc_page(l.m)
      m1 == paging_map(Taken(l.m, f), kernel_directory, w, f) IN
  IF ~l.ok \/ l.halt THEN l
  ELSE IF f = 0 THEN [l EXCEPT !.ok = FALSE]
  ELSE [l EXCEPT !.m = m1, !.done = Append(@, w),
                 !.halt = paging_translate(m1, kernel_directory, w) = 0 \/ Seen(m1, d, w) = 0]

\* The stack of a new thread; without frames, the pages mapped so far are
\* unmapped, last first.
map_stack(m, s, d) ==
  LET Step(l, w) == map_stack_page(d, l, w)
      l == FoldLeft(Step, [ok |-> TRUE, halt |-> FALSE, m |-> m, done |-> << >>], SlotPages(s)) IN
  IF l.ok THEN l ELSE [l EXCEPT !.m = FoldLeft(unmap_page, l.m, Reverse(l.done))]

thread_create(t, grow) ==
  LET k == kmalloc(grow)
      s == vam_alloc_stack(stack_bitmap)
      started == k.ok /\ ~k.fault /\ s # NoSlot
      l == map_stack(k.m, s, page_directory[process[t]])
      made == started /\ l.ok /\ ~l.halt IN
  /\ ~halted /\ page_directory[process[t]] # 0 /\ ~Live(t) /\ CanGrow(grow)
  /\ halted' = (k.fault \/ (started /\ l.halt))
  /\ heap_end' = k.heap_end
  /\ mem' = IF started THEN l.m ELSE k.m
  /\ kernel_stack' = [kernel_stack EXCEPT ![t] = IF made THEN s ELSE NoSlot]
  /\ stack_bitmap' = IF started /\ l.ok THEN stack_bitmap \union {s}
                     ELSE IF started THEN vam_free_stack(stack_bitmap, s) ELSE stack_bitmap
  /\ UNCHANGED << bitmap, page_directory, cr3, runs >>

\* Mutant: the frames of the stack are freed and its pages stay mapped.
unmap_stack_mapped(m, s) ==
  LET Step(k, w) == pmm_free_page(k, paging_translate(k, kernel_directory, w)) IN
  FoldLeft(Step, m, SlotPages(s))

unmap_stack(m, s) == FoldLeft(unmap_page, m, SlotPages(s))

\* thread_destroy by a joiner or the reaper, and process_destroy when it was the
\* last thread: whoever calls runs in another process then.
thread_destroy(t) ==
  LET p == process[t]
      m1 == unmap_stack(mem, kernel_stack[t])
      last == LiveIn(p) = {t} IN
  /\ ~halted /\ Live(t)
  /\ last => cr3 # page_directory[p]
  /\ stack_bitmap' = vam_free_stack(stack_bitmap, kernel_stack[t])
  /\ kernel_stack' = [kernel_stack EXCEPT ![t] = NoSlot]
  /\ mem' = IF last THEN paging_destroy_directory_kernel(m1, page_directory[p]) ELSE m1
  /\ page_directory' = IF last THEN [page_directory EXCEPT ![p] = 0] ELSE page_directory
  /\ UNCHANGED << bitmap, heap_end, cr3, runs, halted >>

\* scheduler_switch loads the directory of the next thread; idle keeps the one
\* that is loaded.
switch(t) ==
  /\ ~halted /\ Live(t)
  /\ cr3' = page_directory[process[t]]
  /\ UNCHANGED << mem, bitmap, stack_bitmap, heap_end, page_directory, kernel_stack, runs, halted >>

\* exec as the kernel half sees it: a new directory is made, loaded, and the old
\* one freed.  (An exec that fails frees the new one, and nothing has changed.)
exec(t) ==
  LET p == process[t]
      old == page_directory[p]
      new == pmm_alloc_page(mem) IN
  /\ ~halted /\ Live(t) /\ cr3 = old /\ new # 0
  /\ mem' = paging_destroy_directory_kernel(paging_create_directory(mem, new), old)
  /\ page_directory' = [page_directory EXCEPT ![p] = new]
  /\ cr3' = new
  /\ UNCHANGED << bitmap, stack_bitmap, heap_end, kernel_stack, runs, halted >>

----------------------------------------------------------------------------
(* Other callers of the heap and of the virtual memory manager.              *)

\* A kmalloc of any other kernel code for which the heap has to grow.
expand ==
  LET k == kmalloc(1) IN
  /\ ~halted /\ CanGrow(1)
  /\ mem' = k.m
  /\ heap_end' = k.heap_end
  /\ halted' = k.fault
  /\ UNCHANGED << bitmap, stack_bitmap, page_directory, kernel_stack, cr3, runs >>

\* vmm_alloc_pages_any: address space from the VAM, frames from the VMM.
vmm_alloc_pages_any(n) ==
  LET v == vam_alloc_pages(bitmap, n)
      l == vmm_map_pages(mem, v, n)
      got == v # NoPage /\ l.ok IN
  /\ ~halted
  /\ mem' = IF v = NoPage THEN mem ELSE l.m
  /\ bitmap' = IF got THEN bitmap \union ToSet(PagesFrom(v, n)) ELSE bitmap
  /\ runs' = IF got THEN runs \union {<< v, n >>} ELSE runs
  /\ UNCHANGED << stack_bitmap, heap_end, page_directory, kernel_stack, cr3, halted >>

\* vmm_free_pages and vam_free_pages, which a caller has to use together.
vmm_free_pages(r) ==
  /\ ~halted /\ r \in runs
  /\ mem' = vmm_unmap_pages(mem, r[1], r[2])
  /\ bitmap' = bitmap \ ToSet(PagesFrom(r[1], r[2]))
  /\ runs' = runs \ {r}
  /\ UNCHANGED << stack_bitmap, heap_end, page_directory, kernel_stack, cr3, halted >>

KernelNext ==
  \/ \E p \in Processes, grow \in 0..1 : process_create(p, grow)
  \/ \E t \in Threads, grow \in 0..1 : thread_create(t, grow)
  \/ \E t \in Threads : thread_destroy(t) \/ switch(t) \/ exec(t)
  \/ expand
  \/ \E n \in RunLengths : vmm_alloc_pages_any(n)
  \/ \E r \in runs : vmm_free_pages(r)

KernelSpec == KernelInit /\ [][KernelNext]_vars

----------------------------------------------------------------------------
(* Properties.                                                             *)

\* The types; the heap stays in its region and stacks have slots of theirs.
KernelTypeOK ==
  /\ mem \in Memory
  /\ bitmap \in SUBSET Pages
  /\ stack_bitmap \in SUBSET Slots
  /\ heap_end \in HeapStart..StacksStart
  /\ page_directory \in [Processes -> Frames \union {0}]
  /\ kernel_stack \in [Threads -> Slots \union {NoSlot}]
  /\ cr3 \in Frames
  /\ runs \in SUBSET (Pages \X RunLengths)
  /\ halted \in BOOLEAN

\* Every holder of a frame outside the direct map, with the frame: directories,
\* page tables, mapped pages.
Directories == {page_directory[p] : p \in Processes} \ {0}
Held ==
       {<< "dir", p, page_directory[p] >> : p \in Processes}
  \union {<< "table", x, mem.tables[kernel_directory][x] >> : x \in Tables \ BootTables}
  \union {<< "page", v, mem.pages[kernel_directory][v] >> : v \in {0} \union BootPages..(NumPages - 1)}
Holdings == {h \in Held : h[3] # 0}

\* No frame has two uses and none is in use and free: thread_create and
\* vmm_map_pages roll back exactly what they did, and thread_destroy and
\* paging_unmap free nothing that is still mapped.
FramesExclusive ==
  /\ \A h \in Holdings : h[3] \in mem.used \ 1..kernel_directory
  /\ \A h, g \in Holdings : h[3] = g[3] => h = g

\* The pages every process needs in its directory whenever it is loaded: the
\* heap, the stack of idle and those of all threads, since scheduler_switch
\* (scheduler.c:225-237) still pushes on the old stack under the new directory.
Needed == HeapStart..(heap_end - 1) \union
          UNION {ToSet(SlotPages(s)) : s \in {IdleSlot} \union {kernel_stack[t] : t \in {u \in Threads : Live(u)}}}

\* "kernel mappings are shared across all address spaces" (paging.c:28-30) as
\* long as the kernel has not halted, although process directories hold copies
\* that are never renewed: what every process needs it sees.
KernelVisible ==
  ~halted => \A d \in Directories \union {cr3}, v \in Needed : Seen(mem, d, v) # 0

\* PHYS_TO_VIRT, through which page tables and directories are written, stays
\* right: no mapping replaces a page of the direct map, though vam.c gives out
\* addresses in it (all but page 0, whose frame 0 holds nothing).
DirectMapIntact ==
  \A v \in 1..(BootPages - 1), d \in Directories \union {kernel_directory} : Seen(mem, d, v) = v

============================================================================
