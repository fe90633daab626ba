# A TLA+ verification of the NeoX kernel

NeoX is a small 32-bit x86 kernel: preemptive round-robin threads on one CPU,
sleeping synchronisation primitives, processes with address spaces of their
own, ELF programs in Ring 3, and an `exec` system call. This directory holds
TLA+ models of its core, the TLC configurations that check them and TLAPS
proofs about them. `PROJECT.json` lists the runs, the source lines behind
every definition (`map`), the hazards, the findings and the theorems.

## The system

| Component | State | Operations | Hard behaviour |
|---|---|---|---|
| Scheduler (`task/scheduler.c`, `context.asm`) | ready list, `current`, thread states, quantum, CR3, TSS stack, interrupt flags | add, remove, next, switch, tick, yield, terminate | preemption at any instruction with interrupts on; skipped CR3 and TSS writes; starvation |
| Wait queues (`task/wait.c`) | FIFO of sleepers | sleep, wake one, wake all | a sleeper must be in exactly one place |
| Mutex, condition variable (`mutex.c`, `condvar.c`) | owner, queues | lock, unlock; wait, signal, broadcast | the hand-over of ownership is preemptible in the middle; lost wake-ups |
| Semaphore (`semaphore.c`) | count, queue | acquire, release | permits handed over rather than counted |
| Threads, processes, reaper (`thread.c`, `process.c`, `reaper.c`) | process's threads, termination queues, zombie list | create, add, exit, join, detach, destroy | who frees what, when, and exactly once |
| Physical memory (`mm/pmm.c`, `boot/multiboot2.c`) | bitmap of pages, count of free ones, armed failures | init from the Multiboot tags, allocate, free | what the boot loader leaves where; ranges that end inside a page |
| Paging (`mm/paging.c`) | page directories and tables | map, unmap, translate, create, destroy, check a user pointer | `paging_map` fails silently; empty tables are reclaimed; ranges that wrap or cross into the kernel |
| User memory (`elf_loader.c`, `usermode.c`, `syscall.c`) | images, stack reservations, user stacks | load, create a user thread, exec | partial failure of many-step operations |
| Kernel heap (`mm/heap.c`) | first-fit block list | kmalloc, kfree | split and merge boundaries; not protected against preemption |
| Kernel half: VAM, VMM (`mm/vam.c`, `mm/vmm.c`), kernel page tables | bitmap of kernel pages, stack slots, copied directory entries | allocate, free, map, unmap | unchecked mappings; copies that are never renewed |
| Files (`file.c`, `fs.c`, `process.c`, `tools/mkfs.c`) | the image, descriptor table, positions | pack, mount, find, open, read, close | offsets computed twice, on the build machine and in the kernel; images cut off; a table shared by threads, at its limit |
| Programs (`elf_loader.c`, `exec.c`, `init.c`, `syscall.c`) | the memory of a process, its stack pointer | validate, load, copy arguments, build the stack, start init | what was checked in the old memory is used in the new; page boundaries |
| List library (`lib/list.c`) | doubly linked nodes | push, insert, remove | aliasing |
| Boot, IDT, PIC, PIT, console, keyboard, printf, string | hardware | | I/O |

All kernel threads run on one CPU. They interact through the ready list and
the wait queues; the timer interrupt preempts whoever runs with interrupts on;
a system call runs with interrupts off. Join, the reaper, the mutex, the
condition variable and the semaphore all sleep through `wait_queue_sleep`,
which ends in `scheduler_switch`. The last thread of a process to be destroyed
destroys the process, which destroys its address space.

## Modules

    Scheduler <- WaitQueue <- Monitor   (implements Lock)
        ^            ^------- Semaphore (implements CountingSemaphore)
        |            ^------- Lifecycle
        +- SchedulerProofs <- SynchronizationProofs (Monitor, Semaphore), LifecycleProofs
    Paging <- AddressSpace <- AddressSpaceProofs
     ^  ^---- KernelSpace  <- KernelSpaceProofs
     +- PagingProofs, used by both
    UserMemory <- ElfLoader <- SystemCalls   (implements OpenFiles)
        ^------- ExecArgs  <------+      ^--- SystemCallsProofs
                 RamFs     <------+
    Heap, BootMemory <- AllocatorProofs

**Scheduler** models the scheduler and says what a *client* of it may do
(`SchedNext`): create and add threads, disable interrupts, wake threads, yield,
block, terminate, take a tick. A section that runs with interrupts off cannot
be interleaved, so it is one action up to and including the context switch it
ends in. `thread_block(ws)`, `thread_kill_current(ws)` and `wake_section(ws)`
take the sequence `ws` of threads that the same section wakes first; that is
how the other modules put a whole section into one step. `iflag` is the
interrupt flag each thread has, or will have when it is dispatched again;
`cr3` and `tss_esp0` are what the processor would use.

**WaitQueue** adds the queue operators. **Monitor** (one mutex, one condition
variable, clients that follow the pattern documented in the kernel reference),
**Semaphore** and **Lifecycle** extend it. Monitor is checked against `SchedSafety`:
all its steps are steps the scheduler module allows, so what is proved about
the scheduler for any client holds of it. `mutex_unlock` is two actions,
because it restores interrupts between handing over the mutex and waking the
new owner; the resumption of a sleeper is an action of its own as well
(`..._resume`), since other threads run in between.

**Lock** and **CountingSemaphore** (and **OpenFiles**, below) are the abstract specifications: a lock
that everyone who waits for it gets, and a semaphore in which a newcomer never overtakes a
waiter. Monitor and Semaphore map their state to them; TLC checks the
refinement and the proofs cover its safety part.

**Lifecycle** models creation to destruction. Every member of `Threads` and
`Processes` is one allocation and is used once, so that a use after `kfree` is
visible. Clients keep the contract the code relies on without checking it: the
creator of a thread adds it before it exits itself; a thread is joined or
detached at most once and not touched afterwards. `thread_add`, not
`thread_create`, enters the thread into its process (`thread.c:57`), so without
the first clause a process could be destroyed under a thread not yet added.

**Paging** has the frames and the user half of the page tables as operators on
one record, so that an operation with many steps can be written as their
composition. **AddressSpace** uses them for `elf_load` and its roll-back, user
stacks, user threads, `sys_exec` and destruction. These run with interrupts
off and are one action each; what makes them hard is failure. `heap` is the
number of `kmalloc` calls of the operation that succeed, and the initial state
chooses how many frames there are at all, so every allocation fails in some
behaviour. `panicked` is a failed `ASSERT` or `panic`. Kernel stacks are sets
of frames; the page table of the kernel stack region is taken to exist.

**Heap** has the block list as a set of header addresses with sizes and flags
in memory. `kmalloc` is four kinds of steps (search, expand, split, take). With
`Preemptible = FALSE` a caller inside excludes the others, as interrupts do
when they are off; with `TRUE` and two callers their steps interleave, and
`LiveExact` fails (see below).
A failed `ASSERT` is a step that is not taken.

**KernelSpace** is the kernel half of every address space: the direct map, the
pages of the heap, the slots of the kernel stacks, and what `vmm_alloc_pages_any`
hands out. It extends Paging; the page tables are those of `kernel_directory` and
a process directory holds copies of its entries, made by
`paging_create_directory` and never renewed. `cr3` is the loaded directory, so
that a write to a page the kernel directory maps and the loaded one lacks is
seen for what it is, a page fault (`halted`, as after a failed ASSERT). The
initial state is the one after `scheduler_start`: the stack of idle has made the
first stack table, `heap_init` the first heap table, before any process exists.
Page 0 of the direct map is frame 0 and so looks unmapped, here as in
`paging_translate`. A kmalloc is the page it grows the heap by, or none; the few
allocations made before the scheduler runs fit in the first table (`CanGrow`).

**SystemCalls** is one process, what it does through system calls, and how the
first program gets there. `syscall_stub` disables interrupts and no call here
sleeps, so a call is one action, whichever thread of the process makes it; the
interleaving of threads is the order of the actions. It is put together from
operators: **RamFs** has the image `mkfs` packs and how `fs.c` reads it (a record
of the table and the bytes; `size` is how much of it there is, since `mkfs`
leaves a shorter file behind when it dies or its last write fails);
**UserMemory** has a process's memory, byte by byte, with the two checks of
pointers; **ElfLoader** says which bytes `elf_load` puts where; **ExecArgs** copies the
arguments of `exec` out of the old memory and lays them out on the new stack.
Memory is small but real: a path, an argument vector or a buffer is an address,
and what a call finds there is what earlier calls left, for example what a read
stored over the argument vector. `strayed` is a history variable: some byte the
kernel accessed on behalf of a call was not in a page of the process. A page
fault in the kernel sets `halted`. What AddressSpace models in detail, the frames
and which allocation fails, is one number here (`room`, the allocations of an
exec that succeed).

**OpenFiles** is what a process may rely on: a descriptor is a stream of bytes.
There are no positions, offsets or images in it. The refinement maps each
descriptor to what is left of the file *as it was given to mkfs*, so it covers
the tool, the file system, `file_read` and the descriptor table at once.

**BootMemory** starts from what the boot loader hands over (tags, memory map, boot
information, modules), runs `pmm_init` and then the allocator. `pmm_alloc_page`
tests `fail_allocations` before it disables interrupts and is two steps.
`held` are the pages given out. The other modules take frames as a set.

A module `XProofs` holds the theorems about module `X` and their proofs;
**SynchronizationProofs** is about Semaphore and Monitor, **AllocatorProofs** about
BootMemory and Heap, and **PagingProofs** has the lemmas about Paging's operators
that AddressSpaceProofs and KernelSpaceProofs share.

`MC*` modules give the constants for TLC. Definitions marked *Mutant* are
deliberately wrong variants of the definition that follows them; they are not
used by any specification and serve to show that each property can fail.

## Runs

| Run | Instance | States | Checks |
|---|---|---|---|
| `scheduler` | 3 threads, 2 processes, quantum 2 | 2 082 | `SchedTypeOK`, ready list and context (`ReadyListSound`, `OneRunning`, `ContextLoaded`), `RoundRobin`, `EventuallyRuns` |
| `monitor` | 2 consumers, 1 producer, quantum 1 | 13 468 | `MonTypeOK`, `MutualExclusion`, every sleeper in reach of a wake-up (`SleepersReachable`), no lost signal (`ConditionConsumed`), refinement of Lock with its liveness (`ImplementsLock`), and the scheduler's rules (`SchedSafety`) |
| `semaphore` | 3 threads, 1 permit, 3 releases | 6 448 | `SemaphoreTypeOK`, `PermitsConserved`, refinement of CountingSemaphore (`ImplementsSemaphore`) |
| `lifecycle` | reaper and 3 threads, 2 processes | 3 948 | `LifeTypeOK`, `NoUseAfterFree`, `ProcessOutlivesThreads`, `NoZombieForgotten`, ended threads are freed (`EndedAreFreed`): a joined one, and its joiner goes on (`JoinReturns`), and every zombie of a woken reaper (`ZombiesReaped`) |
| `address_space` | 2 threads of one process, a second process, 2 images, up to 13 frames | 175 383 | `SpaceTypeOK`, one owner per frame (`FramesAccounted`), `StacksDistinct`, `OwnStackMapped`, roll-back restores memory (`FailureRestoresMemory`) |
| `kernel_space` | 2 processes with a thread each, 23 frames of which 0 to 7 are left after boot | 35 906 | `KernelTypeOK`, one use per frame (`FramesExclusive`), `DirectMapIntact`, heap and stacks visible in every process or the kernel halted (`KernelVisible`) |
| `system_calls` | 8 pages of 8 bytes, 2 descriptors, 2 packings, whole or cut off | 9 361 | `CallsTypeOK`, reads deliver the packed bytes in order (`ImplementsOpenFiles`), `PointersChecked`, programs and arguments arrive (`ProgramLoaded`, `ArgumentsCopied`) |
| `allocators` | pages: 13 of 4 bytes, 6 boot states, 2 threads; heap: 3 pages of 16 bytes, header 4, alignment 2 | 1 470 and 186 213 | `BootTypeOK` with the exact count of free pages, reserved memory is never given out (`ReservedKept`), pages given out are whole memory (`HeldIsMemory`); types and tiling of the heap (`HeapTypeOK`), exact allocations (`LiveExact`), `Coalesced` |

Bounds. Three threads are enough for a running thread, one in the middle of a
hand-over and one newcomer, which is what races here take; two processes
distinguish "the same address space" from "another". A quantum of 1 lets the
timer preempt at every step; 2 exercises the countdown. Images of one and two
pages with page tables of two entries make a page table shared between an
image and a stack, emptied and not emptied. Heap pages of 16 bytes hold at
most two allocations, requests need one page, two pages, more than there is,
or overflow when rounded. In `kernel_space` tables have four entries and stacks
two pages, so that the second thread and the fifth heap page need a new table,
as the 257th stack and the 1025th heap page do in the kernel. `MaxReleases` and `MaxExecs` only end behaviours;
`UINT_MAX = 255`, `CountModulus = 8`, `Wrap = 3` and `Word = 64` stand for 2^32.

In `system_calls` `init` has two strings, a vector of both, and a byte that no NUL
follows in its page, so paths and vectors are valid, absent, without an end, or
at the edge of user memory; the data file, read over the vector, makes one with
no NULL within `EXEC_MAX_ARGS`. The other program has a segment of two pages with
zeroes behind its file part, and one that does not start on a page boundary. The
images are whole, or lack their last byte (a file that can be opened but not
read), their first file or their table. Two descriptors are enough for two
streams to be confused and for the table to be full. In `allocators` the two
allocators have no state in common, so a behaviour exercises one of them; there is the boot
information in low memory, behind the kernel on a page boundary, across one, and
elsewhere; a memory map with a hole behind a range that ends inside a page and
one that starts inside a page; a
module of another name before the root file system; no module, no map, and a
wrong magic number.

Deadlock is checked except in the runs of AddressSpace, KernelSpace and SystemCalls, where a
panic, a fault or the end of the frames really stops the system.

Fairness. Ticks: strong, because the PIC latches an interrupt that arrives
while interrupts are off and delivers it when they come on. `interrupt_restore`
and the end of the boot: weak, as those sections are finite. In Monitor and
Lifecycle a thread that is dispatched again and again executes its next kernel
step (strong: a time slice is longer than the step), and a client that holds
the mutex goes on to release it; no thread is assumed to end, to lock or to
signal.

### What the code does not do

Four runs show the code at variance with its comments or documentation:

- `semaphore_interrupts` (`InterruptStateKept`): `semaphore_release` returns with interrupts off when
  it wakes a waiter (`semaphore.c:44`).
- `lifecycle_reaper` (`DetachedAreReaped`): the reaper sleeps without looking at the zombie list, so a
  detached thread that ends while it is awake is not freed until another one
  ends (`reaper.c:41`). What does hold is `ZombiesReaped`, a part of `EndedAreFreed`.
- `address_space_reservation` (`ReservationsReleased`): `usermode_thread_create` keeps the stack
  reservation when there is no frame, and the process cannot be destroyed
  (`usermode.c:225`).
- `system_calls_argv` (`ArgumentsDelivered`): the stack pointer is rounded down after the
  place of argc was chosen (`syscall.c:174`), so up to 12 bytes lie between argc and
  argv, where the comment says that the padding is below argc. A program that looks
  for argv right behind argc does not find it. What does hold is `ArgumentsCopied`:
  vector and strings are complete and fill the stack page from its end.

Others are part of the models without a run of their own:

- `sys_exec` leaves `thread->user_stack` at the old stack (`syscall.c:650`), although
  `thread.h:71` calls it the base of "this thread's Ring-3 stack". The same
  omission makes destroying the process fail its ASSERT. `StacksDistinct` and
  `FramesAccounted` hold in spite of it. `exec` also frees the stacks of the
  other threads of the process (`syscall.c:624`); what holds is `OwnStackMapped`.
- Two threads that call `kmalloc` with interrupts on can get the same block
  (`heap.c:264`), past the ASSERTs of `heap_split_block`: in `Heap` with
  `Preemptible = TRUE` and two callers `LiveExact` fails. The kernel reference asks
  callers for no more than that no ISR allocates.
- `elf_load` takes the file offset of a segment as if its address were page aligned
  (`elf_loader.c:289`): byte *a* gets the file's byte `p_offset + (a - page start)`,
  so a segment that starts inside a page, which the comment at `elf_loader.c:278` allows,
  loses its first bytes. Two segments in one page map it twice and lose a frame (`elf_loader.c:218`).
  `ProgramLoaded` is stated of segments that start on a page boundary and share no page.
- `file_read` does not look whether the data of a file is there (`file.c:88`): reading
  a file that was cut off is a page fault in the kernel. `ImplementsOpenFiles` shows
  that nothing but the file is ever delivered before that.
- `bitmap_set_range` counts a range from the start of its first page (`pmm.c:59`), so
  boot information that crosses a page boundary can lose its last page to the
  allocator, and `init_process_start` walks it again later (`init.c:31`); the bitmap is placed without a look at the module (`pmm.c:137`).
  `ReservedKept` says what is kept: the ranges that do not cross a page boundary that way,
  the kernel's and the bitmap's among them. `bitmap_clear_range` rounds the start of an
  available range down to its page (`pmm.c:45`), so a page of which only the
  later part is memory can be given out. `HeldIsMemory` says exactly that: a page
  given out is memory to its last byte, and from its first unless a range starts
  inside it. (Firmware aligns ranges in practice.)

`kernel_space` passes, but what it shows has limits a reader should know. A
table of the heap or of the stacks that is made after the first process is in no
process's directory, so the thread that needs it halts the kernel
(`ASSERT` at `thread.c:209`, or the write at `heap.c:165`): there can be no more
than 256 kernel stacks (`KERNEL_STACK_COUNT` is 16 384) and 4 MiB of heap. That is
why `KernelVisible` holds. And `vam_alloc_pages` finds its first run in the direct
map, not in `KERNEL_REMAINING` (`vam.c:364-366`), since `vam_init` reserves only
the image there; `vmm_alloc_pages_any` therefore gives out page 0 of the direct
map once and otherwise fails on "already mapped". `DirectMapIntact` holds thanks to
that check. A frame is lost when `paging_map` finds no frame for a table
(`vmm.c:75`), so KernelSpace claims exclusive use of frames and not that none leaks.

## Proofs

Fifty theorems are proved with TLAPS, for every value of the constants that
the named assumptions allow. They state every safety invariant and action property
the passing runs check, except the ones listed at the end of this section.
Every inductive invariant was checked by TLC on the run's instance before it was proved.

**SchedulerProofs** (assumptions `ThreadsAssumption`, `ProcessAssumption`,
`QuantumAssumption`, and `FiniteAssumption`: thread structures come from a finite
heap). `SchedInvariance` proves `SchedSafety => []SchedInv`; from it come
`SchedTypeCorrect`, `ReadyListCorrect`, `OneRunningCorrect`, `ContextCorrect`;
`RoundRobinCorrect` (every dispatch shortens the wait of every waiting thread) and
`LeavesByItselfCorrect` (only the running thread leaves the ready list) are action
properties. `SchedInv` is `SchedTypeOK`, `ReadyListSound`, `OneRunning`,
`ContextLoaded` and `IdleRunning` (idle is RUNNING whether it runs or not). No
part is inductive alone: `scheduler_next` finds a successor only because the
running thread is linked (`OneRunning`), which survives a wake-up only because
woken threads are not linked yet (`ReadyListSound`); and the skipped writes of
CR3 and TSS are right only because both belonged to the thread that stays. All
context switches go through `SwitchPreserves`: from `SwitchReady(rl, st)`, what a
section must have established when it calls `scheduler_switch`, it derives the
invariant.

**SynchronizationProofs**, semaphore: `SemTypeCorrect`, `PermitsCorrect`, and the refinement
`SemaphoreRefines: SemaphoreSpec => ImplementsSemaphore`. `SemInv` adds to the
checked invariants that the queue holds exactly the threads blocked in
`semaphore_acquire`, and only while the count is zero (`QueueSound`); without it
a release could find a waiter who was counted a permit already. The assumption
`SemaphoreAssumption` keeps the count below its modulus.

**SynchronizationProofs**, mutex and condition variable (over `MonSafety`, the specification without its fairness):
`MonTypeCorrect`, `MutualExclusionCorrect`, `SleepersReachableCorrect`, and
`MonitorRefinesLock`, the safety part of the abstract lock. The strengthening is
about the moment between the two halves of `mutex_unlock`: a waiter that has been
popped is in no queue and still blocked; `Transit` says that it is the owner and
that nobody else has one in hand, `QueuesSound` that a thread is blocked exactly
when it is in a queue or in hand.

**LifecycleProofs** (over `LifeSafety`): `LifeTypeCorrect`, `NoUseAfterFreeCorrect`,
`ProcessOutlivesThreadsCorrect`, `NoZombieForgottenCorrect`. `LifeRest` states, as
nine named parts, who is linked where (members of processes, sleepers, joiners,
zombies) and that nothing freed is. The proof splits the scheduler's state into
four sets (created, added, ended, blocked), shows what each section does to them,
and argues about the sets only.

`SemaphoreIsClient`, `MonitorIsClient` and `LifecycleIsClient` show that the three
specifications imply `SchedSafety`, so the scheduler's theorems hold of each.

**AllocatorProofs**, boot and page allocator (`BootAssumption`: the shape of what the boot loader hands over, an
aligned kernel end, sizes that are numbers): `BootTypeCorrect` with the exact count of
free pages, `ReservedKeptCorrect`, `HeldIsMemoryCorrect`. `BootInv` adds `FreeIsMemory`:
what is held was free before, so what is *free* must be known to be cleared by
`pmm_init` and not set again.

**AllocatorProofs**, heap: `HeapTypeCorrect`, `LiveExactCorrect`, `CoalescedCorrect`, all under
`~Preemptible`, since the code is wrong otherwise (see above). `HeapInv` says that
the blocks tile the heap, that one caller at a time is inside `kmalloc`, that the
block it remembers is still listed, free and large enough (`CallersSound`), and that
free neighbours exist only between a split and the assignment that takes the first part.

**SystemCallsProofs**: `PointersCheckedCorrect`, `DescriptorsCorrect`,
`CallsTypeCorrect`, `ProgramLoadedCorrect`, the action property `ArgumentsCorrect` and
the refinement `OpenFilesRefined: CallsSpec => ImplementsOpenFiles`, for every size of
memory, every list of packed files, every image that is whole or cut off anywhere, and
every pointer and length. The assumptions: `CallsAssumption` says that pointers and
counts are numbers a register holds, that files are sequences of bytes and that
an image is smaller than 2^32 bytes (`mkfs` does not check; its offsets would wrap);
`ProgramsAssumption` says that the program headers of packed ELF files keep to the
user half, as the linker script `user/user.ld` sees to and `elf_load` does not check;
`ElfAssumption` that the fields of headers are numbers.

The inductive invariant has two parts. `CallsInv` adds to `PointersChecked` that the
mounted table is the one mkfs wrote and that positions stay within files: a read
stays in the buffer that was checked because it copies no more than was asked for.
`MemoryInv` adds that the image is the packed one or its beginning (`ImageKept`), that
memory and registers keep their types, that a program runs only when the image was
mounted, and `ProgramLoaded` itself. Along which lines:

- *The image.* `LaidOut` shows where mkfs puts each file: the offsets it accumulates are
  the sums of the sizes before, and the concatenation has each file's bytes there
  (`BytesSums`, `Flattened`). `FileBytes` concludes that what `fs_file_data` finds is the
  file as it was packed, and `ReadBytes` that a read delivers the bytes from its position on.
- *Programs.* `LoadSteps` unrolls `elf_load` into one memory per program header.
  `SegmentArrives` says what a segment leaves in memory, `SegmentStays` that a later one
  with other pages does not disturb it; `LoadSucceeds` is the induction over the headers.
  The stack page is none of the segments' and the arguments stay in it (`StackBuilt`).
- *Arguments.* `StackBuilt` follows `exec_build_user_stack`: the strings are laid out from
  the top of the page, the vector of their addresses below, argc below that and aligned
  down, each without overlap, or the call fails because the page is too small.
  `StackDelivers` reads them back as the new program would.
- *Streams.* Each call is a step of OpenFiles or none (`OpenStreams`, `ReadStreams`,
  `CloseStreams`): `Found` shows that `fs_find` answers as a search of the packed list
  does, `Further` that advancing a position is taking bytes off what is left.

**AddressSpaceProofs** (`PagingAssumption`; `SpaceAssumption`: no image maps a page
twice, page 0 is no stack page): `SpaceTypeCorrect`, `FramesAccountedCorrect`,
`StacksDistinctCorrect`, `OwnStackMappedCorrect` and the action property
`FailureRestoresCorrect`. The core of `SpaceInv` is `Sound(m, D, K)`, a statement
about a memory with directories *D* and frames *K* that belong to the kernel:

- `Owned`: every frame in use is in *D*, in *K* or in exactly one table or page entry;
- `Shaped`: a mapped page has its table, and no table is empty, which is what makes
  `paging_unmap` the exact inverse of `paging_map`;
- `Blank`: a frame that is no directory has no entries, so that a new directory is empty.

Each operation of `paging.c` is shown to preserve `Sound`, and `MapSound` shows that
undoing a mapping, whether it worked or not, gives back the *same* memory. `elf_load` is a
fold; `LoadSteps` and `UnloadSteps` unroll it into one state per page, and
`ElfLoadSound` follows by induction on the number of pages: all pages are loaded, or the
memory is what it was. A failed exec goes another way, it destroys the directory it
made; there `SameEntries` (what is in use follows from the entries) closes the
argument. The rest of `SpaceInv` relates threads, stacks and directories:
`StacksDistinct` alone is not inductive since `exec` moves a thread to a new page and
leaves `user_stack` behind, so both pages of a thread are kept apart from those of others.

**KernelSpaceProofs** (`PagingAssumption`, `KernelAssumption`): `KernelTypeCorrect`,
`FramesExclusiveCorrect`, `KernelVisibleCorrect`, `DirectMapIntactCorrect`.
`KernelAssumption` fixes the layout of `memory_layout.h` (the direct map, the heap
and the stacks begin at boundaries of page tables; a stack and the first heap fit
in a table) and that there is memory to boot with: one table and the pages for
`heap_init` and for the stack of idle, whose failure the code does not survive.
`KernelInv` has two layers:

- `Sound(mem, Directories)` always holds. It differs from the user half's in two
  ways: `Owned` is one-sided (every holder has its frame alone, but a frame in use
  may have no holder, since `vmm_map_page` loses one when `paging_map` finds no
  frame for a table), and `Direct` says that the direct map is there. `Shaped` is
  needed again, for `paging_unmap` frees a table by looking at its entries.
- `Shared` holds until the kernel halts: every directory agrees with the kernel's
  on all tables up to the end of the stacks, what is `Needed` is mapped, and
  `OneTable`: all stacks are in the table of idle's. The last is what makes the
  roll-backs harmless: unmapping a stack cannot empty, and so free, a table that
  process directories have copied, since idle's stack stays in it.
  A new heap or stack table does break the agreement, and exactly then
  `heap_expand` faults or `thread_create` fails its ASSERT.

`RunsSound` and `SlotsSound` keep what `vam.c` hands out apart from what is needed.
The loops of `vmm.c` and `thread.c` are folds; `FoldExists` and `FoldSteps` unroll
them into one memory per page, and `MapStep` and `UnmapStep` say what one page does.
That boot succeeds is proved as well (`FilledLoop`, `Booted`): it counts the frames.

Induction. The library's induction theorems take an operator, which the provers cannot
instantiate; where a proof needs induction over a bounded number of steps it uses a form over *sets*
of numbers (`UpTo`, `Least` in PagingProofs, similar lemmas elsewhere), derived
from well-founded induction on a set. What a fold computes is reached the same way:
its defining function is shown to exist, and facts are carried along its values.

Only model-checked is liveness, that is `EventuallyRuns`, `ConditionConsumed`, `EndedAreFreed`,
and the fairness in `ImplementsLock` (its safety is `MonitorRefinesLock`). TLAPS does not reason about ENABLED.

## Not modelled

Device drivers, console, formatting and the straight-line boot code: I/O and
assembly without a state of their own that another part depends on. The list
library is used through sequences: its callers hold interrupts off and its
operations cannot fail, so at pointer level it is ordinary sequential code that
unit tests reach. Frames above the direct map of 16 MiB (`paging.c:75`): every module
takes memory to lie below. Page flags other than present and user: CR0.WP is
clear, so the kernel does not see them. The command line of `mkfs`. A failed ASSERT
stops the model.

## Possible extensions

Every safety invariant, action property and safety refinement of the passing runs is
proved. What could be added are models, not proofs: the two hazards of callers that
leave interrupts on (`heap.c:264`, `pmm.c:211`) as specifications of what a caller must
do, and frames above the direct map (`paging.c:75`).
