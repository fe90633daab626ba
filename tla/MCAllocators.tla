---------------------------- MODULE MCAllocators ---------------------------
(* The two allocators, of pages and of bytes.  They have no variable in common  *)
(* and their specifications share no step, so a behaviour exercises one of the  *)
(* two while the other stays as it was initially.                           *)
(*                                                                         *)
(* Pages of four bytes; the first two pages are the first MiB, the kernel      *)
(* occupies the next two.  Memory ends inside page 12, and one machine has a     *)
(* hole, behind a range that ends inside a page and before one that starts     *)
(* inside a page.                                                           *)
(*                                                                         *)
(* The heap has a header of 4, pages of 16 and sizes in steps of 2; a request    *)
(* needs two pages, one is larger than the heap, one near the largest 32-bit    *)
(* value.                                                                   *)
EXTENDS BootMemory, Heap, TLC

VARIABLE exercised      \* "pages" or "heap"

Ram(addr, len) == [addr |-> addr, len |-> len, available |-> TRUE]
Rom(addr, len) == [addr |-> addr, len |-> len, available |-> FALSE]
Map(entries) == [type |-> "mmap", entries |-> entries]
Module(name, start, end) == [type |-> "module", name |-> name, start |-> start, end |-> end]
Tag == [type |-> "cmdline"]

Low == << Ram(0, 6), Rom(6, 2) >>
Flat == Map(Low \o << Ram(8, 42), Rom(52, 4) >>)
Hole == Map(Low \o << Ram(8, 27), Rom(35, 2), Ram(37, 12) >>)
Plain == [magic |-> TRUE, tags |-> << >>, kernel_end |-> 16, info |-> 2, total_size |-> 4]
Other == [Plain EXCEPT !.magic = FALSE]

\* The boot information in low memory, behind the kernel on a page boundary and
\* across one, at the end of memory; a module that is not the root file system;
\* no module, no map, and a boot loader of another kind.
MCBoots ==
  {[Plain EXCEPT !.tags = << Tag, Flat, Module("other", 32, 36), Module("rootfs", 28, 31) >>],
   [Plain EXCEPT !.tags = << Module("rootfs", 28, 34), Hole >>, !.info = 16, !.total_size = 6],
   [Plain EXCEPT !.tags = << Flat, Module("rootfs", 40, 46) >>, !.info = 18, !.total_size = 4],
   [Plain EXCEPT !.tags = << Hole >>, !.info = 24],
   [Plain EXCEPT !.tags = << Tag, Module("rootfs", 28, 31) >>],
   Other}

MCRequests == {0, 1, 5, 17, 100, 255}

allVars == << vars, allHeapVars, exercised >>

AllocatorsInit ==
  /\ BootInit /\ HeapInit
  /\ exercised \in {"pages", "heap"}
  /\ exercised = "heap" => boot = Other

\* The kernel halts when the boot loader is of another kind; nothing else stops.
Halted == phase = "halted" /\ UNCHANGED allVars

AllocatorsNext ==
  \/ exercised = "pages" /\ BootNext /\ UNCHANGED << allHeapVars, exercised >>
  \/ exercised = "heap" /\ HeapNext /\ UNCHANGED << vars, exercised >>
  \/ Halted

AllocatorsSpec == AllocatorsInit /\ [][AllocatorsNext]_allVars

Symmetry == Permutations(Threads)
============================================================================
