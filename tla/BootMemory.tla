----------------------------- MODULE BootMemory ----------------------------
(***************************************************************************)
(* Physical memory from the boot loader's hands to the allocator: the        *)
(* Multiboot tags (kernel/boot/multiboot2.c), the bitmap pmm_init builds from  *)
(* them and the operations on it (kernel/mm/pmm.c).                         *)
(*                                                                         *)
(* pmm_alloc_page looks at fail_allocations before it disables interrupts, so  *)
(* the test is one step and what follows another, between which other threads    *)
(* run.  Threads free pages they were given; they may do so twice, or       *)
(* free an address past the end of memory.  Modules are page aligned, as GRUB    *)
(* loads them; the boot information is only eight-byte aligned.  Statistics are   *)
(* left out.                                                                *)
(***************************************************************************)
EXTENDS Integers, Sequences, SequencesExt, FiniteSetsExt

CONSTANTS
  Threads,
  PageSize,
  ByteBits,       \* 8: the pages a byte of the bitmap stands for
  LowEnd,         \* the first MiB, where the kernel is loaded
  Wrap,           \* 2^32
  Boots           \* what the boot loader may hand over

\* A memory map is a table of ranges.
WellFormedMap(entries) ==
  /\ entries \in Seq(Range(entries))
  /\ \A i \in DOMAIN entries : entries[i].addr \in Nat /\ entries[i].len \in Nat

\* The shape of what the boot loader hands over; the linker script aligns
\* kernel_end.  Where it puts things and which tags there are is open.
ASSUME BootAssumption ==
  /\ PageSize \in Nat \ {0} /\ ByteBits \in Nat \ {0} /\ Wrap \in Nat \ {0}
  /\ LowEnd \in Nat /\ LowEnd % PageSize = 0
  /\ \A b \in Boots :
       /\ b.kernel_end \in Nat /\ b.kernel_end % PageSize = 0 /\ b.kernel_end >= LowEnd
       /\ b.info \in Nat /\ b.total_size \in Nat
       /\ b.tags \in Seq(Range(b.tags))
       /\ \A i \in DOMAIN b.tags :
            /\ b.tags[i].type = "mmap" => WellFormedMap(b.tags[i].entries)
            /\ b.tags[i].type = "module" =>
                 b.tags[i].start \in Nat /\ b.tags[i].end \in Nat /\ b.tags[i].start <= b.tags[i].end

VARIABLES
  boot,               \* [magic, tags, kernel_end, info, total_size]
  phase,              \* "reset", "booted", "running" or "halted"
  used,               \* the pages whose bit is set
  total_pages,
  free_pages,
  fail_allocations,
  pc,                 \* where a thread is in pmm_alloc_page
  held                \* the pages that were given out and not freed

vars == << boot, phase, used, total_pages, free_pages, fail_allocations, pc, held >>

----------------------------------------------------------------------------
(* The tags.                                                               *)

\* multiboot2_memory_map: the entries of the first such tag, and whether there
\* is one.
HasMap == \E i \in DOMAIN boot.tags : boot.tags[i].type = "mmap"
MemoryMap == boot.tags[SelectInSeq(boot.tags, LAMBDA t : t.type = "mmap")].entries

Available == {MemoryMap[i] : i \in {j \in DOMAIN MemoryMap : MemoryMap[j].available}}

\* multiboot2_find_module("rootfs"): the first module of that name, as a set of
\* at most one range.
RootModule ==
  LET i == SelectInSeq(boot.tags, LAMBDA t : t.type = "module" /\ t.name = "rootfs") IN
  IF i = 0 THEN {} ELSE {[addr |-> boot.tags[i].start, len |-> boot.tags[i].end - boot.tags[i].start]}

----------------------------------------------------------------------------
(* The bitmap.                                                             *)

Ceiling(n, d) == (n + d - 1) \div d
PagesFrom(addr, n) == (addr \div PageSize)..(addr \div PageSize + n - 1)

\* Mutant: a page that is only partly available counts.
bitmap_clear_range_up(addr, len) == PagesFrom(addr, Ceiling(len, PageSize))

\* The pages bitmap_clear_range clears.
bitmap_clear_range(addr, len) == PagesFrom(addr, len \div PageSize)

\* Mutant: a page that is only partly reserved does not count.
bitmap_set_range_down(addr, len) == PagesFrom(addr, len \div PageSize)

\* The pages bitmap_set_range sets.
bitmap_set_range(addr, len) == PagesFrom(addr, Ceiling(len, PageSize))

TotalPages == Ceiling(Max({e.addr + e.len : e \in Available} \union {0}), PageSize)

BitmapSize == Ceiling(TotalPages, ByteBits)

\* bitmap_address: the page after the kernel and the boot information.
BitmapAddress == Ceiling(Max({boot.kernel_end, boot.info + boot.total_size}), PageSize) * PageSize

\* What pmm_init reserves, each a range of addresses.
Reserved ==
  {[addr |-> 0, len |-> LowEnd],
   [addr |-> LowEnd, len |-> boot.kernel_end - LowEnd],
   [addr |-> boot.info, len |-> boot.total_size],
   [addr |-> BitmapAddress, len |-> Ceiling(BitmapSize, PageSize) * PageSize]} \union RootModule

----------------------------------------------------------------------------
BootInit ==
  /\ boot \in Boots
  /\ phase = "reset"
  /\ used = {} /\ total_pages = 0 /\ free_pages = 0 /\ fail_allocations = 0
  /\ pc = [t \in Threads |-> "idle"]
  /\ held = {}

multiboot2_init ==
  /\ phase = "reset"
  /\ phase' = IF boot.magic THEN "booted" ELSE "halted"
  /\ UNCHANGED << boot, used, total_pages, free_pages, fail_allocations, pc, held >>

\* pmm_init: every bit is set, what is available is cleared, what is taken is
\* set again and the free pages are counted.  Without a memory map it returns at
\* once and there are no pages.
pmm_init ==
  LET all == 0..(BitmapSize * ByteBits - 1)
      cleared == UNION {bitmap_clear_range(e.addr, e.len) : e \in Available}
      set == UNION {bitmap_set_range(r.addr, r.len) : r \in Reserved} IN
  /\ phase = "booted"
  /\ phase' = "running"
  /\ IF HasMap
     THEN /\ used' = (all \ cleared) \union set
          /\ total_pages' = TotalPages
          /\ free_pages' = Cardinality((0..(total_pages' - 1)) \ used')
     ELSE UNCHANGED << used, total_pages, free_pages >>
  /\ UNCHANGED << boot, fail_allocations, pc, held >>

----------------------------------------------------------------------------
(* The allocator.                                                          *)

pmm_fail_next_allocations(count) ==
  /\ phase = "running"
  /\ fail_allocations' = count
  /\ UNCHANGED << boot, phase, used, total_pages, free_pages, pc, held >>

\* pmm_alloc_page, up to the test of fail_allocations.
pmm_alloc_page(t) ==
  /\ phase = "running" /\ pc[t] = "idle"
  /\ pc' = [pc EXCEPT ![t] = IF fail_allocations # 0 THEN "fail" ELSE "scan"]
  /\ UNCHANGED << boot, phase, used, total_pages, free_pages, fail_allocations, held >>

\* It counts down and returns NULL.
pmm_alloc_page_fail(t) ==
  /\ pc[t] = "fail"
  /\ pc' = [pc EXCEPT ![t] = "idle"]
  /\ fail_allocations' = (fail_allocations - 1) % Wrap
  /\ UNCHANGED << boot, phase, used, total_pages, free_pages, held >>

\* It takes the first page that is free, if there is one.
pmm_alloc_page_scan(t) ==
  LET free == (0..(total_pages - 1)) \ used IN
  /\ pc[t] = "scan"
  /\ pc' = [pc EXCEPT ![t] = "idle"]
  /\ IF free # {}
     THEN /\ used' = used \union {Min(free)}
          /\ held' = held \union {Min(free)}
          /\ free_pages' = free_pages - 1
     ELSE UNCHANGED << used, held, free_pages >>
  /\ UNCHANGED << boot, phase, total_pages, fail_allocations >>

\* Mutant: the bit is not tested.
Freeable_any(page) == page < total_pages

\* pmm_free_page goes on for a page of the bitmap whose bit is set.
Freeable(page) == page < total_pages /\ page \in used

\* What its callers may free: their own pages, pages they freed before, an
\* address past the end of memory; never a page the kernel reserved.
Returnable == held \union (0..total_pages \ used)

pmm_free_page(page) ==
  /\ phase = "running" /\ page \in Returnable
  /\ IF Freeable(page)
     THEN used' = used \ {page} /\ held' = held \ {page} /\ free_pages' = free_pages + 1
     ELSE UNCHANGED << used, held, free_pages >>
  /\ UNCHANGED << boot, phase, total_pages, fail_allocations, pc >>

BootNext ==
  \/ multiboot2_init
  \/ pmm_init
  \/ \E n \in 0..(Wrap - 1) : pmm_fail_next_allocations(n)
  \/ \E t \in Threads : pmm_alloc_page(t) \/ pmm_alloc_page_fail(t) \/ pmm_alloc_page_scan(t)
  \/ \E page \in Returnable : pmm_free_page(page)

BootSpec == BootInit /\ [][BootNext]_vars

----------------------------------------------------------------------------
(* Properties.                                                             *)

\* The types; free_pages is the number of clear bits, after any sequence of
\* allocations, forced failures and frees, double ones too.
BootTypeOK ==
  /\ boot \in Boots
  /\ phase \in {"reset", "booted", "running", "halted"}
  /\ total_pages \in Nat /\ used \subseteq Nat /\ held \subseteq 0..(total_pages - 1)
  /\ free_pages = Cardinality((0..(total_pages - 1)) \ used)
  /\ fail_allocations \in 0..(Wrap - 1)
  /\ pc \in [Threads -> {"idle", "fail", "scan"}]

\* The pages a range touches.
Touched(r) == IF r.len = 0 THEN {} ELSE (r.addr \div PageSize)..((r.addr + r.len - 1) \div PageSize)

\* bitmap_set_range counts a range from the start of its first page, and so
\* misses the last page of one that starts late in a page.  The low memory, the
\* kernel and the bitmap start on a page boundary, and so do modules where the boot
\* loader aligns them; the boot information may be such a range, although
\* init_process_start walks it again (init.c:31) after pages have been given out.
Covered(r) == r.addr % PageSize = 0 \/ (r.addr % PageSize) + r.len <= PageSize

\* No thread is ever given a page of the first MiB, of the kernel's image, of the
\* bitmap itself, of the root file system, or of boot information that
\* bitmap_set_range covers, wherever the boot loader put these.
ReservedKept ==
  phase = "running" /\ HasMap =>
    \A r \in Reserved : Covered(r) => Touched(r) \intersect held = {}

\* A page given out is marked, so that nobody else gets it, and is memory to its
\* last byte: no page straddles the end of an available range.  It is memory
\* from its first byte on too, unless a range starts inside it:
\* bitmap_clear_range rounds such a start down.
HeldIsMemory ==
  \A p \in held :
    /\ p \in used
    /\ \E e \in Available :
         /\ (p + 1) * PageSize <= e.addr + e.len
         /\ e.addr <= p * PageSize \/ p = e.addr \div PageSize
============================================================================
