------------------------- MODULE KernelSpaceProofs --------------------------
(***************************************************************************)
(* Proofs about the kernel half of the address spaces (KernelSpace): for any   *)
(* memory, layout, number of threads and processes no frame has two uses, the  *)
(* direct map survives, and every directory shows the heap and all kernel      *)
(* stacks as long as the kernel has not halted.                             *)
(***************************************************************************)
EXTENDS KernelSpace, PagingProofs, SequenceTheorems

\* The pages outside the direct map; page 0, whose frame holds nothing, is one.
Loose == {0} \union BootPages..(NumPages - 1)

\* The frames of the boot: the tables of the direct map and kernel_directory.
BootFrames == 1..kernel_directory

\* Entries of kernel_directory: the frame of a page, and of a table.
KPage(m, v) == m.pages[kernel_directory][v]
KTable(m, x) == m.tables[kernel_directory][x]

\* A frame has one holder: a page outside the direct map, a table of such
\* pages, or one of the directories D; and it is in use.
Owned(m, D) ==
  /\ BootFrames \union D \subseteq m.used
  /\ \A v \in Loose : KPage(m, v) # 0 => KPage(m, v) \in m.used \ (BootFrames \union D)
  /\ \A x \in Tables \ BootTables : KTable(m, x) # 0 => KTable(m, x) \in m.used \ (BootFrames \union D)
  /\ \A v, w \in Loose : KPage(m, v) # 0 /\ KPage(m, v) = KPage(m, w) => v = w
  /\ \A x, y \in Tables \ BootTables : KTable(m, x) # 0 /\ KTable(m, x) = KTable(m, y) => x = y
  /\ \A v \in Loose, x \in Tables \ BootTables : KPage(m, v) # 0 => KPage(m, v) # KTable(m, x)

\* The direct map is there.
Direct(m) ==
  /\ \A v \in 1..(BootPages - 1) : KPage(m, v) = v
  /\ \A x \in BootTables : KTable(m, x) = x + 1

\* A page is mapped through a table, and no table is empty.
Shaped(m) ==
  /\ \A v \in Pages : KPage(m, v) # 0 => KTable(m, Table(v)) # 0
  /\ \A x \in Tables : KTable(m, x) # 0 => \E v \in Pages : Table(v) = x /\ KPage(m, v) # 0

\* A memory with the process directories D.
Sound(m, D) ==
  /\ m \in Memory /\ D \subseteq Frames \ BootFrames
  /\ Owned(m, D) /\ Direct(m) /\ Shaped(m)

\* Directory d agrees with the kernel's on the tables of the first n pages.
Agree(m, d, n) == \A v \in 0..(n - 1) : m.tables[d][Table(v)] = KTable(m, Table(v))

\* No two processes share a directory, every directory shows the direct map, and
\* the one that is loaded belongs to a process or is the kernel's.
DirectoriesSound ==
  /\ \A p, q \in Processes : page_directory[p] # 0 /\ page_directory[p] = page_directory[q] => p = q
  /\ \A d \in Directories : Agree(mem, d, BootPages)
  /\ cr3 \in Directories \union {kernel_directory}
  /\ \A t \in Threads : Live(t) => page_directory[process[t]] # 0

\* What vmm_alloc_pages_any gives out is neither in the direct map nor reserved.
RunsSound ==
  /\ vam_init \subseteq bitmap
  /\ \A r \in runs : \A v \in r[1]..(r[1] + r[2] - 1) :
       v \in Pages /\ v \notin vam_init /\ v \notin 1..(BootPages - 1)

\* Every thread has a slot of its own, which is not idle's.
SlotsSound ==
  /\ IdleSlot \in stack_bitmap
  /\ \A t \in Threads : Live(t) => kernel_stack[t] \in stack_bitmap \ {IdleSlot}
  /\ \A t, u \in Threads : Live(t) /\ kernel_stack[t] = kernel_stack[u] => t = u

\* All stacks are in one table.
OneTable(m) ==
  \A v \in StacksStart..(StacksEnd - 1) : KTable(m, Table(v)) # 0 => Table(v) = Table(StacksStart)

\* The directories C have the kernel's tables up to the end of the stacks, and the
\* pages in P are mapped.
Shares(m, C, P) ==
  /\ \A d \in C : Agree(m, d, StacksEnd)
  /\ OneTable(m)
  /\ \A v \in P : KPage(m, v) # 0

\* While the kernel runs, every directory shows what is needed.
Shared == Shares(mem, Directories \union {cr3}, Needed)

KernelInv ==
  /\ KernelTypeOK /\ Sound(mem, Directories) /\ DirectoriesSound /\ RunsSound /\ SlotsSound
  /\ ~halted => Shared

----------------------------------------------------------------------------
(* Numbers: pages, tables and slots.                                        *)

\* A number is its quotient and its remainder.
LEMMA Division ==
  ASSUME NEW a \in Nat, NEW d \in Nat \ {0}
  PROVE  /\ a \div d \in Nat /\ a % d \in 0..(d - 1)
         /\ a = d * (a \div d) + (a % d)
  OBVIOUS

\* The sizes of the layout.
LEMMA Layout ==
  /\ NumFrames \in Nat /\ NumPages \in Nat \ {0} /\ TableEntries \in Nat /\ TableEntries > 1
  /\ BootPages \in Nat \ {0} /\ BootPages = NumFrames + 1 /\ HeapStart = BootPages
  /\ StackPages \in Nat \ {0} /\ StackPages <= TableEntries
  /\ HEAP_PAGES \in Nat \ {0} /\ HEAP_PAGES <= TableEntries
  /\ StacksStart \in Nat /\ StacksEnd \in Nat /\ KERNEL_STACK_COUNT \in Nat \ {0}
  /\ BootPages < StacksStart /\ StacksStart <= StacksEnd /\ StacksEnd <= NumPages
<1>1. NumFrames \in Nat /\ NumPages \in Nat \ {0} /\ TableEntries \in Nat /\ TableEntries > 1
  BY PagingAssumption, KernelAssumption
<1>2. BootPages = NumFrames + 1 /\ HeapStart = BootPages /\ BootPages \in Nat \ {0}
  BY <1>1, KernelAssumption DEF HeapStart
<1>3. StackPages \in Nat \ {0} /\ StackPages <= TableEntries /\ HEAP_PAGES \in Nat \ {0} /\ HEAP_PAGES <= TableEntries
  BY <1>1, KernelAssumption
<1>4. StacksStart \in Nat /\ KERNEL_STACK_COUNT \in Nat \ {0} /\ BootPages < StacksStart /\ StacksEnd <= NumPages
  BY KernelAssumption
<1>5. KERNEL_STACK_COUNT * StackPages \in Nat
  BY <1>3, <1>4
<1>6. StacksEnd \in Nat /\ StacksStart <= StacksEnd
  BY <1>4, <1>5 DEF StacksEnd
<1> QED BY <1>1, <1>2, <1>3, <1>4, <1>6

\* The table of a page is a number.
LEMMA TableNat == \A v \in Nat : Table(v) \in Nat
  BY Layout, Division DEF Table

\* A boundary between tables: what is below it is in a lower table.
LEMMA Boundary ==
  ASSUME NEW b \in Nat, b % TableEntries = 0, NEW v \in Nat
  PROVE  /\ v < b => Table(v) < Table(b)
         /\ b <= v => Table(b) <= Table(v)
         /\ b <= v /\ v < b + TableEntries => Table(v) = Table(b)
<1> DEFINE d == TableEntries
           p == v \div d
           r == v % d
           q == b \div d
<1>1. d \in Nat \ {0}
  BY Layout
<1>2. p \in Nat /\ r \in 0..(d - 1) /\ v = d * p + r
  BY <1>1, Division
<1>3. q \in Nat /\ b = d * q + 0
  BY <1>1, Division
<1>4. Table(v) = p /\ Table(b) = q
  BY DEF Table
<1> HIDE DEF d, p, r, q
<1>5. ASSUME v < b, q <= p PROVE FALSE
  <2>1. p - q \in Nat
    BY <1>2, <1>3, <1>5
  <2>2. d * (p - q) \in Nat /\ d * (p - q) = d * p - d * q
    BY <1>1, <1>2, <1>3, <2>1
  <2> QED BY <1>1, <1>2, <1>3, <1>5, <2>2
<1>6. ASSUME b <= v, p < q PROVE FALSE
  <2>1. q - p - 1 \in Nat
    BY <1>2, <1>3, <1>6
  <2>2. d * (q - p - 1) \in Nat /\ d * (q - p - 1) = d * q - d * p - d
    BY <1>1, <1>2, <1>3, <2>1
  <2> QED BY <1>1, <1>2, <1>3, <1>6, <2>2
<1>7. ASSUME v < b + d, q < p PROVE FALSE
  <2>1. p - q - 1 \in Nat
    BY <1>2, <1>3, <1>7
  <2>2. d * (p - q - 1) \in Nat /\ d * (p - q - 1) = d * p - d * q - d
    BY <1>1, <1>2, <1>3, <2>1
  <2> QED BY <1>1, <1>2, <1>3, <1>7, <2>2
<1> QED BY <1>2, <1>3, <1>4, <1>5, <1>6, <1>7 DEF d

\* A page that does not begin a table is in the table of the page before.
LEMMA SameTable ==
  ASSUME NEW v \in Nat \ {0}, v % TableEntries # 0
  PROVE  Table(v - 1) = Table(v)
<1> DEFINE d == TableEntries
           p == v \div d
           r == v % d
           w == v - 1
           q == w \div d
           s == w % d
<1>1. d \in Nat \ {0} /\ w \in Nat
  BY Layout
<1>2. p \in Nat /\ r \in 1..(d - 1) /\ v = d * p + r
  <2>1. p \in Nat /\ r \in 0..(d - 1) /\ v = d * p + r
    BY <1>1, Division
  <2>2. r # 0
    OBVIOUS
  <2> HIDE DEF p, r, d
  <2> QED BY <1>1, <2>1, <2>2
<1>3. q \in Nat /\ s \in 0..(d - 1) /\ w = d * q + s
  BY <1>1, Division
<1>4. Table(v) = p /\ Table(v - 1) = q
  BY DEF Table
<1>4a. w = v - 1
  OBVIOUS
<1> HIDE DEF d, p, r, q, s, w
<1>5. ASSUME q < p PROVE FALSE
  <2>1. p - q - 1 \in Nat
    BY <1>2, <1>3, <1>5
  <2>2. d * (p - q - 1) \in Nat /\ d * (p - q - 1) = d * p - d * q - d
    BY <1>1, <1>2, <1>3, <2>1
  <2> QED BY <1>1, <1>2, <1>3, <1>4a, <2>2
<1>6. ASSUME p < q PROVE FALSE
  <2>1. q - p - 1 \in Nat
    BY <1>2, <1>3, <1>6
  <2>2. d * (q - p - 1) \in Nat /\ d * (q - p - 1) = d * q - d * p - d
    BY <1>1, <1>2, <1>3, <2>1
  <2> QED BY <1>1, <1>2, <1>3, <1>4a, <2>2
<1> QED BY <1>2, <1>3, <1>4, <1>5, <1>6

\* The tables of the direct map are the first ones, and kernel_directory is the
\* frame behind theirs.
LEMMA BootLayout ==
  /\ BootTables = 0..(Table(BootPages) - 1) /\ Table(BootPages) \in Nat
  /\ kernel_directory = Table(BootPages) + 1
  /\ \A x \in BootTables : x \in Nat /\ x + 1 \in 1..(kernel_directory - 1)
<1> DEFINE q == Table(BootPages)
           d == TableEntries
<1>1. BootPages \in Nat /\ BootPages % d = 0 /\ d \in Nat \ {0} /\ q \in Nat
  BY Layout, TableNat, KernelAssumption
<1>2. BootPages = d * q
  <2>1. BootPages = d * (BootPages \div d) + 0
    BY <1>1, Division
  <2>2. d * (BootPages \div d) = d * q /\ d * q \in Nat
    BY <1>1 DEF Table
  <2> HIDE DEF q, d
  <2> QED BY <1>1, <2>1, <2>2
<1>3. ASSUME NEW v \in 0..(BootPages - 1) PROVE Table(v) \in 0..(q - 1)
  <2>1. v \in Nat /\ v < BootPages
    BY <1>1
  <2>2. Table(v) < Table(BootPages) /\ Table(v) \in Nat
    BY <1>1, <2>1, Boundary, TableNat
  <2> QED BY <1>1, <2>2
<1>4. ASSUME NEW x \in 0..(q - 1) PROVE \E v \in 0..(BootPages - 1) : Table(v) = x
  <2> DEFINE v == d * x
             k == v \div d
             r == v % d
  <2> HIDE DEF q
  <2>0. x \in Nat /\ x < q
    BY <1>1
  <2>1. v \in Nat /\ d * (q - x - 1) \in Nat /\ d * (q - x - 1) = d * q - v - d
    <3>1. q - x - 1 \in Nat
      BY <1>1, <2>0
    <3>2. d * (q - x - 1) \in Nat /\ d * x \in Nat
      BY <1>1, <2>0, <3>1
    <3>3. d * (q - x - 1) = d * q - d * x - d
      BY <1>1, <2>0
    <3> QED BY <3>2, <3>3
  <2>2. v \in 0..(BootPages - 1)
    <3> HIDE DEF v
    <3> QED BY <1>1, <1>2, <2>1
  <2>3. k \in Nat /\ r \in 0..(d - 1) /\ v = d * k + r
    BY <1>1, <2>1, Division
  <2>4. Table(v) = k
    BY DEF Table
  <2>5. v = d * x
    OBVIOUS
  <2> HIDE DEF v, k, r, d
  <2>6. ASSUME k < x PROVE FALSE
    <3>1. d * (x - k - 1) \in Nat /\ d * (x - k - 1) = d * x - d * k - d
      <4>1. x - k - 1 \in Nat
        BY <2>0, <2>3, <2>6
      <4> QED BY <1>1, <2>0, <2>3, <4>1
    <3> QED BY <1>1, <2>0, <2>3, <2>5, <3>1
  <2>7. ASSUME x < k PROVE FALSE
    <3>1. d * (k - x - 1) \in Nat /\ d * (k - x - 1) = d * k - d * x - d
      <4>1. k - x - 1 \in Nat
        BY <2>0, <2>3, <2>7
      <4> QED BY <1>1, <2>0, <2>3, <4>1
    <3> QED BY <1>1, <2>0, <2>3, <2>5, <3>1
  <2>8. k = x
    BY <2>0, <2>3, <2>6, <2>7
  <2> QED BY <2>2, <2>4, <2>8
<1>5. BootTables = 0..(q - 1)
  BY <1>3, <1>4 DEF BootTables
<1> HIDE DEF q, d
<1>6. Cardinality(0..(q - 1)) = q
  <2>1. 0 <= q - 1 + 1 /\ (q - 1) - 0 + 1 = q
    BY <1>1
  <2>2. Cardinality(0..(q - 1)) = IF 0 > q - 1 THEN 0 ELSE (q - 1) - 0 + 1
    BY <1>1, FS_Interval
  <2> QED BY <1>1, <2>1, <2>2
<1>7. kernel_directory = q + 1
  BY <1>5, <1>6 DEF kernel_directory
<1> QED BY <1>1, <1>5, <1>7 DEF q

\* The regions of the layout and the tables they are in.
LEMMA Regions ==
  /\ Frames \in SUBSET Nat /\ 0 \notin Frames /\ Pages \in SUBSET Nat /\ IsFiniteSet(Frames)
  /\ Cardinality(Frames) = NumFrames
  /\ Loose \in SUBSET Pages /\ 1..(BootPages - 1) \in SUBSET Pages
  /\ \A v \in Pages : v \in Loose \/ v \in 1..(BootPages - 1)
  /\ \A v \in Loose : v \notin 1..(BootPages - 1)
  /\ \A v \in Pages : Table(v) \in Tables
  /\ BootTables \in SUBSET Tables
  /\ \A v \in 0..(BootPages - 1) : Table(v) \in BootTables
  /\ \A v \in Loose \ {0} : Table(v) \notin BootTables
  /\ 1 \in 1..(BootPages - 1) /\ Table(1) = Table(0) /\ 0 \in Pages /\ Table(0) \in BootTables
<1> USE Layout
<1>1. Frames \in SUBSET Nat /\ 0 \notin Frames /\ Pages \in SUBSET Nat
  BY DEF Frames, Pages
<1>2. IsFiniteSet(Frames) /\ Cardinality(Frames) = NumFrames
  <2>1. IsFiniteSet(1..NumFrames) /\ Cardinality(1..NumFrames) = IF 1 > NumFrames THEN 0 ELSE NumFrames - 1 + 1
    BY FS_Interval
  <2> QED BY <2>1 DEF Frames
<1>3. /\ Loose \in SUBSET Pages /\ 1..(BootPages - 1) \in SUBSET Pages /\ 0 \in Pages
      /\ \A v \in Pages : v \in Loose \/ v \in 1..(BootPages - 1)
      /\ \A v \in Loose : v \notin 1..(BootPages - 1)
  BY DEF Loose, Pages
<1>4. \A v \in Pages : Table(v) \in Tables
  BY DEF Tables
<1>5. \A v \in 0..(BootPages - 1) : v \in Pages /\ Table(v) \in BootTables
  BY DEF BootTables, Pages
<1>6. BootTables \in SUBSET Tables
  BY <1>4, <1>5 DEF BootTables
<1>7. ASSUME NEW v \in Loose \ {0} PROVE Table(v) \notin BootTables
  <2>1. v \in Nat /\ BootPages <= v /\ BootPages % TableEntries = 0
    BY KernelAssumption DEF Loose
  <2>2. Table(BootPages) <= Table(v) /\ Table(v) \in Nat
    BY <2>1, Boundary, TableNat
  <2> QED BY <2>2, BootLayout
<1>8. 0 % TableEntries = 0
  <2>1. 0 \div TableEntries \in Nat /\ 0 % TableEntries \in Nat /\ 0 = TableEntries * (0 \div TableEntries) + (0 % TableEntries)
    BY Division
  <2>2. TableEntries * (0 \div TableEntries) \in Nat
    BY <2>1
  <2> QED BY <2>1, <2>2
<1>9. ASSUME BootPages < TableEntries PROVE FALSE
  <2>1. Table(BootPages) = Table(0)
    BY <1>8, <1>9, Boundary
  <2>2. Table(0) < Table(BootPages) /\ Table(0) \in Nat
    BY KernelAssumption, Boundary, TableNat
  <2> QED BY <2>1, <2>2
<1>10. 1 \in 1..(BootPages - 1) /\ 0 \in 0..(BootPages - 1)
  BY <1>9
<1>11. Table(1) = Table(0)
  BY <1>8, Boundary
<1> QED BY <1>1, <1>2, <1>3, <1>4, <1>5, <1>6, <1>7, <1>10, <1>11

\* The end of the stacks and their start are boundaries between tables; the
\* first pages of the heap are in one table, and so is the stack of idle.
LEMMA Borders ==
  /\ \A v \in 0..(StacksEnd - 1), w \in StacksEnd..(NumPages - 1) : Table(v) # Table(w)
  /\ \A v \in 0..(StacksStart - 1), w \in StacksStart..(NumPages - 1) : Table(v) # Table(w)
  /\ \A v \in HeapStart..(HeapStart + HEAP_PAGES - 1) : Table(v) = Table(HeapStart) /\ v < StacksStart
  /\ \A v \in StacksStart..(StacksStart + StackPages - 1) : Table(v) = Table(StacksStart)
<1> USE Layout, KernelAssumption
<1>1. ASSUME NEW v \in 0..(StacksEnd - 1), NEW w \in StacksEnd..(NumPages - 1) PROVE Table(v) # Table(w)
  <2>1. v \in Nat /\ w \in Nat /\ v < StacksEnd /\ StacksEnd <= w
    OBVIOUS
  <2>2. Table(v) < Table(StacksEnd) /\ Table(StacksEnd) <= Table(w)
    BY <2>1, Boundary
  <2> QED BY <2>1, <2>2, TableNat
<1>2. ASSUME NEW v \in 0..(StacksStart - 1), NEW w \in StacksStart..(NumPages - 1) PROVE Table(v) # Table(w)
  <2>1. v \in Nat /\ w \in Nat /\ v < StacksStart /\ StacksStart <= w
    OBVIOUS
  <2>2. Table(v) < Table(StacksStart) /\ Table(StacksStart) <= Table(w)
    BY <2>1, Boundary
  <2> QED BY <2>1, <2>2, TableNat
<1>3. ASSUME NEW v \in HeapStart..(HeapStart + HEAP_PAGES - 1) PROVE Table(v) = Table(HeapStart) /\ v < StacksStart
  <2>1. v \in Nat /\ HeapStart \in Nat /\ HeapStart <= v /\ v < HeapStart + TableEntries /\ HeapStart % TableEntries = 0
    OBVIOUS
  <2>2. Table(v) = Table(HeapStart)
    BY <2>1, Boundary
  <2>3. Table(HeapStart) < Table(StacksStart)
    BY <2>1, Boundary
  <2>4. StacksStart <= v => Table(StacksStart) <= Table(v)
    BY <2>1, Boundary
  <2> QED BY <2>1, <2>2, <2>3, <2>4, TableNat
<1>4. ASSUME NEW v \in StacksStart..(StacksStart + StackPages - 1) PROVE Table(v) = Table(StacksStart)
  <2>1. v \in Nat /\ StacksStart <= v /\ v < StacksStart + TableEntries
    OBVIOUS
  <2> QED BY <2>1, Boundary
<1> QED BY <1>1, <1>2, <1>3, <1>4

\* The pages from v on.
LEMMA RunPages ==
  ASSUME NEW v \in Nat, NEW n \in Nat
  PROVE  /\ PagesFrom(v, n) \in Seq(v..(v + n - 1)) /\ Len(PagesFrom(v, n)) = n
         /\ \A i \in 1..n : PagesFrom(v, n)[i] = v + i - 1
         /\ ToSet(PagesFrom(v, n)) = v..(v + n - 1)
<1>1. PagesFrom(v, n) \in Seq(v..(v + n - 1)) /\ Len(PagesFrom(v, n)) = n /\ DOMAIN PagesFrom(v, n) = 1..n
  BY DEF PagesFrom
<1>2. \A i \in 1..n : PagesFrom(v, n)[i] = v + i - 1
  BY DEF PagesFrom
<1>3. \A w \in v..(v + n - 1) : w - v + 1 \in 1..n /\ PagesFrom(v, n)[w - v + 1] = w
  BY <1>2
<1>4. \A i \in 1..n : PagesFrom(v, n)[i] \in v..(v + n - 1)
  BY <1>2
<1>5. ToSet(PagesFrom(v, n)) = v..(v + n - 1)
  BY <1>1, <1>3, <1>4 DEF ToSet
<1> QED BY <1>1, <1>2, <1>5

\* The first page of a slot.
SlotStart(s) == StacksStart + s * StackPages

\* Slots lie in the stack region and do not overlap.
LEMMA SlotLayout ==
  /\ IdleSlot \in Slots /\ SlotStart(IdleSlot) = StacksStart
  /\ \A s \in Slots : /\ SlotStart(s) \in Nat /\ StacksStart <= SlotStart(s)
                      /\ SlotStart(s) + StackPages <= StacksEnd
                      /\ ToSet(SlotPages(s)) = SlotStart(s)..(SlotStart(s) + StackPages - 1)
  /\ \A s, t \in Slots : s # t => ToSet(SlotPages(s)) \intersect ToSet(SlotPages(t)) = {}
<1> USE Layout
<1>1. IdleSlot \in Slots /\ SlotStart(IdleSlot) = StacksStart
  BY DEF IdleSlot, Slots, SlotStart
<1>2. ASSUME NEW s \in Slots
      PROVE  /\ SlotStart(s) \in Nat /\ StacksStart <= SlotStart(s) /\ SlotStart(s) + StackPages <= StacksEnd
             /\ ToSet(SlotPages(s)) = SlotStart(s)..(SlotStart(s) + StackPages - 1)
  <2>1. s \in Nat /\ KERNEL_STACK_COUNT - s - 1 \in Nat
    BY DEF Slots
  <2>2. s * StackPages \in Nat /\ (KERNEL_STACK_COUNT - s - 1) * StackPages \in Nat
    BY <2>1
  <2>3. (KERNEL_STACK_COUNT - s - 1) * StackPages = KERNEL_STACK_COUNT * StackPages - s * StackPages - StackPages
    BY <2>1
  <2>4. SlotStart(s) \in Nat /\ StacksStart <= SlotStart(s)
    BY <2>2 DEF SlotStart
  <2>5. SlotStart(s) + StackPages <= StacksEnd
    <3>1. KERNEL_STACK_COUNT * StackPages \in Nat
      OBVIOUS
    <3> QED BY <2>2, <2>3, <3>1 DEF SlotStart, StacksEnd
  <2>6. ToSet(PagesFrom(SlotStart(s), StackPages)) = SlotStart(s)..(SlotStart(s) + StackPages - 1)
    BY <2>4, RunPages
  <2> QED BY <2>4, <2>5, <2>6 DEF SlotPages, SlotStart
<1>3. ASSUME NEW s \in Slots, NEW t \in Slots, s < t PROVE SlotStart(s) + StackPages <= SlotStart(t)
  <2>1. s \in Nat /\ t \in Nat /\ t - s - 1 \in Nat
    BY <1>3 DEF Slots
  <2>2. (t - s - 1) * StackPages \in Nat /\ (t - s - 1) * StackPages = t * StackPages - s * StackPages - StackPages
    BY <2>1
  <2>3. s * StackPages \in Nat /\ t * StackPages \in Nat
    BY <2>1
  <2> QED BY <2>2, <2>3 DEF SlotStart
<1>4. ASSUME NEW s \in Slots, NEW t \in Slots, s # t
      PROVE  ToSet(SlotPages(s)) \intersect ToSet(SlotPages(t)) = {}
  <2>1. s < t \/ t < s
    BY <1>4 DEF Slots
  <2>2. SlotStart(s) + StackPages <= SlotStart(t) \/ SlotStart(t) + StackPages <= SlotStart(s)
    BY <1>3, <2>1
  <2> QED BY <1>2, <2>2
<1> QED BY <1>1, <1>2, <1>4

----------------------------------------------------------------------------
(* Mapping and unmapping one page.                                          *)

\* From m to n only the entries of kernel_directory for the pages in S and for
\* their tables have changed.
Within(m, n, S) ==
  /\ \A d \in Frames \ {kernel_directory}, x \in Tables : n.tables[d][x] = m.tables[d][x]
  /\ \A v \in Pages : v \notin S => KPage(n, v) = KPage(m, v)
  /\ \A x \in Tables : KTable(n, x) # KTable(m, x) => \E v \in S : Table(v) = x

\* No table has gone, or none has come.
Keeps(m, n) == \A x \in Tables : KTable(m, x) # 0 => KTable(n, x) = KTable(m, x)
Shrinks(m, n) == \A x \in Tables : KTable(n, x) = KTable(m, x) \/ KTable(n, x) = 0

\* The parts of a sound memory.
LEMMA SoundParts ==
  ASSUME NEW m, NEW D, Sound(m, D)
  PROVE  /\ m \in Memory /\ D \subseteq Frames \ BootFrames /\ Owned(m, D) /\ Direct(m) /\ Shaped(m)
         /\ m.used \subseteq Frames /\ kernel_directory \in Frames /\ kernel_directory \in BootFrames
         /\ \A v \in Pages : KPage(m, v) \in Frames \union {0}
         /\ \A x \in Tables : KTable(m, x) \in Frames \union {0}
<1>1. m \in Memory /\ D \subseteq Frames \ BootFrames /\ Owned(m, D) /\ Direct(m) /\ Shaped(m)
  BY DEF Sound
<1>2. m.used \subseteq Frames
  BY <1>1, MemoryParts
<1>3. kernel_directory \in BootFrames
  BY BootLayout DEF BootFrames
<1>4. kernel_directory \in Frames
  BY <1>1, <1>2, <1>3 DEF Owned
<1>5. /\ \A v \in Pages : KPage(m, v) \in Frames \union {0}
      /\ \A x \in Tables : KTable(m, x) \in Frames \union {0}
  BY <1>1, <1>4, MemoryParts DEF KPage, KTable
<1> QED BY <1>1, <1>2, <1>3, <1>4, <1>5

\* The table of a page outside the direct map, unless it is page 0's, is not one
\* of the boot's; those are there for good.
LEMMA BootTableKept ==
  ASSUME NEW m, Direct(m), NEW v \in Loose
  PROVE  /\ Table(v) \in Tables /\ v \in Pages
         /\ v = 0 \/ Table(v) \notin BootTables
         /\ v = 0 => /\ KTable(m, Table(v)) # 0 /\ KPage(m, 1) # 0 /\ 1 \in Pages /\ Table(1) = Table(v)
         /\ KTable(m, Table(v)) = 0 => Table(v) \notin BootTables
<1>1. Table(v) \in Tables /\ v \in Pages /\ (v = 0 \/ Table(v) \notin BootTables)
  BY Regions
<1>2. ASSUME v = 0
      PROVE  KTable(m, Table(v)) # 0 /\ KPage(m, 1) # 0 /\ 1 \in Pages /\ Table(1) = Table(v)
  <2>1. Table(0) \in BootTables /\ 1 \in 1..(BootPages - 1) /\ 1 \in Pages /\ Table(1) = Table(0)
    BY Regions
  <2>2. KTable(m, Table(0)) = Table(0) + 1 /\ KPage(m, 1) = 1
    BY <2>1 DEF Direct
  <2>3. Table(0) + 1 # 0
    BY <2>1, BootLayout
  <2> QED BY <1>2, <2>1, <2>2, <2>3
<1> QED BY <1>1, <1>2

\* A page is entered with a free frame, and perhaps its table with another.
LEMMA OwnEntry ==
  ASSUME NEW m, NEW D, NEW n, Owned(m, D), NEW v \in Loose, NEW f, f \notin m.used, f # 0,
         NEW N, N \subseteq Tables \ BootTables, NEW g, g \notin m.used, g # f,
         m.used \union {f} \subseteq n.used, N # {} => g \in n.used,
         \A w \in Loose : KPage(n, w) = IF w = v THEN f ELSE KPage(m, w),
         \A x \in Tables \ BootTables : KTable(n, x) = IF x \in N THEN g ELSE KTable(m, x),
         \A x, y \in N : x = y
  PROVE  Owned(n, D)
<1>1. BootFrames \union D \subseteq n.used /\ f \notin BootFrames \union D /\ g \notin BootFrames \union D
  BY DEF Owned
<1>2. \A w \in Loose : KPage(n, w) # 0 => KPage(n, w) \in n.used \ (BootFrames \union D)
  BY <1>1 DEF Owned
<1>3. \A x \in Tables \ BootTables : KTable(n, x) # 0 => KTable(n, x) \in n.used \ (BootFrames \union D)
  BY <1>1 DEF Owned
<1>4. \A w, u \in Loose : KPage(n, w) # 0 /\ KPage(n, w) = KPage(n, u) => w = u
  BY DEF Owned
<1>5. \A x, y \in Tables \ BootTables : KTable(n, x) # 0 /\ KTable(n, x) = KTable(n, y) => x = y
  BY DEF Owned
<1>6. \A w \in Loose, x \in Tables \ BootTables : KPage(n, w) # 0 => KPage(n, w) # KTable(n, x)
  <2> SUFFICES ASSUME NEW w \in Loose, NEW x \in Tables \ BootTables, KPage(n, w) # 0, KPage(n, w) = KTable(n, x)
               PROVE  FALSE
    OBVIOUS
  <2>1. KTable(m, x) # 0 => KTable(m, x) \in m.used
    BY DEF Owned
  <2>2. KPage(m, w) # 0 => KPage(m, w) \in m.used /\ KPage(m, w) # KTable(m, x)
    BY DEF Owned
  <2> QED BY <2>1, <2>2
<1> QED BY <1>1, <1>2, <1>3, <1>4, <1>5, <1>6 DEF Owned

\* A page, and perhaps its table, lose their frames.
LEMMA DropEntry ==
  ASSUME NEW m, NEW D, NEW n, Owned(m, D), NEW v \in Loose,
         NEW N, N \subseteq Tables \ BootTables,
         \A w \in Loose : KPage(n, w) = IF w = v THEN 0 ELSE KPage(m, w),
         \A x \in Tables \ BootTables : KTable(n, x) = IF x \in N THEN 0 ELSE KTable(m, x),
         \A h \in m.used : h \in n.used \/ (h # 0 /\ h = KPage(m, v)) \/ \E x \in N : h # 0 /\ h = KTable(m, x)
  PROVE  Owned(n, D)
<1>1. BootFrames \union D \subseteq n.used
  BY DEF Owned
<1>2. ASSUME NEW w \in Loose, KPage(n, w) # 0 PROVE KPage(n, w) \in n.used \ (BootFrames \union D)
  <2>1. w # v /\ KPage(n, w) = KPage(m, w) /\ KPage(m, w) # 0
    BY <1>2
  <2>2. KPage(m, w) \in m.used \ (BootFrames \union D) /\ KPage(m, w) # KPage(m, v)
    BY <2>1 DEF Owned
  <2>3. \A x \in N : KPage(m, w) # KTable(m, x)
    BY <2>1 DEF Owned
  <2> QED BY <2>1, <2>2, <2>3
<1>3. ASSUME NEW x \in Tables \ BootTables, KTable(n, x) # 0
      PROVE  KTable(n, x) \in n.used \ (BootFrames \union D)
  <2>1. x \notin N /\ KTable(n, x) = KTable(m, x) /\ KTable(m, x) # 0
    BY <1>3
  <2>2. KTable(m, x) \in m.used \ (BootFrames \union D) /\ \A y \in N : KTable(m, x) # KTable(m, y)
    BY <2>1 DEF Owned
  <2>3. KPage(m, v) # 0 => KTable(m, x) # KPage(m, v)
    BY <2>1 DEF Owned
  <2> QED BY <2>1, <2>2, <2>3
<1>4. \A w, u \in Loose : KPage(n, w) # 0 /\ KPage(n, w) = KPage(n, u) => w = u
  BY DEF Owned
<1>5. \A x, y \in Tables \ BootTables : KTable(n, x) # 0 /\ KTable(n, x) = KTable(n, y) => x = y
  BY DEF Owned
<1>6. \A w \in Loose, x \in Tables \ BootTables : KPage(n, w) # 0 => KPage(n, w) # KTable(n, x)
  BY DEF Owned
<1> QED BY <1>1, <1>2, <1>3, <1>4, <1>5, <1>6 DEF Owned

\* A free frame is mapped at a page outside the direct map; when the page needs a
\* table and there is no frame for it, the frame is lost and nothing is mapped.
LEMMA MapStep ==
  ASSUME NEW m, NEW D, Sound(m, D), NEW v \in Loose, NEW f \in Frames \ m.used
  PROVE  LET n == paging_map(Taken(m, f), kernel_directory, v, f)
             g == pmm_alloc_page(Taken(m, f)) IN
         /\ Sound(n, D) /\ Within(m, n, {v}) /\ Keeps(m, n)
         /\ KTable(m, Table(v)) # 0 => KPage(n, v) = f /\ n.used = m.used \union {f}
         /\ KTable(m, Table(v)) = 0 /\ g # 0 =>
              KPage(n, v) = f /\ n.used = m.used \union {f, g} /\ KTable(n, Table(v)) # 0
<1> DEFINE K == kernel_directory
           k == Taken(m, f)
           g == pmm_alloc_page(k)
           n == paging_map(k, K, v, f)
           x == Table(v)
<1>0. /\ m \in Memory /\ D \subseteq Frames \ BootFrames /\ Owned(m, D) /\ Direct(m) /\ Shaped(m)
      /\ K \in Frames /\ f \in Frames /\ f # 0 /\ f \notin m.used
  BY SoundParts, Regions
<1>1. /\ x \in Tables /\ v \in Pages /\ (v = 0 \/ x \notin BootTables)
      /\ KTable(m, x) = 0 => x \notin BootTables
  BY <1>0, BootTableKept
<1>2. k \in Memory /\ k.used = m.used \union {f} /\ k.tables = m.tables /\ k.pages = m.pages
  BY <1>0, TakenFacts
<1>3. \A w \in 1..(BootPages - 1) : w # v /\ w \in Pages
  BY Regions
<1>3a. Loose \in SUBSET Pages /\ BootTables \in SUBSET Tables
  BY Regions
<1>4. CASE KTable(m, x) # 0
  <2>1. k.tables[K][Table(v)] # 0
    BY <1>2, <1>4 DEF KTable
  <2> HIDE DEF k
  <2>2. /\ n \in Memory /\ n.used = k.used /\ n.tables = k.tables
        /\ \A e \in Frames, w \in Pages : n.pages[e][w] = IF e = K /\ w = v THEN f ELSE k.pages[e][w]
    BY <1>0, <1>1, <1>2, <2>1, MapInTable
  <2> HIDE DEF n
  <2>3. /\ n.used = m.used \union {f}
        /\ \A w \in Pages : KPage(n, w) = IF w = v THEN f ELSE KPage(m, w)
        /\ \A y \in Tables : KTable(n, y) = KTable(m, y)
        /\ \A d \in Frames, y \in Tables : n.tables[d][y] = m.tables[d][y]
    BY <1>0, <1>2, <2>2 DEF KPage, KTable
  <2>4. Owned(n, D)
    <3>1. PICK h : h \notin m.used /\ h # f
      <4>1. -1 \notin Frames
        BY DEF Frames
      <4> QED BY <1>0, <4>1, SoundParts
    <3>2. \A w \in Loose : KPage(n, w) = IF w = v THEN f ELSE KPage(m, w)
      BY <2>3, <1>3a
    <3>3. PICK N : N = {}
      OBVIOUS
    <3>4. \A y \in Tables \ BootTables : KTable(n, y) = IF y \in N THEN h ELSE KTable(m, y)
      BY <2>3, <3>3
    <3>5. N \subseteq Tables \ BootTables /\ (N # {} => h \in n.used) /\ (\A y, z \in N : y = z)
      BY <3>3
    <3>6. m.used \union {f} \subseteq n.used
      BY <2>3
    <3> QED BY <1>0, <3>1, <3>2, <3>4, <3>5, <3>6, OwnEntry
  <2>5. Direct(n)
    BY <1>0, <1>3, <1>3a, <2>3 DEF Direct
  <2>6. Shaped(n)
    <3>1. \A w \in Pages : KPage(n, w) # 0 => KTable(n, Table(w)) # 0
      BY <1>0, <1>1, <1>4, <2>3, Regions DEF Shaped
    <3>2. ASSUME NEW y \in Tables, KTable(n, y) # 0 PROVE \E w \in Pages : Table(w) = y /\ KPage(n, w) # 0
      <4>1. PICK w \in Pages : Table(w) = y /\ KPage(m, w) # 0
        BY <1>0, <2>3, <3>2 DEF Shaped
      <4>2. KPage(n, w) # 0
        BY <1>0, <2>3, <4>1
      <4> QED BY <4>1, <4>2
    <3> QED BY <3>1, <3>2 DEF Shaped
  <2>7. Sound(n, D)
    BY <1>0, <2>2, <2>4, <2>5, <2>6 DEF Sound
  <2>8. Within(m, n, {v}) /\ Keeps(m, n) /\ KPage(n, v) = f
    BY <1>1, <2>3 DEF Within, Keeps
  <2> QED BY <1>4, <2>3, <2>7, <2>8 DEF n, k
<1>5. CASE KTable(m, x) = 0 /\ g = 0
  <2>1. n = k
    <3>1. k.tables[K][Table(v)] = 0
      BY <1>2, <1>5 DEF KTable
    <3> QED BY <1>5, <3>1, MapRefused
  <2> HIDE DEF k, n
  <2>2. /\ n \in Memory /\ m.used \subseteq n.used
        /\ \A w \in Pages : KPage(n, w) = KPage(m, w)
        /\ \A y \in Tables : KTable(n, y) = KTable(m, y)
        /\ \A d \in Frames, y \in Tables : n.tables[d][y] = m.tables[d][y]
    BY <1>2, <2>1 DEF KPage, KTable
  <2>3. Owned(n, D)
    BY <1>0, <1>3a, <2>2 DEF Owned
  <2>4. Direct(n)
    BY <1>0, <1>3, <1>3a, <2>2 DEF Direct
  <2>5. Shaped(n)
    BY <1>0, <2>2, Regions DEF Shaped
  <2>6. Sound(n, D) /\ Within(m, n, {v}) /\ Keeps(m, n)
    BY <1>0, <2>2, <2>3, <2>4, <2>5 DEF Sound, Within, Keeps
  <2> QED BY <1>5, <2>6 DEF n, k
<1>6. CASE KTable(m, x) = 0 /\ g # 0
  <2>1. k.tables[K][Table(v)] = 0 /\ g # 0 /\ g = pmm_alloc_page(k)
    BY <1>2, <1>6 DEF KTable
  <2> HIDE DEF k
  <2>2. /\ g \in Frames \ k.used
        /\ n \in Memory /\ n.used = k.used \union {g}
        /\ \A e \in Frames, y \in Tables :
             n.tables[e][y] = IF e = K /\ y = Table(v) THEN g ELSE k.tables[e][y]
        /\ \A e \in Frames, w \in Pages : n.pages[e][w] = IF e = K /\ w = v THEN f ELSE k.pages[e][w]
    BY <1>0, <1>1, <1>2, <2>1, MapWithTable
  <2> HIDE DEF n, g
  <2>3. /\ n.used = m.used \union {f, g} /\ g \in Frames /\ g \notin m.used /\ g # f
        /\ \A w \in Pages : KPage(n, w) = IF w = v THEN f ELSE KPage(m, w)
        /\ \A y \in Tables : KTable(n, y) = IF y = x THEN g ELSE KTable(m, y)
        /\ \A d \in Frames \ {K}, y \in Tables : n.tables[d][y] = m.tables[d][y]
    <3> HIDE DEF x, K
    <3> QED BY <1>0, <1>2, <2>2 DEF KPage, KTable, x, K
  <2>4. Owned(n, D)
    <3>2. \A w \in Loose : KPage(n, w) = IF w = v THEN f ELSE KPage(m, w)
      BY <2>3, <1>3a
    <3>3. \A y \in Tables \ BootTables : KTable(n, y) = IF y \in {x} THEN g ELSE KTable(m, y)
      BY <2>3
    <3>4. PICK N : N = {x}
      OBVIOUS
    <3>5. N \subseteq Tables \ BootTables /\ (N # {} => g \in n.used) /\ (\A y, z \in N : y = z)
          /\ \A y \in Tables \ BootTables : KTable(n, y) = IF y \in N THEN g ELSE KTable(m, y)
      BY <1>1, <1>6, <2>3, <3>3, <3>4
    <3>6. m.used \union {f} \subseteq n.used /\ g \notin m.used /\ g # f
      BY <2>3
    <3> HIDE DEF x
    <3> QED BY <1>0, <3>2, <3>5, <3>6, OwnEntry
  <2>5. Direct(n)
    BY <1>0, <1>1, <1>3, <1>3a, <1>6, <2>3 DEF Direct
  <2>6. g # 0
    BY <2>3, Regions
  <2>7. Shaped(n)
    <3>1. \A w \in Pages : KPage(n, w) # 0 => KTable(n, Table(w)) # 0
      BY <1>0, <1>1, <2>3, <2>6, Regions DEF Shaped
    <3>2. ASSUME NEW y \in Tables, KTable(n, y) # 0 PROVE \E w \in Pages : Table(w) = y /\ KPage(n, w) # 0
      <4>1. CASE y = x
        BY <1>0, <1>1, <2>3, <4>1
      <4>2. CASE y # x
        <5>1. PICK w \in Pages : Table(w) = y /\ KPage(m, w) # 0
          BY <1>0, <2>3, <3>2, <4>2 DEF Shaped
        <5>2. KPage(n, w) # 0
          BY <1>0, <2>3, <5>1
        <5> QED BY <5>1, <5>2
      <4> QED BY <4>1, <4>2
    <3> QED BY <3>1, <3>2 DEF Shaped
  <2>8. Sound(n, D)
    BY <1>0, <2>2, <2>4, <2>5, <2>7 DEF Sound
  <2>9. Within(m, n, {v})
    BY <1>1, <2>3 DEF Within
  <2>10. Keeps(m, n)
    BY <1>6, <2>3 DEF Keeps
  <2>11. KPage(n, v) = f /\ KTable(n, x) # 0
    BY <1>1, <2>3, <2>6
  <2> QED BY <1>6, <2>3, <2>8, <2>9, <2>10, <2>11 DEF n, k, g
<1> QED BY <1>4, <1>5, <1>6

\* A page outside the direct map is unmapped and its frame freed, and with the
\* last page of a table the table.
LEMMA UnmapStep ==
  ASSUME NEW m, NEW D, Sound(m, D), NEW v \in Loose
  PROVE  LET n == unmap_page(m, v) IN
         Sound(n, D) /\ Within(m, n, {v}) /\ Shrinks(m, n) /\ KPage(n, v) = 0
<1> DEFINE K == kernel_directory
           f == KPage(m, v)
           x == Table(v)
           u == paging_unmap(m, K, v)
           n == pmm_free_page(u, f)
<1>0. /\ m \in Memory /\ D \subseteq Frames \ BootFrames /\ Owned(m, D) /\ Direct(m) /\ Shaped(m)
      /\ K \in Frames /\ m.used \subseteq Frames
  BY SoundParts
<1>1. /\ x \in Tables /\ v \in Pages /\ (v = 0 \/ x \notin BootTables)
      /\ v = 0 => KTable(m, x) # 0 /\ KPage(m, 1) # 0 /\ 1 \in Pages /\ Table(1) = x
      /\ KTable(m, x) = 0 => x \notin BootTables
  BY <1>0, BootTableKept
<1>2. n = unmap_page(m, v)
  BY DEF unmap_page, paging_translate, KPage
<1>3. /\ \A w \in 1..(BootPages - 1) : w # v /\ w \in Pages
      /\ Loose \in SUBSET Pages /\ BootTables \in SUBSET Tables /\ 0 \notin Frames
  BY Regions
<1>4. \A h \in m.used : h # 0
  BY <1>0, <1>3
\* What remains once used, pages and tables are known; N is the tables freed.
<1>5. ASSUME NEW N \in SUBSET {x}, x \in N => x \notin BootTables, n \in Memory,
             \A h \in m.used : h \in n.used \/ h = f \/ (N # {} /\ h = KTable(m, x)),
             \A w \in Pages : KPage(n, w) = IF w = v THEN 0 ELSE KPage(m, w),
             \A y \in Tables : KTable(n, y) = IF y \in N THEN 0 ELSE KTable(m, y),
             \A d \in Frames \ {K}, y \in Tables : n.tables[d][y] = m.tables[d][y],
             N = {} => (KTable(m, x) # 0 => \E w \in Pages : Table(w) = x /\ KPage(n, w) # 0),
             N # {} => \A w \in Pages : Table(w) = x => KPage(n, w) = 0
      PROVE  Sound(n, D) /\ Within(m, n, {v}) /\ Shrinks(m, n) /\ KPage(n, v) = 0
  <2> HIDE DEF n, x
  <2>1. Owned(n, D)
    <3>1. N \subseteq Tables \ BootTables
      BY <1>1, <1>5
    <3>2. \A w \in Loose : KPage(n, w) = IF w = v THEN 0 ELSE KPage(m, w)
      BY <1>3, <1>5
    <3>3. \A y \in Tables \ BootTables : KTable(n, y) = IF y \in N THEN 0 ELSE KTable(m, y)
      BY <1>5
    <3>4. \A h \in m.used : h \in n.used \/ (h # 0 /\ h = KPage(m, v)) \/ \E y \in N : h # 0 /\ h = KTable(m, y)
      BY <1>4, <1>5
    <3> QED BY <1>0, <3>1, <3>2, <3>3, <3>4, DropEntry
  <2>2. Direct(n)
    BY <1>0, <1>3, <1>5 DEF Direct
  <2>3. Shaped(n)
    <3>1. ASSUME NEW w \in Pages, KPage(n, w) # 0 PROVE KTable(n, Table(w)) # 0
      <4>1. KTable(m, Table(w)) # 0 /\ Table(w) \in Tables
        BY <1>0, <1>5, <3>1, Regions DEF Shaped
      <4>2. Table(w) \notin N
        BY <1>5, <3>1
      <4> QED BY <1>5, <4>1, <4>2
    <3>2. ASSUME NEW y \in Tables, KTable(n, y) # 0 PROVE \E w \in Pages : Table(w) = y /\ KPage(n, w) # 0
      <4>1. CASE y = x
        BY <1>5, <3>2, <4>1
      <4>2. CASE y # x
        <5>1. PICK w \in Pages : Table(w) = y /\ KPage(m, w) # 0
          BY <1>0, <1>5, <3>2, <4>2 DEF Shaped
        <5>2. w # v
          BY <4>2, <5>1 DEF x
        <5> QED BY <1>5, <5>1, <5>2
      <4> QED BY <4>1, <4>2
    <3> QED BY <3>1, <3>2 DEF Shaped
  <2>4. Sound(n, D)
    BY <1>0, <1>5, <2>1, <2>2, <2>3 DEF Sound
  <2>5. Within(m, n, {v})
    BY <1>5 DEF Within, x
  <2>6. Shrinks(m, n) /\ KPage(n, v) = 0
    BY <1>1, <1>5 DEF Shrinks
  <2> QED BY <2>4, <2>5, <2>6
<1>6. CASE KTable(m, x) = 0
  <2>1. u = m
    BY <1>6, UnmapNone DEF KTable
  <2>2. f = 0
    BY <1>0, <1>1, <1>6 DEF Shaped
  <2>3. n \in Memory /\ n.used = m.used \ {f} /\ n.tables = m.tables /\ n.pages = m.pages
    BY <1>0, <2>1, FreeFacts
  <2> HIDE DEF n, u, f
  <2>4. /\ \A w \in Pages : KPage(n, w) = IF w = v THEN 0 ELSE KPage(m, w)
        /\ \A y \in Tables : KTable(n, y) = IF y \in {} THEN 0 ELSE KTable(m, y)
        /\ \A d \in Frames \ {K}, y \in Tables : n.tables[d][y] = m.tables[d][y]
    BY <2>2, <2>3 DEF KPage, KTable, f
  <2>5. Sound(n, D) /\ Within(m, n, {v}) /\ Shrinks(m, n) /\ KPage(n, v) = 0
    <3>1. PICK N : N = {}
      OBVIOUS
    <3>2. N \in SUBSET {x} /\ (x \in N => x \notin BootTables) /\ (N # {} => FALSE)
          /\ \A y \in Tables : KTable(n, y) = IF y \in N THEN 0 ELSE KTable(m, y)
      BY <2>4, <3>1
    <3>3. \A h \in m.used : h \in n.used \/ h = f \/ (N # {} /\ h = KTable(m, x))
      BY <2>3
    <3> HIDE DEF x
    <3> QED BY <1>5, <1>6, <2>3, <2>4, <3>2, <3>3
  <2> QED BY <1>2, <2>5
<1>7. CASE KTable(m, x) # 0 /\ \E w \in Pages : w # v /\ Table(w) = x /\ KPage(m, w) # 0
  <2>1. PICK w \in Pages : w # v /\ Table(w) = x /\ KPage(m, w) # 0
    BY <1>7
  <2>2. m.tables[K][Table(v)] # 0 /\ m.pages[K][w] # 0
    BY <1>7, <2>1 DEF KTable, KPage
  <2>3. /\ u \in Memory /\ u.used = m.used /\ u.tables = m.tables
        /\ \A e \in Frames, z \in Pages : u.pages[e][z] = IF e = K /\ z = v THEN 0 ELSE m.pages[e][z]
    BY <1>0, <1>1, <2>1, <2>2, UnmapShared
  <2> HIDE DEF u
  <2>4. n \in Memory /\ n.used = u.used \ {f} /\ n.tables = u.tables /\ n.pages = u.pages
    BY <2>3, FreeFacts
  <2> HIDE DEF n, f
  <2>5. /\ \A z \in Pages : KPage(n, z) = IF z = v THEN 0 ELSE KPage(m, z)
        /\ \A y \in Tables : KTable(n, y) = IF y \in {} THEN 0 ELSE KTable(m, y)
        /\ \A d \in Frames \ {K}, y \in Tables : n.tables[d][y] = m.tables[d][y]
    BY <1>0, <2>3, <2>4 DEF KPage, KTable
  <2>6. \E z \in Pages : Table(z) = x /\ KPage(n, z) # 0
    BY <2>1, <2>5
  <2>7. Sound(n, D) /\ Within(m, n, {v}) /\ Shrinks(m, n) /\ KPage(n, v) = 0
    <3>1. PICK N : N = {}
      OBVIOUS
    <3>2. N \in SUBSET {x} /\ (x \in N => x \notin BootTables) /\ (N # {} => FALSE)
          /\ \A y \in Tables : KTable(n, y) = IF y \in N THEN 0 ELSE KTable(m, y)
      BY <2>5, <3>1
    <3>3. \A h \in m.used : h \in n.used \/ h = f \/ (N # {} /\ h = KTable(m, x))
      BY <2>3, <2>4
    <3> HIDE DEF x
    <3> QED BY <1>5, <2>4, <2>5, <2>6, <3>2, <3>3
  <2> QED BY <1>2, <2>7
<1>8. CASE KTable(m, x) # 0 /\ ~ \E w \in Pages : w # v /\ Table(w) = x /\ KPage(m, w) # 0
  <2>1. v # 0 /\ x \notin BootTables
    <3>1. v = 0 => 1 \in Pages /\ 1 # v /\ Table(1) = x /\ KPage(m, 1) # 0
      BY <1>1
    <3> QED BY <1>1, <1>8, <3>1
  <2>2. m.tables[K][Table(v)] # 0 /\ \A w \in Pages : w # v /\ Table(w) = Table(v) => m.pages[K][w] = 0
    BY <1>8 DEF KTable, KPage
  <2>3. /\ u \in Memory /\ u.used = m.used \ {m.tables[K][Table(v)]}
        /\ \A e \in Frames, y \in Tables :
             u.tables[e][y] = IF e = K /\ y = Table(v) THEN 0 ELSE m.tables[e][y]
        /\ \A e \in Frames, z \in Pages : u.pages[e][z] = IF e = K /\ z = v THEN 0 ELSE m.pages[e][z]
    BY <1>0, <1>1, <2>2, UnmapLast
  <2> HIDE DEF u
  <2>4. n \in Memory /\ n.used = u.used \ {f} /\ n.tables = u.tables /\ n.pages = u.pages
    BY <2>3, FreeFacts
  <2> HIDE DEF n, f
  <2>5. /\ n.used = (m.used \ {KTable(m, x)}) \ {f}
        /\ \A z \in Pages : KPage(n, z) = IF z = v THEN 0 ELSE KPage(m, z)
        /\ \A y \in Tables : KTable(n, y) = IF y \in {x} THEN 0 ELSE KTable(m, y)
        /\ \A d \in Frames \ {K}, y \in Tables : n.tables[d][y] = m.tables[d][y]
    BY <1>0, <2>3, <2>4 DEF KPage, KTable
  <2>6. \A z \in Pages : Table(z) = x => KPage(n, z) = 0
    BY <1>8, <2>5
  <2>7. Sound(n, D) /\ Within(m, n, {v}) /\ Shrinks(m, n) /\ KPage(n, v) = 0
    <3> HIDE DEF x
    <3>1. {x} \in SUBSET {x} /\ {x} # {}
      OBVIOUS
    <3> QED BY <1>5, <2>1, <2>4, <2>5, <2>6, <3>1
  <2> QED BY <1>2, <2>7
<1> QED BY <1>6, <1>7, <1>8


----------------------------------------------------------------------------
(* The loops over pages as functions of the number of pages.                  *)

\* One page of vmm_unmap_pages: pages that are not mapped are skipped.
skip_page(m, w) == IF paging_translate(m, kernel_directory, w) = 0 THEN m ELSE unmap_page(m, w)

\* What a loop does to one page w, by its kind; a is its state so far.
PageStep(op, d, a, w) ==
  IF op = "map" THEN vmm_map_page(a, w)
  ELSE IF op = "stack" THEN map_stack_page(d, a, w)
  ELSE IF op = "unmap" THEN unmap_page(a, w)
  ELSE skip_page(a, w)

\* The function that the loop over the first k pages of s is defined by, from b on.
IsFold(g, op, d, b, s, k) ==
  g = [q \in SUBSET (1..k) |-> IF q = {} THEN b
                               ELSE PageStep(op, d, g[q \ {Max(q)}], s[Max(q)])]

\* There is one.
LEMMA FoldExists ==
  ASSUME NEW op, NEW d, NEW b, NEW s, NEW n \in Nat
  PROVE  \E g : IsFold(g, op, d, b, s, n)
<1> DEFINE S == {k \in 0..n : \E g : IsFold(g, op, d, b, s, k)}
<1>1. 0 \in S
  <2> DEFINE g == [q \in SUBSET (1..0) |-> b]
  <2>1. \A q \in SUBSET (1..0) : q = {}
    OBVIOUS
  <2>2. IsFold(g, op, d, b, s, 0)
    BY <2>1 DEF IsFold
  <2> QED BY <2>2
<1>2. ASSUME NEW k \in 0..(n - 1), k \in S PROVE k + 1 \in S
  <2>1. PICK g : IsFold(g, op, d, b, s, k)
    BY <1>2
  <2> DEFINE r == [q \in SUBSET (1..(k + 1)) |->
                     IF k + 1 \in q THEN PageStep(op, d, g[q \ {k + 1}], s[k + 1]) ELSE g[q]]
  <2>2. ASSUME NEW q \in SUBSET (1..(k + 1))
        PROVE  r[q] = IF q = {} THEN b ELSE PageStep(op, d, r[q \ {Max(q)}], s[Max(q)])
    <3>1. CASE k + 1 \in q
      <4>1. Max(q) = k + 1
        <5>1. \A y \in q : y \in Int /\ k + 1 >= y
          OBVIOUS
        <5>2. Max(q) \in q /\ \A y \in q : Max(q) >= y
          BY <3>1, <5>1, Zenon DEF Max
        <5>3. Max(q) \in Int /\ k + 1 \in Int /\ k + 1 >= Max(q) /\ Max(q) >= k + 1
          BY <3>1, <5>1, <5>2, Zenon
        <5> QED BY <5>3
      <4>2. q \ {k + 1} \in SUBSET (1..(k + 1)) /\ k + 1 \notin q \ {k + 1} /\ q # {}
        BY <3>1
      <4>3. r[q \ {k + 1}] = g[q \ {k + 1}]
        BY <4>2
      <4>4. r[q] = PageStep(op, d, g[q \ {k + 1}], s[k + 1])
        BY <3>1
      <4> HIDE DEF r
      <4> QED BY <4>1, <4>2, <4>3, <4>4, Zenon
    <3>2. CASE k + 1 \notin q
      <4>1. q \in SUBSET (1..k) /\ q \ {Max(q)} \in SUBSET (1..(k + 1)) /\ k + 1 \notin q \ {Max(q)}
        <5>1. \A y \in q : y \in 1..(k + 1) /\ y # k + 1
          BY <3>2
        <5>2. \A y \in 1..(k + 1) : y # k + 1 => y \in 1..k
          OBVIOUS
        <5> QED BY <3>2, <5>1, <5>2
      <4>2. r[q] = g[q] /\ r[q \ {Max(q)}] = g[q \ {Max(q)}]
        BY <3>2, <4>1
      <4>3. g[q] = IF q = {} THEN b ELSE PageStep(op, d, g[q \ {Max(q)}], s[Max(q)])
        BY <2>1, <4>1, Zenon DEF IsFold
      <4> HIDE DEF r
      <4> QED BY <4>2, <4>3, Zenon
    <3> QED BY <3>1, <3>2
  <2>3. r = [q \in SUBSET (1..(k + 1)) |-> r[q]]
    OBVIOUS
  <2> HIDE DEF r
  <2>4. IsFold(r, op, d, b, s, k + 1)
    BY <2>2, <2>3 DEF IsFold
  <2>5. k + 1 \in 0..n
    OBVIOUS
  <2> QED BY <2>4, <2>5
<1> HIDE DEF S
<1>3. \A i \in 0..n : i \in S
  BY <1>1, <1>2, UpTo
<1>4. n \in S
  BY <1>3
<1> QED BY <1>4 DEF S

\* The values it has along the pages of s.
LEMMA FoldSteps ==
  ASSUME NEW op, NEW d, NEW b, NEW s, NEW n \in Nat, NEW g, IsFold(g, op, d, b, s, n)
  PROVE  \E h : /\ h[0] = b
                /\ \A i \in 1..n : h[i] = PageStep(op, d, h[i - 1], s[i])
                /\ h[n] = g[1..n]
<1> DEFINE h == [i \in 0..n |-> g[1..i]]
<1>1. ASSUME NEW i \in 1..n PROVE h[i] = PageStep(op, d, h[i - 1], s[i])
  <2>1. Max(1..i) = i
    <3>1. i \in 1..i /\ \A y \in 1..i : i >= y
      OBVIOUS
    <3>2. Max(1..i) \in 1..i /\ \A y \in 1..i : Max(1..i) >= y
      BY <3>1, Zenon DEF Max
    <3> QED BY <3>1, <3>2
  <2>2. 1..i \in SUBSET (1..n) /\ 1..i # {} /\ (1..i) \ {i} = 1..(i - 1)
    OBVIOUS
  <2>3. h[i] = g[1..i] /\ h[i - 1] = g[1..(i - 1)]
    OBVIOUS
  <2>4. g[1..i] = PageStep(op, d, g[(1..i) \ {Max(1..i)}], s[Max(1..i)])
    BY <2>2, Zenon DEF IsFold
  <2> HIDE DEF h
  <2> QED BY <2>1, <2>2, <2>3, <2>4, Zenon
<1>2. h[0] = b
  <2>1. 1..0 = {} /\ {} \in SUBSET (1..n)
    OBVIOUS
  <2>2. g[{}] = b
    BY <2>1, Zenon DEF IsFold
  <2> QED BY <2>1, <2>2
<1>3. h[n] = g[1..n]
  OBVIOUS
<1> HIDE DEF h
<1> QED BY <1>1, <1>2, <1>3

\* From b on, frames are mapped at the pages of s.
MapAll(b, s) == FoldLeft(vmm_map_page, b, s)
IsMap(g, b, s, k) ==
  g = [q \in SUBSET (1..k) |-> IF q = {} THEN b ELSE vmm_map_page(g[q \ {Max(q)}], s[Max(q)])]

LEMMA MapSteps ==
  ASSUME NEW b, NEW A, NEW s \in Seq(A)
  PROVE  \E h : /\ h[0] = b
                /\ \A i \in 1..Len(s) : h[i] = vmm_map_page(h[i - 1], s[i])
                /\ MapAll(b, s) = h[Len(s)]
<1> DEFINE n == Len(s)
           g == CHOOSE f : IsMap(f, b, s, n)
<1>1. n \in Nat /\ DOMAIN s = 1..n
  OBVIOUS
<1>2. MapAll(b, s) = g[1..n]
  BY <1>1, Zenon DEF MapAll, FoldLeft, MapThenFoldSet, IsMap
<1> PICK d : TRUE
  OBVIOUS
<1>3. \A a, w : PageStep("map", d, a, w) = vmm_map_page(a, w)
  BY DEF PageStep
<1> HIDE DEF n
<1>4. \A f : IsMap(f, b, s, n) <=> IsFold(f, "map", d, b, s, n)
  BY <1>3 DEF IsMap, IsFold
<1>5. IsFold(g, "map", d, b, s, n)
  BY <1>1, <1>4, FoldExists, Zenon
<1> HIDE DEF g
<1>6. PICK h : /\ h[0] = b
               /\ \A i \in 1..n : h[i] = PageStep("map", d, h[i - 1], s[i])
               /\ h[n] = g[1..n]
  BY <1>1, <1>5, FoldSteps
<1>7. \A i \in 1..n : h[i] = vmm_map_page(h[i - 1], s[i])
  BY <1>3, <1>6, Zenon
<1> QED BY <1>2, <1>6, <1>7 DEF n

\* From b on, the pages of s become a stack that directory d has to show.
StackAll(d, b, s) == FoldLeft(LAMBDA l, w : map_stack_page(d, l, w), b, s)
IsStack(g, d, b, s, k) ==
  g = [q \in SUBSET (1..k) |-> IF q = {} THEN b ELSE map_stack_page(d, g[q \ {Max(q)}], s[Max(q)])]

LEMMA StackSteps ==
  ASSUME NEW d, NEW b, NEW A, NEW s \in Seq(A)
  PROVE  \E h : /\ h[0] = b
                /\ \A i \in 1..Len(s) : h[i] = map_stack_page(d, h[i - 1], s[i])
                /\ StackAll(d, b, s) = h[Len(s)]
<1> DEFINE n == Len(s)
           g == CHOOSE f : IsStack(f, d, b, s, n)
<1>1. n \in Nat /\ DOMAIN s = 1..n
  OBVIOUS
<1>2. StackAll(d, b, s) = g[1..n]
  BY <1>1, Zenon DEF StackAll, FoldLeft, MapThenFoldSet, IsStack
<1>3. \A a, w : PageStep("stack", d, a, w) = map_stack_page(d, a, w)
  BY DEF PageStep
<1> HIDE DEF n
<1>4. \A f : IsStack(f, d, b, s, n) <=> IsFold(f, "stack", d, b, s, n)
  BY <1>3 DEF IsStack, IsFold
<1>5. IsFold(g, "stack", d, b, s, n)
  BY <1>1, <1>4, FoldExists, Zenon
<1> HIDE DEF g
<1>6. PICK h : /\ h[0] = b
               /\ \A i \in 1..n : h[i] = PageStep("stack", d, h[i - 1], s[i])
               /\ h[n] = g[1..n]
  BY <1>1, <1>5, FoldSteps
<1>7. \A i \in 1..n : h[i] = map_stack_page(d, h[i - 1], s[i])
  BY <1>3, <1>6, Zenon
<1> QED BY <1>2, <1>6, <1>7 DEF n

\* From b on, the pages of s are unmapped.
UnmapAll(b, s) == FoldLeft(unmap_page, b, s)
IsUnmap(g, b, s, k) ==
  g = [q \in SUBSET (1..k) |-> IF q = {} THEN b ELSE unmap_page(g[q \ {Max(q)}], s[Max(q)])]

LEMMA UnmapSteps ==
  ASSUME NEW b, NEW A, NEW s \in Seq(A)
  PROVE  \E h : /\ h[0] = b
                /\ \A i \in 1..Len(s) : h[i] = unmap_page(h[i - 1], s[i])
                /\ UnmapAll(b, s) = h[Len(s)]
<1> DEFINE n == Len(s)
           g == CHOOSE f : IsUnmap(f, b, s, n)
<1>1. n \in Nat /\ DOMAIN s = 1..n
  OBVIOUS
<1>2. UnmapAll(b, s) = g[1..n]
  BY <1>1, Zenon DEF UnmapAll, FoldLeft, MapThenFoldSet, IsUnmap
<1> PICK d : TRUE
  OBVIOUS
<1>3. \A a, w : PageStep("unmap", d, a, w) = unmap_page(a, w)
  BY DEF PageStep
<1> HIDE DEF n
<1>4. \A f : IsUnmap(f, b, s, n) <=> IsFold(f, "unmap", d, b, s, n)
  BY <1>3 DEF IsUnmap, IsFold
<1>5. IsFold(g, "unmap", d, b, s, n)
  BY <1>1, <1>4, FoldExists, Zenon
<1> HIDE DEF g
<1>6. PICK h : /\ h[0] = b
               /\ \A i \in 1..n : h[i] = PageStep("unmap", d, h[i - 1], s[i])
               /\ h[n] = g[1..n]
  BY <1>1, <1>5, FoldSteps
<1>7. \A i \in 1..n : h[i] = unmap_page(h[i - 1], s[i])
  BY <1>3, <1>6, Zenon
<1> QED BY <1>2, <1>6, <1>7 DEF n

\* From b on, the pages of s that are mapped are unmapped.
SkipAll(b, s) == FoldLeft(skip_page, b, s)
IsSkip(g, b, s, k) ==
  g = [q \in SUBSET (1..k) |-> IF q = {} THEN b ELSE skip_page(g[q \ {Max(q)}], s[Max(q)])]

LEMMA SkipSteps ==
  ASSUME NEW b, NEW A, NEW s \in Seq(A)
  PROVE  \E h : /\ h[0] = b
                /\ \A i \in 1..Len(s) : h[i] = skip_page(h[i - 1], s[i])
                /\ SkipAll(b, s) = h[Len(s)]
<1> DEFINE n == Len(s)
           g == CHOOSE f : IsSkip(f, b, s, n)
<1>1. n \in Nat /\ DOMAIN s = 1..n
  OBVIOUS
<1>2. SkipAll(b, s) = g[1..n]
  BY <1>1, Zenon DEF SkipAll, FoldLeft, MapThenFoldSet, IsSkip
<1> PICK d : TRUE
  OBVIOUS
<1>3. \A a, w : PageStep("skip", d, a, w) = skip_page(a, w)
  BY DEF PageStep
<1> HIDE DEF n
<1>4. \A f : IsSkip(f, b, s, n) <=> IsFold(f, "skip", d, b, s, n)
  BY <1>3 DEF IsSkip, IsFold
<1>5. IsFold(g, "skip", d, b, s, n)
  BY <1>1, <1>4, FoldExists, Zenon
<1> HIDE DEF g
<1>6. PICK h : /\ h[0] = b
               /\ \A i \in 1..n : h[i] = PageStep("skip", d, h[i - 1], s[i])
               /\ h[n] = g[1..n]
  BY <1>1, <1>5, FoldSteps
<1>7. \A i \in 1..n : h[i] = skip_page(h[i - 1], s[i])
  BY <1>3, <1>6, Zenon
<1> QED BY <1>2, <1>6, <1>7 DEF n

\* The loops of the model.
LEMMA Loops ==
  /\ \A m, v, n : vmm_unmap_pages(m, v, n) = SkipAll(m, PagesFrom(v, n))
  /\ \A m, s : unmap_stack(m, s) = UnmapAll(m, SlotPages(s))
  /\ \A m : scheduler_start(m) = MapAll([ok |-> TRUE, m |-> m, done |-> 0], SlotPages(IdleSlot))
<1>1. \A m, v, n : vmm_unmap_pages(m, v, n) = SkipAll(m, PagesFrom(v, n))
  BY Zenon DEF vmm_unmap_pages, SkipAll, FoldLeft, MapThenFoldSet, skip_page
<1>2. \A m, s : unmap_stack(m, s) = UnmapAll(m, SlotPages(s))
  BY Zenon DEF unmap_stack, UnmapAll
<1>3. \A m : scheduler_start(m) = MapAll([ok |-> TRUE, m |-> m, done |-> 0], SlotPages(IdleSlot))
  BY Zenon DEF scheduler_start, MapAll
<1> QED BY <1>1, <1>2, <1>3

LEMMA MapPagesLoop ==
  ASSUME NEW m, NEW v, NEW n
  PROVE  LET l == MapAll([ok |-> TRUE, m |-> m, done |-> 0], PagesFrom(v, n)) IN
         vmm_map_pages(m, v, n) =
           IF \E w \in ToSet(PagesFrom(v, n)) : KPage(m, w) # 0 THEN [ok |-> FALSE, m |-> m, done |-> 0]
           ELSE IF l.ok THEN l ELSE [l EXCEPT !.m = SkipAll(l.m, PagesFrom(v, l.done))]
<1>1. \A k, i : vmm_unmap_pages(k, v, i) = SkipAll(k, PagesFrom(v, i))
  BY Loops
<1> QED BY <1>1, Zenon DEF vmm_map_pages, MapAll, paging_translate, KPage

LEMMA StackLoop ==
  ASSUME NEW m, NEW s, NEW d
  PROVE  LET l == StackAll(d, [ok |-> TRUE, halt |-> FALSE, m |-> m, done |-> << >>], SlotPages(s)) IN
         map_stack(m, s, d) = IF l.ok THEN l ELSE [l EXCEPT !.m = UnmapAll(l.m, Reverse(l.done))]
  BY Zenon DEF map_stack, StackAll, UnmapAll

\* Changes add up.
LEMMA WithinTrans ==
  ASSUME NEW m, NEW n, NEW k, NEW S, NEW T, Within(m, n, S), Within(n, k, T)
  PROVE  Within(m, k, S \union T)
  BY DEF Within

LEMMA WithinMore ==
  ASSUME NEW m, NEW n, NEW S, NEW T, Within(m, n, S), S \subseteq T
  PROVE  Within(m, n, T)
  BY DEF Within

\* One page of either loop that unmaps.
LEMMA SkipStep ==
  ASSUME NEW m, NEW D, Sound(m, D), NEW v \in Loose
  PROVE  LET n == skip_page(m, v) IN
         Sound(n, D) /\ Within(m, n, {v}) /\ Shrinks(m, n) /\ KPage(n, v) = 0
<1>1. CASE KPage(m, v) = 0
  <2>1. skip_page(m, v) = m
    BY <1>1 DEF skip_page, paging_translate, KPage
  <2> QED BY <1>1, <2>1 DEF Within, Shrinks
<1>2. CASE KPage(m, v) # 0
  <2>1. skip_page(m, v) = unmap_page(m, v)
    BY <1>2 DEF skip_page, paging_translate, KPage
  <2> QED BY <2>1, UnmapStep
<1> QED BY <1>1, <1>2

\* What is so after unmapping the first i pages of s.
Unmapped(m, D, S, s, i, n) ==
  /\ Sound(n, D) /\ Within(m, n, S) /\ Shrinks(m, n)
  /\ \A v \in Pages : KPage(n, v) = KPage(m, v) \/ KPage(n, v) = 0
  /\ \A j \in 1..i : KPage(n, s[j]) = 0

LEMMA UnmappedNext ==
  ASSUME NEW m, NEW D, NEW S \in SUBSET Loose, NEW s \in Seq(S), NEW i \in 1..Len(s), NEW n, NEW k,
         Unmapped(m, D, S, s, i - 1, n),
         Sound(k, D), Within(n, k, {s[i]}), Shrinks(n, k), KPage(k, s[i]) = 0
  PROVE  Unmapped(m, D, S, s, i, k)
<1>1. s[i] \in S /\ \A j \in 1..Len(s) : s[j] \in Pages
  <2>1. \A j \in 1..Len(s) : s[j] \in S
    OBVIOUS
  <2>2. \A v \in S : v \in Pages
    BY Regions
  <2> QED BY <2>1, <2>2
<1>2. Within(m, k, S)
  <2>1. Within(m, k, S \union {s[i]})
    BY WithinTrans DEF Unmapped
  <2>2. S \union {s[i]} = S
    BY <1>1
  <2> QED BY <2>1, <2>2
<1>3. Shrinks(m, k)
  BY DEF Shrinks, Unmapped
<1>4. \A v \in Pages : KPage(k, v) = KPage(n, v) \/ KPage(k, v) = 0
  BY DEF Within
<1>5. \A v \in Pages : KPage(k, v) = KPage(m, v) \/ KPage(k, v) = 0
  BY <1>4 DEF Unmapped
<1>6. ASSUME NEW j \in 1..i PROVE KPage(k, s[j]) = 0
  <2>1. CASE j = i
    BY <2>1
  <2>2. CASE j # i
    <3>1. j \in 1..(i - 1) /\ j \in 1..Len(s)
      BY <2>2
    <3> QED BY <1>1, <1>4, <3>1 DEF Unmapped
  <2> QED BY <2>1, <2>2
<1> QED BY <1>2, <1>3, <1>5, <1>6 DEF Unmapped

LEMMA UnmappedFirst ==
  ASSUME NEW m, NEW D, Sound(m, D), NEW S, NEW s
  PROVE  Unmapped(m, D, S, s, 0, m)
  BY DEF Unmapped, Within, Shrinks

\* Unmapping the pages of s, all of them outside the direct map.
LEMMA UnmapLoop ==
  ASSUME NEW m, NEW D, Sound(m, D), NEW S \in SUBSET Loose, NEW s \in Seq(S)
  PROVE  Unmapped(m, D, S, s, Len(s), UnmapAll(m, s)) /\ Unmapped(m, D, S, s, Len(s), SkipAll(m, s))
<1>0. Len(s) \in Nat /\ \A i \in 1..Len(s) : s[i] \in Loose
  OBVIOUS
<1>1. Unmapped(m, D, S, s, Len(s), UnmapAll(m, s))
  <2>1. PICK h : /\ h[0] = m
                 /\ \A i \in 1..Len(s) : h[i] = unmap_page(h[i - 1], s[i])
                 /\ UnmapAll(m, s) = h[Len(s)]
    BY UnmapSteps
  <2> DEFINE G == {i \in 0..Len(s) : Unmapped(m, D, S, s, i, h[i])}
  <2>2. 0 \in G
    BY <1>0, <2>1, UnmappedFirst
  <2>3. ASSUME NEW i \in 0..(Len(s) - 1), i \in G PROVE i + 1 \in G
    <3>1. i + 1 \in 1..Len(s) /\ (i + 1) - 1 = i /\ i + 1 \in 0..Len(s)
      BY <1>0
    <3>2. h[i + 1] = unmap_page(h[i], s[i + 1]) /\ s[i + 1] \in Loose /\ Sound(h[i], D)
      BY <1>0, <2>1, <2>3, <3>1 DEF Unmapped
    <3>3. Unmapped(m, D, S, s, i + 1, h[i + 1])
      <4>1. Unmapped(m, D, S, s, (i + 1) - 1, h[i])
        BY <2>3, <3>1
      <4> DEFINE k == h[i + 1]
                 a == s[i + 1]
      <4>2. Sound(k, D) /\ Within(h[i], k, {a}) /\ Shrinks(h[i], k) /\ KPage(k, a) = 0
        BY <3>2, UnmapStep
      <4> QED BY <3>1, <4>1, <4>2, UnmappedNext
    <3> QED BY <3>1, <3>3
  <2> HIDE DEF G
  <2>4. PICK n \in Nat : n = Len(s)
    BY <1>0
  <2>5. \A i \in 0..n : i \in G
    <3>1. \A i \in 0..(n - 1) : i \in G => i + 1 \in G
      BY <2>3, <2>4
    <3> QED BY <2>2, <3>1, UpTo
  <2>6. n \in G
    BY <2>5
  <2> QED BY <2>1, <2>4, <2>6 DEF G
<1>2. Unmapped(m, D, S, s, Len(s), SkipAll(m, s))
  <2>1. PICK h : /\ h[0] = m
                 /\ \A i \in 1..Len(s) : h[i] = skip_page(h[i - 1], s[i])
                 /\ SkipAll(m, s) = h[Len(s)]
    BY SkipSteps
  <2> DEFINE G == {i \in 0..Len(s) : Unmapped(m, D, S, s, i, h[i])}
  <2>2. 0 \in G
    BY <1>0, <2>1, UnmappedFirst
  <2>3. ASSUME NEW i \in 0..(Len(s) - 1), i \in G PROVE i + 1 \in G
    <3>1. i + 1 \in 1..Len(s) /\ (i + 1) - 1 = i /\ i + 1 \in 0..Len(s)
      BY <1>0
    <3>2. h[i + 1] = skip_page(h[i], s[i + 1]) /\ s[i + 1] \in Loose /\ Sound(h[i], D)
      BY <1>0, <2>1, <2>3, <3>1 DEF Unmapped
    <3>3. Unmapped(m, D, S, s, i + 1, h[i + 1])
      <4>1. Unmapped(m, D, S, s, (i + 1) - 1, h[i])
        BY <2>3, <3>1
      <4> DEFINE k == h[i + 1]
                 a == s[i + 1]
      <4>2. Sound(k, D) /\ Within(h[i], k, {a}) /\ Shrinks(h[i], k) /\ KPage(k, a) = 0
        BY <3>2, SkipStep
      <4> QED BY <3>1, <4>1, <4>2, UnmappedNext
    <3> QED BY <3>1, <3>3
  <2> HIDE DEF G
  <2>4. PICK n \in Nat : n = Len(s)
    BY <1>0
  <2>5. \A i \in 0..n : i \in G
    <3>1. \A i \in 0..(n - 1) : i \in G => i + 1 \in G
      BY <2>3, <2>4
    <3> QED BY <2>2, <3>1, UpTo
  <2>6. n \in G
    BY <2>5
  <2> QED BY <2>1, <2>4, <2>6 DEF G
<1> QED BY <1>1, <1>2

----------------------------------------------------------------------------
(* vmm_map_pages.                                                           *)

\* One turn of the loop.
LEMMA MapPageFacts ==
  ASSUME NEW l, l = [ok |-> l.ok, m |-> l.m, done |-> l.done], NEW w
  PROVE  LET f == pmm_alloc_page(l.m)
             n == paging_map(Taken(l.m, f), kernel_directory, w, f)
             r == vmm_map_page(l, w) IN
         /\ ~l.ok => r = l
         /\ l.ok /\ f = 0 => r = [ok |-> FALSE, m |-> l.m, done |-> l.done]
         /\ l.ok /\ f # 0 => r = [ok |-> l.ok, m |-> n, done |-> l.done + 1]
<1> DEFINE f == pmm_alloc_page(l.m)
           n == paging_map(Taken(l.m, f), kernel_directory, w, f)
           r == vmm_map_page(l, w)
<1>1. ~l.ok => r = l
  BY DEF vmm_map_page
<1>2. ASSUME l.ok, f = 0 PROVE r = [ok |-> FALSE, m |-> l.m, done |-> l.done]
  <2>1. r = [l EXCEPT !.ok = FALSE]
    BY <1>2 DEF vmm_map_page
  <2> HIDE DEF r
  <2> QED BY <2>1
<1>3. ASSUME l.ok, f # 0 PROVE r = [ok |-> l.ok, m |-> n, done |-> l.done + 1]
  <2>1. r = [l EXCEPT !.m = n, !.done = @ + 1]
    BY <1>3 DEF vmm_map_page
  <2> HIDE DEF r, n
  <2> QED BY <2>1
<1> QED BY <1>1, <1>2, <1>3

\* The state l of the loop after i pages, from memory m on.
Mapped(m, D, v, i, l) ==
  /\ l.ok \in BOOLEAN /\ l.done \in 0..i /\ l = [ok |-> l.ok, m |-> l.m, done |-> l.done]
  /\ l.ok => l.done = i
  /\ Sound(l.m, D) /\ Within(m, l.m, v..(v + l.done - 1)) /\ Keeps(m, l.m)
  /\ \A w \in v..(v + l.done - 1) : KTable(m, Table(w)) # 0 => KPage(l.m, w) # 0

LEMMA MappedFirst ==
  ASSUME NEW m, NEW D, Sound(m, D), NEW v \in Nat
  PROVE  Mapped(m, D, v, 0, [ok |-> TRUE, m |-> m, done |-> 0])
<1> DEFINE l == [ok |-> TRUE, m |-> m, done |-> 0]
<1>1. l.ok = TRUE /\ l.m = m /\ l.done = 0
  OBVIOUS
<1>2. v..(v + 0 - 1) = {}
  OBVIOUS
<1>3. Within(m, m, {}) /\ Keeps(m, m)
  BY DEF Within, Keeps
<1> QED BY <1>1, <1>2, <1>3 DEF Mapped

LEMMA MappedNext ==
  ASSUME NEW m, NEW D, Sound(m, D), NEW v \in Nat, NEW i \in Nat, NEW l, Mapped(m, D, v, i, l),
         v + i \in Loose
  PROVE  Mapped(m, D, v, i + 1, vmm_map_page(l, v + i))
<1> DEFINE k == l.m
           f == pmm_alloc_page(k)
           w == v + i
           n == paging_map(Taken(k, f), kernel_directory, w, f)
           r == vmm_map_page(l, w)
<1>1. /\ l.ok \in BOOLEAN /\ l.done \in 0..i /\ l = [ok |-> l.ok, m |-> k, done |-> l.done]
      /\ l.ok => l.done = i
      /\ Sound(k, D) /\ Within(m, k, v..(v + l.done - 1)) /\ Keeps(m, k)
      /\ \A u \in v..(v + l.done - 1) : KTable(m, Table(u)) # 0 => KPage(k, u) # 0
  BY DEF Mapped
<1>2. l.done \in Nat /\ l.done \in 0..(i + 1)
  BY <1>1
<1>3. /\ ~l.ok => r = l
      /\ l.ok /\ f = 0 => r = [ok |-> FALSE, m |-> k, done |-> l.done]
      /\ l.ok /\ f # 0 => r = [ok |-> l.ok, m |-> n, done |-> l.done + 1]
  BY <1>1, MapPageFacts
<1>4. CASE ~l.ok \/ f = 0
  <2> HIDE DEF k, f, n, r
  <2>1. r = l \/ r = [ok |-> FALSE, m |-> k, done |-> l.done]
    BY <1>3, <1>4
  <2>2. r.ok = FALSE /\ r.m = k /\ r.done = l.done /\ r = [ok |-> r.ok, m |-> r.m, done |-> r.done]
    <3>1. CASE l.ok
      <4>1. r = [ok |-> FALSE, m |-> k, done |-> l.done]
        BY <1>3, <1>4, <3>1
      <4> QED BY <4>1
    <3>2. CASE ~l.ok
      <4>1. r = l
        BY <1>3, <3>2
      <4> QED BY <1>1, <3>2, <4>1 DEF k
    <3> QED BY <3>1, <3>2
  <2>3. Mapped(m, D, v, i + 1, r)
    BY <1>1, <1>2, <2>2 DEF Mapped
  <2> QED BY <2>3 DEF r
<1>5. CASE l.ok /\ f # 0
  <2>1. k \in Memory /\ f \in Frames \ k.used
    BY <1>1, <1>5, SoundParts, AllocFacts
  <2>2. l.done = i /\ l.ok = TRUE /\ r = [ok |-> l.ok, m |-> n, done |-> l.done + 1]
    BY <1>1, <1>3, <1>5
  <2>3. /\ Sound(n, D) /\ Within(k, n, {w}) /\ Keeps(k, n)
        /\ KTable(k, Table(w)) # 0 => KPage(n, w) = f
    <3>1. w \in Loose
      OBVIOUS
    <3>2. Sound(k, D)
      BY <1>1
    <3> HIDE DEF k, f, w
    <3> QED BY <2>1, <3>1, <3>2, MapStep, Zenon
  <2> HIDE DEF k, f, n, r
  <2>4. r.ok = l.ok /\ r.m = n /\ r.done = i + 1 /\ r = [ok |-> r.ok, m |-> r.m, done |-> r.done]
    BY <2>2
  <2>5. v..(v + (i + 1) - 1) = v..(v + i - 1) \union {w} /\ w \notin v..(v + i - 1)
    OBVIOUS
  <2>6. Within(m, n, v..(v + (i + 1) - 1))
    BY <1>1, <2>2, <2>3, <2>5, WithinTrans
  <2>7. Keeps(m, n)
    BY <1>1, <2>3 DEF Keeps
  <2>8. ASSUME NEW u \in v..(v + (i + 1) - 1), KTable(m, Table(u)) # 0 PROVE KPage(n, u) # 0
    <3>1. CASE u = w
      <4>1. Table(w) \in Tables
        BY Regions
      <4>2. KTable(k, Table(w)) # 0
        BY <1>1, <2>8, <3>1, <4>1 DEF Keeps
      <4>3. f # 0
        BY <1>5
      <4> QED BY <2>3, <3>1, <4>2, <4>3
    <3>2. CASE u # w
      <4>1. u \in v..(v + i - 1) /\ KPage(k, u) # 0
        BY <1>1, <2>2, <2>5, <2>8, <3>2
      <4>2. u \in Pages
        <5>1. w \in Pages
          BY Regions
        <5> QED BY <4>1, <5>1, Layout DEF Pages
      <4> QED BY <2>3, <3>2, <4>1, <4>2 DEF Within
    <3> QED BY <3>1, <3>2
  <2>9. Mapped(m, D, v, i + 1, r)
    <3>1. i + 1 \in 0..(i + 1)
      OBVIOUS
    <3> HIDE DEF w
    <3> QED BY <1>1, <2>3, <2>4, <2>6, <2>7, <2>8, <3>1 DEF Mapped
  <2> QED BY <2>9 DEF r
<1> QED BY <1>1, <1>4, <1>5

\* The loop over the n pages from v on, none of them in the direct map.
LEMMA MapLoop ==
  ASSUME NEW m, NEW D, Sound(m, D), NEW v \in Nat, NEW n \in Nat, v..(v + n - 1) \subseteq Loose
  PROVE  Mapped(m, D, v, n, MapAll([ok |-> TRUE, m |-> m, done |-> 0], PagesFrom(v, n)))
<1> DEFINE s == PagesFrom(v, n)
           b == [ok |-> TRUE, m |-> m, done |-> 0]
<1>1. s \in Seq(v..(v + n - 1)) /\ Len(s) = n /\ \A i \in 1..n : s[i] = v + i - 1
  BY RunPages
<1> HIDE DEF s
<1>2. PICK h : /\ h[0] = b
               /\ \A i \in 1..Len(s) : h[i] = vmm_map_page(h[i - 1], s[i])
               /\ MapAll(b, s) = h[Len(s)]
  <2>1. PICK A : s \in Seq(A)
    BY <1>1
  <2> HIDE DEF b
  <2> QED BY <2>1, MapSteps
<1> DEFINE G == {i \in 0..n : Mapped(m, D, v, i, h[i])}
<1>3. 0 \in G
  BY <1>2, MappedFirst
<1>4. ASSUME NEW i \in 0..(n - 1), i \in G PROVE i + 1 \in G
  <2>1. i + 1 \in 1..n /\ (i + 1) - 1 = i /\ i + 1 \in 0..n /\ v + (i + 1) - 1 = v + i /\ v + i \in v..(v + n - 1) /\ i \in Nat
    OBVIOUS
  <2>2. h[i + 1] = vmm_map_page(h[i], v + i) /\ v + i \in Loose
    BY <1>1, <1>2, <2>1
  <2>3. Mapped(m, D, v, i, h[i])
    BY <1>4
  <2>4. Mapped(m, D, v, i + 1, h[i + 1])
    BY <2>1, <2>2, <2>3, MappedNext
  <2> QED BY <2>1, <2>4
<1> HIDE DEF G
<1>5. n \in G
  BY <1>3, <1>4, UpTo
<1> QED BY <1>1, <1>2, <1>5 DEF G, s

\* From m to n no page and no table of the kernel has changed.
SameKernel(m, n) ==
  /\ \A v \in Pages : KPage(n, v) = KPage(m, v)
  /\ \A x \in Tables : KTable(n, x) = KTable(m, x)

\* Pages from v on that are not mapped are not in the direct map.
LEMMA NotDirect ==
  ASSUME NEW m, Direct(m), NEW S \in SUBSET Pages, \A w \in S : KPage(m, w) = 0
  PROVE  S \subseteq Loose
<1> SUFFICES ASSUME NEW w \in S PROVE w \in Loose
  OBVIOUS
<1>1. w \in 1..(BootPages - 1) => KPage(m, w) = w /\ w # 0
  BY Layout DEF Direct
<1> QED BY <1>1, Regions

\* vmm_map_pages: pages and tables are as before when it fails, and the pages of
\* tables that were there are mapped when it does not.
LEMMA MapPages ==
  ASSUME NEW m, NEW D, Sound(m, D), NEW v \in Nat, NEW n \in Nat, v..(v + n - 1) \subseteq Pages
  PROVE  LET r == vmm_map_pages(m, v, n) IN
         /\ r.ok \in BOOLEAN /\ Sound(r.m, D) /\ Within(m, r.m, v..(v + n - 1))
         /\ ~r.ok => SameKernel(m, r.m)
         /\ r.ok => /\ Keeps(m, r.m) /\ v..(v + n - 1) \subseteq Loose
                    /\ \A w \in v..(v + n - 1) : KPage(m, w) = 0 /\ (KTable(m, Table(w)) # 0 => KPage(r.m, w) # 0)
<1> DEFINE S == v..(v + n - 1)
           b == [ok |-> TRUE, m |-> m, done |-> 0]
           s == PagesFrom(v, n)
           l == MapAll(b, s)
           r == vmm_map_pages(m, v, n)
           u == SkipAll(l.m, PagesFrom(v, l.done))
<1>0. m \in Memory /\ Direct(m) /\ Shaped(m)
  BY DEF Sound
<1>1. ToSet(s) = S
  BY RunPages
<1>2. r = IF \E w \in S : KPage(m, w) # 0 THEN [ok |-> FALSE, m |-> m, done |-> 0]
          ELSE IF l.ok THEN l ELSE [l EXCEPT !.m = u]
  <2> HIDE DEF S, u, l, s
  <2> QED BY <1>1, MapPagesLoop DEF u, l, s
<1>3. CASE \E w \in S : KPage(m, w) # 0
  <2>1. r = [ok |-> FALSE, m |-> m, done |-> 0]
    BY <1>2, <1>3
  <2> HIDE DEF r
  <2>2. r.ok = FALSE /\ r.m = m
    BY <2>1
  <2>3. Within(m, m, S) /\ SameKernel(m, m)
    BY DEF Within, SameKernel
  <2> QED BY <2>2, <2>3 DEF r
<1>4. CASE \A w \in S : KPage(m, w) = 0
  <2>1. S \subseteq Loose
    <3> HIDE DEF S
    <3>1. S \in SUBSET Pages
      BY DEF S
    <3> QED BY <1>0, <1>4, <3>1, NotDirect
  <2>2. Mapped(m, D, v, n, l)
    <3>1. v..(v + n - 1) \subseteq Loose
      BY <2>1
    <3> QED BY <3>1, MapLoop
  <2> HIDE DEF l
  <2>3. /\ l.ok \in BOOLEAN /\ l.done \in 0..n /\ l = [ok |-> l.ok, m |-> l.m, done |-> l.done]
        /\ l.ok => l.done = n
        /\ Sound(l.m, D) /\ Within(m, l.m, v..(v + l.done - 1)) /\ Keeps(m, l.m)
        /\ \A w \in v..(v + l.done - 1) : KTable(m, Table(w)) # 0 => KPage(l.m, w) # 0
    BY <2>2 DEF Mapped
  <2>4. CASE l.ok
    <3>1. r = l /\ l.done = n
      BY <1>2, <1>4, <2>3, <2>4
    <3> HIDE DEF r
    <3>2. l.ok \in BOOLEAN /\ Sound(l.m, D) /\ Within(m, l.m, v..(v + n - 1)) /\ Keeps(m, l.m)
          /\ \A w \in v..(v + n - 1) : KTable(m, Table(w)) # 0 => KPage(l.m, w) # 0
      BY <2>3, <3>1
    <3>3. v..(v + n - 1) \subseteq Loose /\ \A w \in v..(v + n - 1) : KPage(m, w) = 0
      BY <1>4, <2>1
    <3>4. r.ok /\ r.ok \in BOOLEAN /\ r.m = l.m
      BY <2>4, <3>1, <3>2
    <3> QED BY <3>2, <3>3, <3>4 DEF r
  <2>5. CASE ~l.ok
    <3> DEFINE R == v..(v + l.done - 1)
               t == PagesFrom(v, l.done)
    <3>1. l.done \in Nat /\ R \subseteq S
      BY <2>3
    <3>2. t \in Seq(R) /\ Len(t) = l.done /\ \A i \in 1..l.done : t[i] = v + i - 1
      BY <3>1, RunPages
    <3>3. r = [l EXCEPT !.m = u]
      BY <1>2, <1>4, <2>5
    <3> HIDE DEF S, R, t, u, r
    <3>4. r.ok = l.ok /\ r.m = u
      BY <2>3, <3>3
    <3>5. R \in SUBSET Loose /\ u = SkipAll(l.m, t)
      BY <2>1, <3>1 DEF u, t
    <3>6. Unmapped(l.m, D, R, t, l.done, u)
      BY <2>3, <3>2, <3>5, UnmapLoop
    <3>7. Sound(u, D) /\ Within(l.m, u, R) /\ Shrinks(l.m, u) /\ Shaped(u) /\ \A i \in 1..l.done : KPage(u, t[i]) = 0
      BY <3>6 DEF Unmapped, Sound
    <3>8. Within(m, u, R)
      <4>1. Within(m, l.m, R)
        BY <2>3 DEF R
      <4>2. R \union R = R
        OBVIOUS
      <4> QED BY <3>7, <4>1, <4>2, WithinTrans
    <3>9. ASSUME NEW w \in Pages PROVE KPage(u, w) = KPage(m, w)
      <4>1. CASE w \in R
        <5>1. w - v + 1 \in 1..l.done /\ v + (w - v + 1) - 1 = w
          BY <3>1, <4>1 DEF R
        <5>2. KPage(u, w) = 0
          BY <3>2, <3>7, <5>1
        <5> QED BY <1>4, <3>1, <4>1, <5>2
      <4>2. CASE w \notin R
        BY <3>8, <4>2 DEF Within
      <4> QED BY <4>1, <4>2
    <3>10. ASSUME NEW x \in Tables PROVE KTable(u, x) = KTable(m, x)
      <4>1. CASE KTable(m, x) # 0
        <5>1. PICK w \in Pages : Table(w) = x /\ KPage(m, w) # 0
          BY <1>0, <4>1 DEF Shaped
        <5>2. KTable(u, x) # 0
          BY <3>7, <3>9, <5>1 DEF Shaped
        <5>3. KTable(l.m, x) = KTable(m, x)
          BY <2>3, <4>1 DEF Keeps
        <5> QED BY <3>7, <5>2, <5>3 DEF Shrinks
      <4>2. CASE KTable(m, x) = 0
        <5>1. ASSUME KTable(u, x) # 0 PROVE FALSE
          <6>1. PICK w \in Pages : Table(w) = x /\ KPage(u, w) # 0
            BY <3>7, <5>1 DEF Shaped
          <6> QED BY <1>0, <3>9, <4>2, <6>1 DEF Shaped
        <5> QED BY <4>2, <5>1
      <4> QED BY <4>1, <4>2
    <3>11. Within(m, u, v..(v + n - 1))
      <4>1. R \subseteq v..(v + n - 1)
        BY <3>1 DEF S
      <4> QED BY <3>8, <4>1, WithinMore
    <3>12. r.ok \in BOOLEAN /\ ~r.ok /\ r.m = u /\ SameKernel(m, u)
      BY <2>3, <2>5, <3>4, <3>9, <3>10 DEF SameKernel
    <3> QED BY <3>7, <3>11, <3>12 DEF r
  <2> QED BY <2>3, <2>4, <2>5
<1> QED BY <1>3, <1>4

\* What MapStep says of the memory n, g being the frame for a table.
Enters(m, D, v, f, g, n) ==
  /\ Sound(n, D) /\ Within(m, n, {v}) /\ Keeps(m, n)
  /\ KTable(m, Table(v)) # 0 => KPage(n, v) = f /\ n.used = m.used \union {f}
  /\ KTable(m, Table(v)) = 0 /\ g # 0 =>
       KPage(n, v) = f /\ n.used = m.used \union {f, g} /\ KTable(n, Table(v)) # 0

LEMMA MapEnters ==
  ASSUME NEW m, NEW D, Sound(m, D), NEW v \in Loose, NEW f \in Frames \ m.used
  PROVE  Enters(m, D, v, f, pmm_alloc_page(Taken(m, f)), paging_map(Taken(m, f), kernel_directory, v, f))
  BY MapStep DEF Enters

\* There is a frame as long as not all are in use.
LEMMA AllocWhen ==
  ASSUME NEW m \in Memory, Cardinality(m.used) < NumFrames
  PROVE  pmm_alloc_page(m) \in Frames \ m.used /\ pmm_alloc_page(m) # 0
<1>1. ~(Frames \subseteq m.used)
  <2> SUFFICES ASSUME Frames \subseteq m.used PROVE FALSE
    OBVIOUS
  <2>1. m.used = Frames
    BY MemoryParts
  <2> QED BY <2>1, Regions, Layout
<1>2. Frames \ m.used \in SUBSET Nat /\ Frames \ m.used # {} /\ 0 \notin Frames
  BY <1>1, Regions
<1>3. Min(Frames \ m.used) \in Frames \ m.used
  BY <1>2, Least
<1> QED BY <1>1, <1>2, <1>3 DEF pmm_alloc_page

\* One frame more.
LEMMA UsedMore ==
  ASSUME NEW U \in SUBSET Frames, NEW f \in Frames \ U
  PROVE  Cardinality(U) \in Nat /\ Cardinality(U \union {f}) = Cardinality(U) + 1 /\ U \union {f} \in SUBSET Frames
<1>1. IsFiniteSet(U)
  BY Regions, FS_Subset
<1> QED BY <1>1, FS_AddElement, FS_CardinalityType

\* The loop after i of n pages, all in table x, when there are frames for all.
Filled(m, v, x, i, l) ==
  /\ l.ok /\ l.done = i
  /\ \A w \in v..(v + i - 1) : KPage(l.m, w) # 0
  /\ Cardinality(l.m.used) <= Cardinality(m.used) + i + 1
  /\ KTable(l.m, x) = 0 => Cardinality(l.m.used) <= Cardinality(m.used) + i

LEMMA FilledNext ==
  ASSUME NEW m, NEW D, Sound(m, D), NEW v \in Nat, NEW i \in Nat, NEW l, Mapped(m, D, v, i, l),
         NEW w \in Loose, w = v + i, NEW x, Table(w) = x, Filled(m, v, x, i, l),
         Cardinality(m.used) + i + 2 <= NumFrames
  PROVE  Filled(m, v, x, i + 1, vmm_map_page(l, w))
<1> DEFINE k == l.m
           f == pmm_alloc_page(k)
           n == paging_map(Taken(k, f), kernel_directory, w, f)
           g == pmm_alloc_page(Taken(k, f))
           c == Cardinality(m.used)
           r == vmm_map_page(l, w)
<1>1. l = [ok |-> l.ok, m |-> k, done |-> l.done] /\ l.ok \in BOOLEAN /\ l.ok = TRUE /\ l.done = i /\ Sound(k, D)
  BY DEF Mapped, Filled
<1>2. m \in Memory /\ k \in Memory /\ m.used \in SUBSET Frames /\ k.used \in SUBSET Frames
  BY <1>1, MemoryParts DEF Sound
<1>3. c \in Nat /\ Cardinality(k.used) \in Nat
  BY <1>2, Regions, FS_Subset, FS_CardinalityType
<1>4. Cardinality(k.used) <= c + i + 1 /\ (KTable(k, x) = 0 => Cardinality(k.used) <= c + i)
  BY DEF Filled
<1>5. c + i + 2 <= NumFrames /\ NumFrames \in Nat
  BY Layout
<1> HIDE DEF c
<1>6. f \in Frames \ k.used /\ f # 0
  <2>1. Cardinality(k.used) < NumFrames
    BY <1>3, <1>4, <1>5
  <2> HIDE DEF k
  <2> QED BY <1>2, <2>1, AllocWhen
<1>7. r = [ok |-> l.ok, m |-> n, done |-> l.done + 1]
  BY <1>1, <1>6, MapPageFacts
<1>8. /\ Sound(n, D) /\ Within(k, n, {w}) /\ Keeps(k, n)
      /\ KTable(k, x) # 0 => KPage(n, w) = f /\ n.used = k.used \union {f}
      /\ KTable(k, x) = 0 /\ g # 0 => KPage(n, w) = f /\ n.used = k.used \union {f, g} /\ KTable(n, x) # 0
  <2>1. Sound(k, D)
    BY <1>1
  <2> HIDE DEF k, f
  <2>2. Enters(k, D, w, f, g, n)
    BY <1>6, <2>1, MapEnters
  <2> HIDE DEF n, g
  <2> QED BY <2>2 DEF Enters
<1>9. Taken(k, f) \in Memory /\ Taken(k, f).used = k.used \union {f}
  <2> HIDE DEF k, f
  <2> QED BY <1>2, <1>6, TakenFacts
<1>10. Cardinality(k.used \union {f}) = Cardinality(k.used) + 1 /\ k.used \union {f} \in SUBSET Frames
  <2> HIDE DEF k, f
  <2> QED BY <1>2, <1>6, UsedMore
<1>11. KTable(k, x) = 0 => g \in Frames \ (k.used \union {f}) /\ g # 0
  <2> SUFFICES ASSUME KTable(k, x) = 0 PROVE g \in Frames \ (k.used \union {f}) /\ g # 0
    OBVIOUS
  <2>1. Cardinality(k.used \union {f}) < NumFrames
    BY <1>3, <1>4, <1>5, <1>10
  <2> HIDE DEF k, f
  <2> QED BY <1>9, <2>1, AllocWhen
<1> HIDE DEF k, f, n, g, r
<1>12. KPage(n, w) = f /\ KTable(n, x) # 0 /\ Cardinality(n.used) <= c + (i + 1) + 1
  <2>1. CASE KTable(k, x) # 0
    <3>1. KTable(n, x) # 0
      <4>1. x \in Tables
        BY Regions
      <4> QED BY <1>8, <2>1, <4>1 DEF Keeps
    <3>2. Cardinality(n.used) = Cardinality(k.used) + 1
      BY <1>8, <1>10, <2>1
    <3> QED BY <1>3, <1>4, <1>8, <2>1, <3>1, <3>2
  <2>2. CASE KTable(k, x) = 0
    <3>1. n.used = (k.used \union {f}) \union {g}
      BY <1>8, <1>11, <2>2
    <3>2. Cardinality(n.used) = Cardinality(k.used \union {f}) + 1
      BY <1>10, <1>11, <2>2, <3>1, UsedMore
    <3>3. Cardinality(n.used) <= c + (i + 1) + 1
      BY <1>3, <1>4, <1>10, <2>2, <3>2
    <3> QED BY <1>8, <1>11, <2>2, <3>3
  <2> QED BY <2>1, <2>2
<1>13. r.ok = TRUE /\ r.m = n /\ r.done = i + 1
  BY <1>1, <1>7
<1>14. ASSUME NEW u \in v..(v + (i + 1) - 1) PROVE KPage(n, u) # 0
  <2>1. CASE u = w
    BY <1>6, <1>12, <2>1
  <2>2. CASE u # w
    <3>1. u \in v..(v + i - 1)
      BY <2>2
    <3>2. w \in Pages
      BY Regions
    <3>3. u \in Pages
      BY <3>1, <3>2, Layout DEF Pages
    <3>4. KPage(k, u) # 0
      BY <3>1 DEF Filled, k
    <3> QED BY <1>8, <2>2, <3>3, <3>4 DEF Within
  <2> QED BY <2>1, <2>2
<1>15. Filled(m, v, x, i + 1, r)
  BY <1>12, <1>13, <1>14 DEF Filled, c
<1> QED BY <1>15 DEF r

\* With frames for all of them, n pages of one table are mapped.
LEMMA FilledLoop ==
  ASSUME NEW m, NEW D, Sound(m, D), NEW v \in Nat, NEW n \in Nat, v..(v + n - 1) \subseteq Loose,
         NEW x, \A w \in v..(v + n - 1) : Table(w) = x, Cardinality(m.used) + n + 1 <= NumFrames
  PROVE  LET l == MapAll([ok |-> TRUE, m |-> m, done |-> 0], PagesFrom(v, n)) IN
         Mapped(m, D, v, n, l) /\ Filled(m, v, x, n, l)
<1> DEFINE s == PagesFrom(v, n)
           b == [ok |-> TRUE, m |-> m, done |-> 0]
<1>0. m \in Memory /\ m.used \in SUBSET Frames /\ Cardinality(m.used) \in Nat
  <2>1. m \in Memory /\ m.used \in SUBSET Frames
    BY MemoryParts DEF Sound
  <2> QED BY <2>1, Regions, FS_Subset, FS_CardinalityType
<1>1. s \in Seq(v..(v + n - 1)) /\ Len(s) = n /\ \A i \in 1..n : s[i] = v + i - 1
  BY RunPages
<1> HIDE DEF s
<1>2. PICK h : /\ h[0] = b
               /\ \A i \in 1..Len(s) : h[i] = vmm_map_page(h[i - 1], s[i])
               /\ MapAll(b, s) = h[Len(s)]
  <2>1. PICK A : s \in Seq(A)
    BY <1>1
  <2> HIDE DEF b
  <2> QED BY <2>1, MapSteps
<1> DEFINE G == {i \in 0..n : Mapped(m, D, v, i, h[i]) /\ Filled(m, v, x, i, h[i])}
<1>3. 0 \in G
  <2>1. Mapped(m, D, v, 0, b)
    BY MappedFirst
  <2>2. b.ok = TRUE /\ b.m = m /\ b.done = 0
    OBVIOUS
  <2> HIDE DEF b
  <2>3. Filled(m, v, x, 0, b)
    BY <1>0, <2>2 DEF Filled
  <2> QED BY <1>2, <2>1, <2>3
<1>4. ASSUME NEW i \in 0..(n - 1), i \in G PROVE i + 1 \in G
  <2>1. i + 1 \in 1..n /\ (i + 1) - 1 = i /\ i + 1 \in 0..n /\ v + (i + 1) - 1 = v + i /\ v + i \in v..(v + n - 1) /\ i \in Nat
    OBVIOUS
  <2>2. h[i + 1] = vmm_map_page(h[i], v + i) /\ v + i \in Loose /\ Table(v + i) = x
    BY <1>1, <1>2, <2>1
  <2>3. Mapped(m, D, v, i, h[i]) /\ Filled(m, v, x, i, h[i])
    BY <1>4
  <2>4. Mapped(m, D, v, i + 1, h[i + 1])
    BY <2>1, <2>2, <2>3, MappedNext
  <2>5. Cardinality(m.used) + i + 2 <= NumFrames
    BY <1>0, Layout
  <2>6. Filled(m, v, x, i + 1, h[i + 1])
    BY <2>1, <2>2, <2>3, <2>5, FilledNext
  <2> QED BY <2>1, <2>4, <2>6
<1> HIDE DEF G
<1>5. n \in G
  BY <1>3, <1>4, UpTo
<1> QED BY <1>1, <1>2, <1>5 DEF G, s

----------------------------------------------------------------------------
(* Kernel stacks.                                                           *)

\* One turn of the loop that maps a stack.
LEMMA StackPageFacts ==
  ASSUME NEW l, l = [ok |-> l.ok, halt |-> l.halt, m |-> l.m, done |-> l.done], NEW d, NEW w
  PROVE  LET f == pmm_alloc_page(l.m)
             n == paging_map(Taken(l.m, f), kernel_directory, w, f)
             q == KPage(n, w) = 0 \/ Seen(n, d, w) = 0
             r == map_stack_page(d, l, w) IN
         /\ ~l.ok \/ l.halt => r = l
         /\ l.ok /\ ~l.halt /\ f = 0 => r = [ok |-> FALSE, halt |-> l.halt, m |-> l.m, done |-> l.done]
         /\ l.ok /\ ~l.halt /\ f # 0 => r = [ok |-> l.ok, halt |-> q, m |-> n, done |-> Append(l.done, w)]
<1> DEFINE f == pmm_alloc_page(l.m)
           n == paging_map(Taken(l.m, f), kernel_directory, w, f)
           q == KPage(n, w) = 0 \/ Seen(n, d, w) = 0
           r == map_stack_page(d, l, w)
<1>1. ~l.ok \/ l.halt => r = l
  BY DEF map_stack_page
<1>2. ASSUME l.ok, ~l.halt, f = 0 PROVE r = [ok |-> FALSE, halt |-> l.halt, m |-> l.m, done |-> l.done]
  <2>1. r = [l EXCEPT !.ok = FALSE]
    BY <1>2 DEF map_stack_page
  <2> HIDE DEF r
  <2> QED BY <2>1
<1>3. ASSUME l.ok, ~l.halt, f # 0 PROVE r = [ok |-> l.ok, halt |-> q, m |-> n, done |-> Append(l.done, w)]
  <2>1. r = [l EXCEPT !.m = n, !.done = Append(@, w), !.halt = q]
    BY <1>3 DEF map_stack_page, paging_translate, KPage
  <2> HIDE DEF r, n, q
  <2> QED BY <2>1
<1> QED BY <1>1, <1>2, <1>3

\* No table has changed.
SameTables(m, n) == \A x \in Tables : KTable(n, x) = KTable(m, x)

\* The state l of the loop after i of the pages s, which are in S.
Stacked(m, D, S, s, i, l) ==
  /\ l = [ok |-> l.ok, halt |-> l.halt, m |-> l.m, done |-> l.done]
  /\ l.ok \in BOOLEAN /\ l.halt \in BOOLEAN /\ (l.ok \/ ~l.halt) /\ l.done \in Seq(S)
  /\ Sound(l.m, D) /\ Within(m, l.m, S)
  /\ ~l.halt => SameTables(m, l.m)
  /\ l.ok /\ ~l.halt => \A j \in 1..i : KPage(l.m, s[j]) # 0

LEMMA StackedNext ==
  ASSUME NEW m, NEW D, Sound(m, D), NEW S \in SUBSET Loose, NEW s \in Seq(S), NEW i \in 0..(Len(s) - 1),
         NEW l, Stacked(m, D, S, s, i, l), NEW d \in Frames \ {kernel_directory},
         \A v \in S : m.tables[d][Table(v)] = KTable(m, Table(v))
  PROVE  Stacked(m, D, S, s, i + 1, map_stack_page(d, l, s[i + 1]))
<1> DEFINE k == l.m
           f == pmm_alloc_page(k)
           w == s[i + 1]
           n == paging_map(Taken(k, f), kernel_directory, w, f)
           q == KPage(n, w) = 0 \/ Seen(n, d, w) = 0
           r == map_stack_page(d, l, w)
<1>0. /\ i \in Nat /\ i + 1 \in 1..Len(s) /\ w \in S /\ w \in Loose
      /\ \A j \in 1..(i + 1) : s[j] \in Pages /\ (j \in 1..i \/ j = i + 1)
  <2>1. \A j \in 1..Len(s) : s[j] \in S
    OBVIOUS
  <2>2. \A v \in S : v \in Pages /\ v \in Loose
    BY Regions
  <2>3. i \in Nat /\ i + 1 \in 1..Len(s) /\ \A j \in 1..(i + 1) : j \in 1..Len(s) /\ (j \in 1..i \/ j = i + 1)
    OBVIOUS
  <2> QED BY <2>1, <2>2, <2>3
<1>1. /\ l = [ok |-> l.ok, halt |-> l.halt, m |-> k, done |-> l.done]
      /\ l.ok \in BOOLEAN /\ l.halt \in BOOLEAN /\ (l.ok \/ ~l.halt) /\ l.done \in Seq(S)
      /\ Sound(k, D) /\ Within(m, k, S)
      /\ ~l.halt => SameTables(m, k)
      /\ l.ok /\ ~l.halt => \A j \in 1..i : KPage(k, s[j]) # 0
  BY DEF Stacked
<1>2. /\ ~l.ok \/ l.halt => r = l
      /\ l.ok /\ ~l.halt /\ f = 0 => r = [ok |-> FALSE, halt |-> l.halt, m |-> k, done |-> l.done]
      /\ l.ok /\ ~l.halt /\ f # 0 => r = [ok |-> l.ok, halt |-> q, m |-> n, done |-> Append(l.done, w)]
  <2> HIDE DEF w
  <2> QED BY <1>1, StackPageFacts
<1>3. CASE ~l.ok \/ l.halt
  <2>1. r = l
    BY <1>2, <1>3
  <2>2. Stacked(m, D, S, s, i + 1, l)
    BY <1>1, <1>3 DEF Stacked
  <2> QED BY <2>1, <2>2
<1>4. CASE l.ok /\ ~l.halt /\ f = 0
  <2>1. r = [ok |-> FALSE, halt |-> l.halt, m |-> k, done |-> l.done]
    BY <1>2, <1>4
  <2> HIDE DEF k, f, n, q, r
  <2>2. /\ r.ok = FALSE /\ r.halt = l.halt /\ r.m = k /\ r.done = l.done
        /\ r = [ok |-> r.ok, halt |-> r.halt, m |-> r.m, done |-> r.done]
    BY <2>1
  <2>3. Stacked(m, D, S, s, i + 1, r)
    BY <1>1, <1>4, <2>2 DEF Stacked
  <2> QED BY <2>3 DEF r
<1>5. CASE l.ok /\ ~l.halt /\ f # 0
  <2>1. r = [ok |-> l.ok, halt |-> q, m |-> n, done |-> Append(l.done, w)]
    BY <1>2, <1>5
  <2>2. k \in Memory /\ f \in Frames \ k.used
    BY <1>1, <1>5, SoundParts, AllocFacts
  <2>3. Sound(n, D) /\ Within(k, n, {w})
    <3>1. Sound(k, D) /\ w \in Loose
      BY <1>0, <1>1
    <3> HIDE DEF k, f, w
    <3>2. Enters(k, D, w, f, pmm_alloc_page(Taken(k, f)), n)
      BY <2>2, <3>1, MapEnters
    <3> HIDE DEF n
    <3> QED BY <3>2 DEF Enters
  <2>4. q \in BOOLEAN
    OBVIOUS
  <2>5. ~q => KPage(n, w) # 0 /\ n.tables[d][Table(w)] = KTable(n, Table(w))
    BY DEF Seen, KTable
  <2> HIDE DEF k, f, n, q, r, w
  <2>6. /\ r.ok = l.ok /\ r.halt = q /\ r.m = n /\ r.done = Append(l.done, w)
        /\ r = [ok |-> r.ok, halt |-> r.halt, m |-> r.m, done |-> r.done]
    BY <2>1
  <2>7. r.done \in Seq(S)
    BY <1>0, <1>1, <2>6
  <2>8. Within(m, n, S)
    <3>1. Within(m, n, S \union {w})
      BY <1>1, <2>3, WithinTrans
    <3>2. S \union {w} = S
      BY <1>0
    <3> QED BY <3>1, <3>2
  <2>9. ASSUME ~q PROVE SameTables(m, n)
    <3>1. Table(w) \in Tables
      BY <1>0, Regions
    <3>2. n.tables[d][Table(w)] = k.tables[d][Table(w)] /\ k.tables[d][Table(w)] = m.tables[d][Table(w)]
      BY <1>1, <2>3, <3>1 DEF Within
    <3>3. KTable(n, Table(w)) = KTable(m, Table(w))
      BY <1>0, <2>5, <2>9, <3>2
    <3>4. \A x \in Tables : x # Table(w) => KTable(n, x) = KTable(k, x)
      BY <2>3 DEF Within
    <3>5. \A x \in Tables : KTable(k, x) = KTable(m, x)
      BY <1>1, <1>5 DEF SameTables
    <3> QED BY <3>3, <3>4, <3>5 DEF SameTables
  <2>10. ASSUME ~q, NEW j \in 1..(i + 1) PROVE KPage(n, s[j]) # 0
    <3>1. CASE s[j] = w
      BY <2>5, <2>10, <3>1
    <3>2. CASE s[j] # w
      <4>1. s[j] \in Pages /\ j \in 1..i
        BY <1>0, <3>2 DEF w
      <4>2. KPage(k, s[j]) # 0
        BY <1>1, <1>5, <4>1
      <4> QED BY <2>3, <3>2, <4>1, <4>2 DEF Within
    <3> QED BY <3>1, <3>2
  <2>11. Stacked(m, D, S, s, i + 1, r)
    <3>1. r.ok \in BOOLEAN /\ r.halt \in BOOLEAN /\ r.ok /\ Sound(r.m, D) /\ Within(m, r.m, S)
      BY <1>1, <1>5, <2>3, <2>4, <2>6, <2>8
    <3>2. ~r.halt => SameTables(m, r.m) /\ \A j \in 1..(i + 1) : KPage(r.m, s[j]) # 0
      BY <2>6, <2>9, <2>10
    <3> QED BY <2>6, <2>7, <3>1, <3>2 DEF Stacked
  <2> QED BY <2>11 DEF r, w
<1> QED BY <1>1, <1>3, <1>4, <1>5

\* The pages of the stacks are outside the direct map.
LEMMA StackRegion ==
  /\ StacksStart..(StacksEnd - 1) \subseteq Loose /\ StacksStart \in Pages
  /\ \A s \in Slots : /\ SlotPages(s) \in Seq(ToSet(SlotPages(s))) /\ Len(SlotPages(s)) = StackPages
                      /\ ToSet(SlotPages(s)) \subseteq StacksStart..(StacksEnd - 1)
                      /\ \A v \in ToSet(SlotPages(s)) : \E j \in 1..StackPages : SlotPages(s)[j] = v
                      /\ s # IdleSlot => StacksStart \notin ToSet(SlotPages(s))
  /\ StacksStart \in ToSet(SlotPages(IdleSlot)) /\ StacksStart <= StacksEnd - 1
<1> USE Layout
<1>1. IdleSlot \in Slots /\ StacksStart \in ToSet(SlotPages(IdleSlot)) /\ StacksStart <= StacksEnd - 1
  <2>1. /\ IdleSlot \in Slots /\ SlotStart(IdleSlot) = StacksStart
        /\ SlotStart(IdleSlot) + StackPages <= StacksEnd
        /\ ToSet(SlotPages(IdleSlot)) = SlotStart(IdleSlot)..(SlotStart(IdleSlot) + StackPages - 1)
    BY SlotLayout
  <2> QED BY <2>1
<1>2. StacksStart..(StacksEnd - 1) \subseteq Loose /\ StacksStart \in Pages
  BY <1>1 DEF Loose, Pages
<1>3. ASSUME NEW s \in Slots
      PROVE  /\ SlotPages(s) \in Seq(ToSet(SlotPages(s))) /\ Len(SlotPages(s)) = StackPages
             /\ ToSet(SlotPages(s)) \subseteq StacksStart..(StacksEnd - 1)
             /\ \A v \in ToSet(SlotPages(s)) : \E j \in 1..StackPages : SlotPages(s)[j] = v
             /\ s # IdleSlot => StacksStart \notin ToSet(SlotPages(s))
  <2>1. /\ SlotStart(s) \in Nat /\ StacksStart <= SlotStart(s) /\ SlotStart(s) + StackPages <= StacksEnd
        /\ ToSet(SlotPages(s)) = SlotStart(s)..(SlotStart(s) + StackPages - 1)
    BY SlotLayout
  <2>2. /\ PagesFrom(SlotStart(s), StackPages) \in Seq(SlotStart(s)..(SlotStart(s) + StackPages - 1))
        /\ Len(PagesFrom(SlotStart(s), StackPages)) = StackPages
    BY <2>1, RunPages
  <2>3. SlotPages(s) = PagesFrom(SlotStart(s), StackPages)
    BY DEF SlotPages, SlotStart
  <2>4. SlotPages(s) \in Seq(ToSet(SlotPages(s))) /\ Len(SlotPages(s)) = StackPages
    BY <2>1, <2>2, <2>3
  <2>5. \A v \in ToSet(SlotPages(s)) : \E j \in 1..StackPages : SlotPages(s)[j] = v
    BY <2>4 DEF ToSet
  <2>6. ToSet(SlotPages(s)) \subseteq StacksStart..(StacksEnd - 1)
    BY <2>1
  <2>7. s # IdleSlot => StacksStart \notin ToSet(SlotPages(s))
    <3>1. s # IdleSlot => ToSet(SlotPages(s)) \intersect ToSet(SlotPages(IdleSlot)) = {}
      BY <1>1, SlotLayout
    <3> QED BY <1>1, <3>1
  <2> QED BY <2>4, <2>5, <2>6, <2>7
<1> QED BY <1>1, <1>2, <1>3

\* Unmapping pages of stacks other than idle's takes no table away.
LEMMA StackTables ==
  ASSUME NEW m, NEW n, NEW D, Sound(n, D), NEW S \in SUBSET (StacksStart..(StacksEnd - 1)), StacksStart \notin S,
         Within(m, n, S), Shrinks(m, n), OneTable(m), KPage(m, StacksStart) # 0
  PROVE  SameTables(m, n)
<1> SUFFICES ASSUME NEW x \in Tables, KTable(n, x) # KTable(m, x) PROVE FALSE
  BY DEF SameTables
<1>1. KTable(n, x) = 0 /\ KTable(m, x) # 0
  BY DEF Shrinks
<1>2. PICK v \in S : Table(v) = x
  BY DEF Within
<1>3. x = Table(StacksStart)
  BY <1>1, <1>2 DEF OneTable
<1>4. StacksStart \in Pages
  BY StackRegion
<1>5. KPage(n, StacksStart) # 0
  BY <1>4 DEF Within
<1>6. KTable(n, Table(StacksStart)) # 0
  BY <1>4, <1>5 DEF Sound, Shaped
<1> QED BY <1>1, <1>3, <1>6

\* The stack of a new thread, in a slot that is not idle's, for a process whose
\* directory d has the kernel's tables: no table is made unless the kernel halts,
\* and without frames everything is undone.
LEMMA MapStack ==
  ASSUME NEW m, NEW D, Sound(m, D), NEW s \in Slots, s # IdleSlot, NEW d \in D,
         Agree(m, d, StacksEnd), OneTable(m), KPage(m, StacksStart) # 0
  PROVE  LET r == map_stack(m, s, d) IN
         /\ r.ok \in BOOLEAN /\ r.halt \in BOOLEAN
         /\ Sound(r.m, D) /\ Within(m, r.m, ToSet(SlotPages(s)))
         /\ ~r.halt => SameTables(m, r.m)
         /\ r.ok /\ ~r.halt => \A v \in ToSet(SlotPages(s)) : KPage(r.m, v) # 0
<1> DEFINE S == ToSet(SlotPages(s))
           p == SlotPages(s)
           b == [ok |-> TRUE, halt |-> FALSE, m |-> m, done |-> << >>]
           l == StackAll(d, b, p)
           u == UnmapAll(l.m, Reverse(l.done))
           r == map_stack(m, s, d)
<1>1. /\ p \in Seq(S) /\ Len(p) = StackPages /\ S \in SUBSET Loose /\ S \in SUBSET (StacksStart..(StacksEnd - 1))
      /\ StacksStart \notin S /\ \A v \in S : \E j \in 1..StackPages : p[j] = v
  BY StackRegion
<1>2. d \in Frames \ {kernel_directory} /\ \A v \in S : m.tables[d][Table(v)] = KTable(m, Table(v))
  <2>1. d \in Frames \ {kernel_directory}
    BY SoundParts
  <2>2. \A v \in S : v \in 0..(StacksEnd - 1)
    BY <1>1, Layout
  <2> QED BY <2>1, <2>2 DEF Agree
<1>3. r = IF l.ok THEN l ELSE [l EXCEPT !.m = u]
  <2> HIDE DEF l, u, p
  <2> QED BY StackLoop DEF l, u, p
<1>4. StackPages \in Nat
  BY Layout
<1>5. Stacked(m, D, S, p, StackPages, l)
  <2> HIDE DEF S, p, l
  <2>1. PICK h : /\ h[0] = b
                 /\ \A i \in 1..Len(p) : h[i] = map_stack_page(d, h[i - 1], p[i])
                 /\ StackAll(d, b, p) = h[Len(p)]
    <3> HIDE DEF b
    <3> QED BY <1>1, StackSteps
  <2> DEFINE G == {i \in 0..StackPages : Stacked(m, D, S, p, i, h[i])}
  <2>2. 0 \in G
    <3>1. /\ b.ok = TRUE /\ b.halt = FALSE /\ b.m = m /\ b.done = << >>
          /\ b = [ok |-> b.ok, halt |-> b.halt, m |-> b.m, done |-> b.done]
      OBVIOUS
    <3> HIDE DEF b
    <3>2. Within(m, m, S) /\ SameTables(m, m) /\ << >> \in Seq(S)
      BY DEF Within, SameTables
    <3>3. Stacked(m, D, S, p, 0, b)
      <4>1. b.ok \in BOOLEAN /\ b.halt \in BOOLEAN /\ (b.ok \/ ~b.halt)
        BY <3>1
      <4>2. b.done \in Seq(S) /\ Sound(b.m, D) /\ Within(m, b.m, S) /\ SameTables(m, b.m)
        BY <3>1, <3>2
      <4>3. \A j \in 1..0 : KPage(b.m, p[j]) # 0
        OBVIOUS
      <4> QED BY <3>1, <4>1, <4>2, <4>3 DEF Stacked
    <3> QED BY <1>4, <2>1, <3>3
  <2>3. ASSUME NEW i \in 0..(StackPages - 1), i \in G PROVE i + 1 \in G
    <3>1. i + 1 \in 1..StackPages /\ (i + 1) - 1 = i /\ i + 1 \in 0..StackPages /\ i \in 0..(Len(p) - 1)
      BY <1>1, <1>4
    <3>2. h[i + 1] = map_stack_page(d, h[i], p[i + 1])
      BY <1>1, <2>1, <3>1
    <3>3. Stacked(m, D, S, p, i, h[i])
      BY <2>3
    <3>4. Stacked(m, D, S, p, i + 1, h[i + 1])
      BY <1>1, <1>2, <3>1, <3>2, <3>3, StackedNext
    <3> QED BY <3>1, <3>4
  <2> HIDE DEF G
  <2>4. StackPages \in G
    BY <1>4, <2>2, <2>3, UpTo
  <2> QED BY <1>1, <2>1, <2>4 DEF G, l
<1> HIDE DEF l, S, p
<1>6. /\ l = [ok |-> l.ok, halt |-> l.halt, m |-> l.m, done |-> l.done]
      /\ l.ok \in BOOLEAN /\ l.halt \in BOOLEAN /\ (l.ok \/ ~l.halt) /\ l.done \in Seq(S)
      /\ Sound(l.m, D) /\ Within(m, l.m, S)
      /\ ~l.halt => SameTables(m, l.m)
      /\ l.ok /\ ~l.halt => \A j \in 1..StackPages : KPage(l.m, p[j]) # 0
  BY <1>5 DEF Stacked
<1>7. CASE l.ok
  <2>1. r = l
    BY <1>3, <1>7
  <2> HIDE DEF r
  <2>2. r.ok \in BOOLEAN /\ r.halt \in BOOLEAN /\ Sound(r.m, D) /\ Within(m, r.m, S) /\ (~r.halt => SameTables(m, r.m))
    BY <1>6, <2>1
  <2>3. r.ok /\ ~r.halt => \A v \in S : KPage(r.m, v) # 0
    BY <1>1, <1>6, <2>1
  <2> QED BY <2>2, <2>3 DEF r, S
<1>8. CASE ~l.ok
  <2>1. r = [l EXCEPT !.m = u]
    BY <1>3, <1>8
  <2>2. Reverse(l.done) \in Seq(S)
    BY <1>6 DEF Reverse
  <2>3. Unmapped(l.m, D, S, Reverse(l.done), Len(Reverse(l.done)), u)
    BY <1>1, <1>6, <2>2, UnmapLoop
  <2> HIDE DEF r, u
  <2>4. r.ok = l.ok /\ r.halt = l.halt /\ r.m = u
    BY <1>6, <2>1
  <2>5. Sound(u, D) /\ Within(l.m, u, S) /\ Shrinks(l.m, u)
    BY <2>3 DEF Unmapped
  <2>6. Within(m, u, S)
    <3>1. Within(m, u, S \union S)
      BY <1>6, <2>5, WithinTrans
    <3>2. S \union S = S
      OBVIOUS
    <3> QED BY <3>1, <3>2
  <2>7. SameTables(m, l.m) /\ ~l.halt
    BY <1>6, <1>8
  <2>8. SameTables(l.m, u)
    <3>1. KPage(l.m, StacksStart) # 0
      <4>1. StacksStart \in Pages
        BY StackRegion
      <4> QED BY <1>1, <1>6, <4>1 DEF Within
    <3>2. OneTable(l.m)
      <4>1. \A v \in StacksStart..(StacksEnd - 1) : Table(v) \in Tables
        BY StackRegion, Regions
      <4> QED BY <2>7, <4>1 DEF OneTable, SameTables
    <3> QED BY <1>1, <2>5, <3>1, <3>2, StackTables
  <2>9. SameTables(m, u)
    BY <2>7, <2>8 DEF SameTables
  <2>10. r.ok \in BOOLEAN /\ r.halt \in BOOLEAN /\ ~r.ok /\ Sound(r.m, D) /\ Within(m, r.m, S) /\ SameTables(m, r.m)
    BY <1>6, <1>8, <2>4, <2>5, <2>6, <2>9
  <2> QED BY <2>10 DEF r, S
<1> QED BY <1>6, <1>7, <1>8

\* The stack of a thread that goes.
LEMMA UnmapStack ==
  ASSUME NEW m, NEW D, Sound(m, D), NEW s \in Slots, s # IdleSlot, OneTable(m), KPage(m, StacksStart) # 0
  PROVE  LET n == unmap_stack(m, s) IN
         Sound(n, D) /\ Within(m, n, ToSet(SlotPages(s))) /\ SameTables(m, n)
<1> DEFINE S == ToSet(SlotPages(s))
           p == SlotPages(s)
           n == unmap_stack(m, s)
<1>1. p \in Seq(S) /\ S \in SUBSET Loose /\ S \in SUBSET (StacksStart..(StacksEnd - 1)) /\ StacksStart \notin S
  BY StackRegion
<1>2. n = UnmapAll(m, p)
  BY Loops
<1> HIDE DEF S, p, n
<1>3. Unmapped(m, D, S, p, Len(p), n)
  BY <1>1, <1>2, UnmapLoop
<1>4. Sound(n, D) /\ Within(m, n, S) /\ Shrinks(m, n)
  BY <1>3 DEF Unmapped
<1>5. SameTables(m, n)
  BY <1>1, <1>4, StackTables
<1> QED BY <1>4, <1>5 DEF S, n

----------------------------------------------------------------------------
(* Directories.                                                             *)

\* From m to n only the kernel half of the directory in frame d has changed.
SameHalf(m, n, d) ==
  /\ SameKernel(m, n)
  /\ \A e \in Frames \ {d}, x \in Tables : n.tables[e][x] = m.tables[e][x]

\* Soundness of the kernel's entries does not depend on the other directories.
LEMMA HalfSound ==
  ASSUME NEW m, NEW D, Sound(m, D), NEW n \in Memory, NEW E, E \subseteq Frames \ BootFrames, SameKernel(m, n),
         BootFrames \union E \subseteq n.used, m.used \ D \subseteq n.used \ E
  PROVE  Sound(n, E)
<1>1. Owned(m, D) /\ Direct(m) /\ Shaped(m) /\ D \intersect BootFrames = {}
  BY DEF Sound
<1>2. Loose \in SUBSET Pages /\ BootTables \in SUBSET Tables /\ 1..(BootPages - 1) \in SUBSET Pages
      /\ \A v \in Pages : Table(v) \in Tables
  BY Regions
<1>3. /\ \A v \in Loose : KPage(n, v) = KPage(m, v)
      /\ \A x \in Tables : KTable(n, x) = KTable(m, x)
  BY <1>2 DEF SameKernel
<1>4. Owned(n, E)
  BY <1>1, <1>3 DEF Owned
<1>5. Direct(n)
  BY <1>1, <1>2 DEF Direct, SameKernel
<1>6. Shaped(n)
  BY <1>1, <1>2 DEF Shaped, SameKernel
<1> QED BY <1>4, <1>5, <1>6 DEF Sound

\* A directory is made in a free frame.
LEMMA DirectoryMade ==
  ASSUME NEW m, NEW D, Sound(m, D), NEW d \in Frames \ m.used
  PROVE  LET n == paging_create_directory(m, d) IN
         /\ Sound(n, D \union {d}) /\ SameHalf(m, n, d) /\ d \notin D /\ d # kernel_directory
         /\ \A x \in Tables : n.tables[d][x] = KTable(m, x)
<1> DEFINE n == paging_create_directory(m, d)
           K == kernel_directory
           T == [m.tables EXCEPT ![d] = m.tables[K]]
<1>1. /\ m \in Memory /\ D \subseteq Frames \ BootFrames /\ K \in Frames /\ K \in BootFrames
      /\ BootFrames \union D \subseteq m.used
  BY SoundParts DEF Owned
<1>2. d # K /\ d \notin D /\ d \notin BootFrames
  BY <1>1
<1>3. /\ m.used \in SUBSET Frames /\ m.tables \in [Frames -> [Tables -> Frames \union {0}]]
      /\ m.pages \in [Frames -> [Pages -> Frames \union {0}]]
      /\ m = [used |-> m.used, tables |-> m.tables, pages |-> m.pages]
  BY <1>1, MemoryParts
<1>4. /\ T \in [Frames -> [Tables -> Frames \union {0}]] /\ T[d] = m.tables[K]
      /\ \A e \in Frames \ {d} : T[e] = m.tables[e]
  BY <1>1, <1>3
<1>5. n = [used |-> m.used \union {d}, tables |-> T, pages |-> m.pages]
  <2>1. Taken(m, d) = [used |-> m.used \union {d}, tables |-> m.tables, pages |-> m.pages]
    <3>1. /\ Taken(m, d) \in Memory /\ Taken(m, d).used = m.used \union {d}
          /\ Taken(m, d).tables = m.tables /\ Taken(m, d).pages = m.pages
      BY <1>1, TakenFacts
    <3> QED BY <3>1, MemoryParts
  <2>2. n = [Taken(m, d) EXCEPT !.tables[d] = m.tables[K]]
    BY DEF paging_create_directory
  <2> QED BY <2>1, <2>2
<1> HIDE DEF n, T
<1>6. n \in Memory /\ n.used = m.used \union {d} /\ n.tables = T /\ n.pages = m.pages
  BY <1>3, <1>4, <1>5 DEF Memory
<1>7. SameHalf(m, n, d) /\ \A x \in Tables : n.tables[d][x] = KTable(m, x)
  BY <1>1, <1>2, <1>4, <1>6 DEF SameHalf, SameKernel, KPage, KTable
<1>8. Sound(n, D \union {d})
  <2>1. D \union {d} \subseteq Frames \ BootFrames /\ BootFrames \union (D \union {d}) \subseteq n.used
        /\ m.used \ D \subseteq n.used \ (D \union {d}) /\ SameKernel(m, n)
    BY <1>1, <1>2, <1>6, <1>7 DEF SameHalf
  <2> QED BY <1>6, <2>1, HalfSound
<1> QED BY <1>2, <1>7, <1>8 DEF n

\* A directory is given back.
LEMMA DirectoryGone ==
  ASSUME NEW m, NEW D, Sound(m, D), NEW d \in D
  PROVE  LET n == paging_destroy_directory_kernel(m, d) IN
         Sound(n, D \ {d}) /\ SameHalf(m, n, d) /\ d # kernel_directory
<1> DEFINE n == paging_destroy_directory_kernel(m, d)
           K == kernel_directory
           Z == [x \in Tables |-> 0]
           T == [m.tables EXCEPT ![d] = Z]
<1>1. /\ m \in Memory /\ D \subseteq Frames \ BootFrames /\ K \in Frames /\ K \in BootFrames
      /\ BootFrames \union D \subseteq m.used
  BY SoundParts DEF Owned
<1>2. d # K /\ d \in Frames /\ d \notin BootFrames
  BY <1>1
<1>3. /\ m.used \in SUBSET Frames /\ m.tables \in [Frames -> [Tables -> Frames \union {0}]]
      /\ m.pages \in [Frames -> [Pages -> Frames \union {0}]]
      /\ m = [used |-> m.used, tables |-> m.tables, pages |-> m.pages]
  BY <1>1, MemoryParts
<1>4. /\ T \in [Frames -> [Tables -> Frames \union {0}]]
      /\ \A e \in Frames \ {d} : T[e] = m.tables[e]
  BY <1>2, <1>3
<1>5. n = [used |-> m.used \ {d}, tables |-> T, pages |-> m.pages]
  <2>1. pmm_free_page(m, d) = [used |-> m.used \ {d}, tables |-> m.tables, pages |-> m.pages]
    <3>1. /\ pmm_free_page(m, d) \in Memory /\ pmm_free_page(m, d).used = m.used \ {d}
          /\ pmm_free_page(m, d).tables = m.tables /\ pmm_free_page(m, d).pages = m.pages
      BY <1>1, FreeFacts
    <3> QED BY <3>1, MemoryParts
  <2>2. n = [pmm_free_page(m, d) EXCEPT !.tables[d] = Z]
    BY DEF paging_destroy_directory_kernel
  <2> HIDE DEF Z, n
  <2> QED BY <2>1, <2>2
<1> HIDE DEF n, T
<1>6. n \in Memory /\ n.used = m.used \ {d} /\ n.tables = T /\ n.pages = m.pages
  BY <1>3, <1>4, <1>5 DEF Memory
<1>7. SameHalf(m, n, d)
  BY <1>1, <1>2, <1>4, <1>6 DEF SameHalf, SameKernel, KPage, KTable
<1>8. Sound(n, D \ {d})
  <2>1. D \ {d} \subseteq Frames \ BootFrames /\ BootFrames \union (D \ {d}) \subseteq n.used
        /\ m.used \ D \subseteq n.used \ (D \ {d}) /\ SameKernel(m, n)
    BY <1>1, <1>2, <1>6, <1>7 DEF SameHalf
  <2> QED BY <1>6, <2>1, HalfSound
<1> QED BY <1>2, <1>7, <1>8 DEF n

----------------------------------------------------------------------------
(* What the directories show after a change.                                 *)

\* Pages below the end of the stacks, and their tables.
LEMMA LowPages ==
  /\ \A v \in 0..(StacksEnd - 1) : v \in Pages /\ Table(v) \in Tables
  /\ \A v \in 0..(BootPages - 1) : v \in 0..(StacksEnd - 1) /\ Table(v) \in BootTables /\ Table(v) \in Tables
<1>1. \A v \in 0..(StacksEnd - 1) : v \in Pages
  BY Layout DEF Pages
<1>2. \A v \in 0..(BootPages - 1) : v \in 0..(StacksEnd - 1)
  BY Layout
<1> QED BY <1>1, <1>2, Regions

\* The tables of the pages below the end of the stacks have not changed.
LowTables(m, n) == \A v \in 0..(StacksEnd - 1) : KTable(n, Table(v)) = KTable(m, Table(v))

LEMMA SameLow == \A m, n : SameTables(m, n) => LowTables(m, n)
  BY LowPages DEF SameTables, LowTables

\* Every directory still shows the direct map.
LEMMA BootAgree ==
  ASSUME NEW m, NEW D, Sound(m, D), NEW n, NEW E, Sound(n, E),
         NEW d \in Frames, Agree(m, d, BootPages), \A x \in Tables : n.tables[d][x] = m.tables[d][x]
  PROVE  Agree(n, d, BootPages)
<1> SUFFICES ASSUME NEW v \in 0..(BootPages - 1) PROVE n.tables[d][Table(v)] = KTable(n, Table(v))
  BY DEF Agree
<1>1. Table(v) \in BootTables /\ Table(v) \in Tables
  BY LowPages
<1>2. KTable(m, Table(v)) = KTable(n, Table(v))
  BY <1>1 DEF Sound, Direct
<1> QED BY <1>1, <1>2 DEF Agree

\* What was shared still is, and what is mapped now is too.
LEMMA SharesKept ==
  ASSUME NEW m, NEW n, NEW C, NEW P, Shares(m, C, P), LowTables(m, n),
         \A d \in C \ {kernel_directory}, x \in Tables : n.tables[d][x] = m.tables[d][x],
         NEW Q, \A v \in Q : KPage(n, v) # 0
  PROVE  Shares(n, C, Q)
<1>1. ASSUME NEW d \in C, NEW v \in 0..(StacksEnd - 1) PROVE n.tables[d][Table(v)] = KTable(n, Table(v))
  <2>1. Table(v) \in Tables
    BY LowPages
  <2>2. CASE d = kernel_directory
    BY <2>2 DEF KTable
  <2>3. CASE d # kernel_directory
    BY <2>1, <2>3 DEF Shares, Agree, LowTables
  <2> QED BY <2>2, <2>3
<1>2. OneTable(n)
  <2>1. \A v \in StacksStart..(StacksEnd - 1) : v \in 0..(StacksEnd - 1)
    BY Layout
  <2> QED BY <2>1 DEF Shares, OneTable, LowTables
<1> QED BY <1>1, <1>2 DEF Shares, Agree

----------------------------------------------------------------------------
(* The steps.                                                               *)

\* The pages of the stacks when threads have the slots ks.
StacksOf(ks) ==
  UNION {ToSet(SlotPages(s)) : s \in {IdleSlot} \union {ks[t] : t \in {u \in Threads : ks[u] # NoSlot}}}

\* What is needed, as heap and stacks.
LEMMA NeededParts == Needed = HeapStart..(heap_end - 1) \union StacksOf(kernel_stack)
  BY DEF Needed, StacksOf, Live

\* The stacks are in their region, idle's among them.
LEMMA StacksPlace ==
  ASSUME NEW ks \in [Threads -> Slots \union {NoSlot}]
  PROVE  /\ StacksOf(ks) \subseteq StacksStart..(StacksEnd - 1)
         /\ StacksStart \in StacksOf(ks)
<1>1. \A s \in Slots : ToSet(SlotPages(s)) \subseteq StacksStart..(StacksEnd - 1)
  BY StackRegion
<1>2. IdleSlot \in Slots /\ StacksStart \in ToSet(SlotPages(IdleSlot))
  BY StackRegion, SlotLayout
<1>3. StacksOf(ks) \subseteq StacksStart..(StacksEnd - 1)
  BY <1>1, <1>2 DEF StacksOf
<1>4. StacksStart \in StacksOf(ks)
  BY <1>2 DEF StacksOf
<1> QED BY <1>3, <1>4

\* The directories of the processes.
LEMMA DirectoryFacts ==
  ASSUME KernelInv
  PROVE  /\ Directories \subseteq Frames \ BootFrames /\ kernel_directory \notin Directories
         /\ kernel_directory \in Frames /\ cr3 \in Frames
         /\ \A p \in Processes : page_directory[p] # 0 => page_directory[p] \in Directories
<1>1. Sound(mem, Directories) /\ cr3 \in Frames
  BY DEF KernelInv, KernelTypeOK
<1>2. Directories \subseteq Frames \ BootFrames /\ kernel_directory \in Frames /\ kernel_directory \in BootFrames
  BY <1>1, SoundParts
<1>3. \A p \in Processes : page_directory[p] # 0 => page_directory[p] \in Directories
  BY DEF Directories
<1> QED BY <1>1, <1>2, <1>3

\* A kmalloc that may grow the heap: unless the kernel faults, the new page is in
\* a table that was there.
LEMMA Growth ==
  ASSUME KernelInv, ~halted, NEW grow \in 0..1, CanGrow(grow)
  PROVE  LET k == kmalloc(grow) IN
         /\ k.ok \in BOOLEAN /\ k.fault \in BOOLEAN /\ k.heap_end \in HeapStart..StacksStart
         /\ Sound(k.m, Directories) /\ Within(mem, k.m, {heap_end})
         /\ ~k.fault => Shares(k.m, Directories \union {cr3}, HeapStart..(k.heap_end - 1) \union StacksOf(kernel_stack))
<1> DEFINE k == kmalloc(grow)
           e == heap_end
           C == Directories \union {cr3}
           P(a) == HeapStart..(a - 1) \union StacksOf(kernel_stack)
<1>1. /\ Sound(mem, Directories) /\ Shares(mem, C, P(e))
      /\ e \in HeapStart..StacksStart /\ kernel_stack \in [Threads -> Slots \union {NoSlot}] /\ cr3 \in Frames
      /\ cr3 \in Directories \union {kernel_directory}
  BY NeededParts DEF KernelInv, KernelTypeOK, Shared, DirectoriesSound
<1>2. HeapStart \in Nat /\ StacksStart \in Nat /\ e \in Nat /\ e \in Pages /\ HeapStart # 0
  BY <1>1, Layout, StackRegion DEF Pages
<1>3. CASE grow = 0
  <2>1. k = [ok |-> TRUE, m |-> mem, fault |-> FALSE, heap_end |-> e]
    BY <1>3 DEF kmalloc
  <2> HIDE DEF k, P
  <2>2. k.ok = TRUE /\ k.m = mem /\ k.fault = FALSE /\ k.heap_end = e
    BY <2>1
  <2>3. Within(mem, mem, {e})
    BY DEF Within
  <2> QED BY <1>1, <2>2, <2>3 DEF k, P
<1>4. CASE grow = 1
  <2> DEFINE l == vmm_map_pages(mem, e, 1)
             fault == l.ok /\ Seen(l.m, cr3, e) = 0
  <2>1. k = [ok |-> l.ok, m |-> l.m, fault |-> fault, heap_end |-> IF l.ok /\ ~fault THEN e + 1 ELSE e]
    BY <1>4 DEF kmalloc, heap_expand
  <2>2. e..(e + 1 - 1) = {e}
    BY <1>2
  <2>3. /\ l.ok \in BOOLEAN /\ Sound(l.m, Directories) /\ Within(mem, l.m, {e})
        /\ ~l.ok => SameKernel(mem, l.m)
        /\ l.ok => Keeps(mem, l.m) /\ KPage(mem, e) = 0
    <3>1. e..(e + 1 - 1) \subseteq Pages /\ 1 \in Nat
      BY <1>2, <2>2
    <3>2. /\ l.ok \in BOOLEAN /\ Sound(l.m, Directories) /\ Within(mem, l.m, e..(e + 1 - 1))
          /\ ~l.ok => SameKernel(mem, l.m)
          /\ l.ok => Keeps(mem, l.m) /\ \A w \in e..(e + 1 - 1) : KPage(mem, w) = 0
      BY <1>1, <1>2, <3>1, MapPages
    <3> HIDE DEF l
    <3> QED BY <2>2, <3>2
  <2> HIDE DEF l
  <2>4. fault \in BOOLEAN
    OBVIOUS
  <2>5. StacksStart \in P(e) /\ StacksOf(kernel_stack) \subseteq StacksStart..(StacksEnd - 1)
    BY <1>1, StacksPlace
  <2>6. KPage(mem, StacksStart) # 0
    BY <1>1, <2>5 DEF Shares
  <2>7. ~fault /\ l.ok => KPage(l.m, e) # 0 /\ l.m.tables[cr3][Table(e)] = KTable(l.m, Table(e))
    BY DEF Seen, paging_translate, KPage, KTable
  <2>8. Table(e) \in Tables
    BY <1>2, Regions
  <2>9. ASSUME ~fault PROVE SameTables(mem, l.m)
    <3>1. CASE ~l.ok
      BY <2>3, <3>1 DEF SameKernel, SameTables
    <3>2. CASE l.ok
      <4>1. e < StacksStart
        BY <1>1, <1>2, <2>3, <2>6, <3>2
      <4>2. KTable(l.m, Table(e)) # 0
        BY <1>2, <2>3, <2>7, <2>9, <3>2 DEF Sound, Shaped
      <4>3. CASE cr3 # kernel_directory
        <5>1. l.m.tables[cr3][Table(e)] = mem.tables[cr3][Table(e)]
          BY <1>1, <2>3, <2>8, <4>3 DEF Within
        <5>2. e \in 0..(StacksEnd - 1)
          BY <1>2, <4>1, Layout
        <5>3. mem.tables[cr3][Table(e)] = KTable(mem, Table(e))
          BY <1>1, <5>2 DEF Shares, Agree
        <5>4. KTable(l.m, Table(e)) = KTable(mem, Table(e))
          BY <2>7, <2>9, <3>2, <5>1, <5>3
        <5> QED BY <2>3, <5>4 DEF Within, SameTables
      <4>4. CASE cr3 = kernel_directory
        <5>1. e % TableEntries # 0 /\ HeapStart % TableEntries = 0
          BY <1>4, <4>4, KernelAssumption DEF CanGrow, HeapStart
        <5>2. e # HeapStart
          BY <5>1
        <5>3. e \in Nat \ {0} /\ e - 1 \in HeapStart..(e - 1) /\ e - 1 \in Pages
          <6>1. e \in Nat /\ HeapStart \in Nat /\ HeapStart < e /\ e - 1 \in 0..(StacksEnd - 1)
            BY <1>1, <1>2, <4>1, <5>2, Layout
          <6>2. e - 1 \in Pages
            BY <6>1, LowPages
          <6> QED BY <6>1, <6>2
        <5>4. Table(e - 1) = Table(e)
          BY <5>1, <5>3, SameTable
        <5>5. KPage(mem, e - 1) # 0
          BY <1>1, <5>3 DEF Shares
        <5>6. KTable(mem, Table(e - 1)) # 0
          BY <1>1, <5>3, <5>5 DEF Sound, Shaped
        <5>7. KTable(l.m, Table(e)) = KTable(mem, Table(e))
          BY <2>3, <2>8, <3>2, <5>4, <5>6 DEF Keeps
        <5> QED BY <2>3, <5>7 DEF Within, SameTables
      <4> QED BY <4>3, <4>4
    <3> QED BY <2>3, <3>1, <3>2
  <2>10. CASE fault
    <3> HIDE DEF fault, k
    <3>1. k.ok = l.ok /\ k.m = l.m /\ k.fault = fault /\ k.heap_end = e
      BY <2>1, <2>10
    <3> QED BY <1>1, <2>3, <2>4, <2>10, <3>1 DEF k
  <2>11. CASE ~fault
    <3>1. SameTables(mem, l.m)
      BY <2>9, <2>11
    <3>2. l.ok => KPage(l.m, e) # 0 /\ e < StacksStart
      BY <1>1, <1>2, <2>3, <2>6, <2>7, <2>11
    <3> HIDE DEF fault, k
    <3>3. /\ k.ok = l.ok /\ k.m = l.m /\ k.fault = fault
          /\ l.ok => k.heap_end = e + 1
          /\ ~l.ok => k.heap_end = e
      BY <2>1, <2>11
    <3>4. k.heap_end \in HeapStart..StacksStart
      BY <1>1, <1>2, <2>3, <3>2, <3>3
    <3>5. \A v \in P(e) : v \in Pages
      <4>1. \A v \in HeapStart..(e - 1) : v \in 0..(StacksEnd - 1)
        BY <1>1, <1>2, Layout
      <4>2. \A v \in StacksStart..(StacksEnd - 1) : v \in 0..(StacksEnd - 1)
        BY Layout
      <4> QED BY <2>5, <4>1, <4>2, LowPages
    <3>6. \A v \in P(e) : KPage(l.m, v) # 0
      <4>1. \A v \in P(e) : KPage(mem, v) # 0
        BY <1>1 DEF Shares
      <4>2. CASE l.ok
        <5>1. e \notin P(e)
          BY <2>3, <4>1, <4>2
        <5> QED BY <2>3, <3>5, <4>1, <5>1 DEF Within
      <4>3. CASE ~l.ok
        BY <2>3, <3>5, <4>1, <4>3 DEF SameKernel
      <4> QED BY <2>3, <4>2, <4>3
    <3>7. \A v \in P(k.heap_end) : KPage(l.m, v) # 0
      <4>1. CASE l.ok
        <5>1. \A v \in HeapStart..(k.heap_end - 1) : v \in HeapStart..(e - 1) \/ v = e
          BY <1>2, <3>3, <4>1
        <5> QED BY <3>2, <3>6, <4>1, <5>1
      <4>2. CASE ~l.ok
        BY <3>3, <3>6, <4>2
      <4> QED BY <2>3, <4>1, <4>2
    <3> HIDE DEF P
    <3>8. Shares(l.m, C, P(k.heap_end))
      <4>1. \A d \in C \ {kernel_directory}, x \in Tables : l.m.tables[d][x] = mem.tables[d][x]
        BY <1>1, <2>3, DirectoryFacts DEF Within
      <4>2. LowTables(mem, l.m)
        BY <3>1, SameLow
      <4> HIDE DEF C
      <4> QED BY <1>1, <3>7, <4>1, <4>2, SharesKept
    <3> QED BY <2>3, <2>4, <2>11, <3>3, <3>4, <3>8 DEF k, P
  <2> QED BY <2>4, <2>10, <2>11
<1> QED BY <1>3, <1>4

\* What the invariant says of the variables that a step leaves alone.
LEMMA Untouched ==
  /\ RunsSound /\ UNCHANGED << bitmap, runs >> => RunsSound'
  /\ SlotsSound /\ UNCHANGED << stack_bitmap, kernel_stack >> => SlotsSound'
  /\ UNCHANGED page_directory => Directories' = Directories
<1>1. RunsSound /\ UNCHANGED << bitmap, runs >> => RunsSound'
  BY DEF RunsSound
<1>2. SlotsSound /\ UNCHANGED << stack_bitmap, kernel_stack >> => SlotsSound'
  BY DEF SlotsSound, Live
<1>3. UNCHANGED page_directory => Directories' = Directories
  BY DEF Directories
<1> QED BY <1>1, <1>2, <1>3

\* The memory changes within the kernel's half and no process comes or goes.
LEMMA DirectoriesKept ==
  ASSUME KernelInv, NEW S, Sound(mem', Directories), Within(mem, mem', S), UNCHANGED << page_directory, cr3 >>,
         \A t \in Threads : kernel_stack'[t] # NoSlot => page_directory[process[t]] # 0
  PROVE  Directories' = Directories /\ Sound(mem', Directories') /\ DirectoriesSound'
<1>1. Directories' = Directories
  BY Untouched
<1>2. Sound(mem, Directories) /\ DirectoriesSound
  BY DEF KernelInv
<1>3. ASSUME NEW d \in Directories PROVE Agree(mem', d, BootPages)
  <2>1. d \in Frames /\ d # kernel_directory
    BY DirectoryFacts
  <2>2. \A x \in Tables : mem'.tables[d][x] = mem.tables[d][x]
    BY <2>1 DEF Within
  <2>3. Agree(mem, d, BootPages)
    BY <1>2 DEF DirectoriesSound
  <2> QED BY <1>2, <2>1, <2>2, <2>3, BootAgree
<1>4. DirectoriesSound'
  BY <1>1, <1>2, <1>3 DEF DirectoriesSound, Live
<1> QED BY <1>1, <1>4

\* Other kernel code grows the heap.
LEMMA StepExpand == KernelInv /\ expand => KernelInv'
<1> SUFFICES ASSUME KernelInv, expand PROVE KernelInv'
  OBVIOUS
<1> DEFINE k == kmalloc(1)
<1>1. /\ ~halted /\ CanGrow(1) /\ mem' = k.m /\ heap_end' = k.heap_end /\ halted' = k.fault
      /\ UNCHANGED << bitmap, stack_bitmap, page_directory, kernel_stack, cr3, runs >>
  BY DEF expand
<1>2. /\ k.ok \in BOOLEAN /\ k.fault \in BOOLEAN /\ k.heap_end \in HeapStart..StacksStart
      /\ Sound(k.m, Directories) /\ Within(mem, k.m, {heap_end})
      /\ ~k.fault => Shares(k.m, Directories \union {cr3}, HeapStart..(k.heap_end - 1) \union StacksOf(kernel_stack))
  <2>1. 1 \in 0..1
    OBVIOUS
  <2> QED BY <1>1, <2>1, Growth
<1> HIDE DEF k
<1>3. Directories' = Directories /\ Sound(mem', Directories') /\ DirectoriesSound'
  <2>1. \A t \in Threads : kernel_stack'[t] # NoSlot => page_directory[process[t]] # 0
    BY <1>1 DEF KernelInv, DirectoriesSound, Live
  <2>2. Sound(mem', Directories) /\ Within(mem, mem', {heap_end})
    BY <1>1, <1>2
  <2> QED BY <1>1, <2>1, <2>2, DirectoriesKept
<1>4. KernelTypeOK'
  <2>1. mem' \in Memory
    BY <1>3 DEF Sound
  <2> QED BY <1>1, <1>2, <2>1 DEF KernelInv, KernelTypeOK
<1>5. RunsSound' /\ SlotsSound'
  BY <1>1, Untouched DEF KernelInv
<1>6. ~halted' => Shared'
  <2>1. Needed' = HeapStart..(heap_end' - 1) \union StacksOf(kernel_stack')
    BY DEF Needed, StacksOf, Live
  <2> QED BY <1>1, <1>2, <1>3, <2>1 DEF Shared
<1> QED BY <1>3, <1>4, <1>5, <1>6 DEF KernelInv

\* process_create.
LEMMA StepCreateProcess ==
  ASSUME KernelInv, NEW p \in Processes, NEW grow \in 0..1, process_create(p, grow)
  PROVE  KernelInv'
<1> DEFINE k == kmalloc(grow)
           d == pmm_alloc_page(k.m)
           made == k.ok /\ ~k.fault /\ d # 0
<1>1. /\ ~halted /\ page_directory[p] = 0 /\ CanGrow(grow) /\ heap_end' = k.heap_end /\ halted' = k.fault
      /\ page_directory' = [page_directory EXCEPT ![p] = IF made THEN d ELSE 0]
      /\ mem' = IF made THEN paging_create_directory(k.m, d) ELSE k.m
      /\ UNCHANGED << bitmap, stack_bitmap, kernel_stack, cr3, runs >>
  BY DEF process_create
<1>2. /\ k.ok \in BOOLEAN /\ k.fault \in BOOLEAN /\ k.heap_end \in HeapStart..StacksStart
      /\ Sound(k.m, Directories) /\ Within(mem, k.m, {heap_end})
      /\ ~k.fault => Shares(k.m, Directories \union {cr3}, HeapStart..(k.heap_end - 1) \union StacksOf(kernel_stack))
  BY <1>1, Growth
<1> HIDE DEF k
<1>3. page_directory \in [Processes -> Frames \union {0}] /\ Sound(mem, Directories) /\ DirectoriesSound
  BY DEF KernelInv, KernelTypeOK
<1>4. RunsSound' /\ SlotsSound'
  BY <1>1, Untouched DEF KernelInv
<1>5. Needed' = HeapStart..(heap_end' - 1) \union StacksOf(kernel_stack')
  BY DEF Needed, StacksOf, Live
<1>6. \A e \in Directories : Agree(k.m, e, BootPages)
  <2> SUFFICES ASSUME NEW e \in Directories PROVE Agree(k.m, e, BootPages)
    OBVIOUS
  <2>1. e \in Frames /\ e # kernel_directory
    BY DirectoryFacts
  <2>2. \A x \in Tables : k.m.tables[e][x] = mem.tables[e][x]
    BY <1>2, <2>1 DEF Within
  <2>3. Agree(mem, e, BootPages)
    BY <1>3 DEF DirectoriesSound
  <2> QED BY <1>2, <1>3, <2>1, <2>2, <2>3, BootAgree
<1>7. CASE ~made
  <2>1. mem' = k.m /\ page_directory' = page_directory
    <3>1. page_directory' = [page_directory EXCEPT ![p] = 0]
      BY <1>1, <1>7
    <3> QED BY <1>1, <1>3, <1>7, <3>1
  <2>2. Directories' = Directories /\ Sound(mem', Directories') /\ DirectoriesSound'
    <3>1. \A t \in Threads : kernel_stack'[t] # NoSlot => page_directory[process[t]] # 0
      BY <1>1, <1>3 DEF DirectoriesSound, Live
    <3>2. Sound(mem', Directories) /\ Within(mem, mem', {heap_end})
      BY <1>2, <2>1
    <3> QED BY <1>1, <2>1, <3>1, <3>2, DirectoriesKept
  <2>3. KernelTypeOK'
    <3>1. mem' \in Memory
      BY <2>2 DEF Sound
    <3> QED BY <1>1, <1>2, <2>1, <3>1 DEF KernelInv, KernelTypeOK
  <2>4. ~halted' => Shared'
    BY <1>1, <1>2, <1>5, <2>1, <2>2 DEF Shared
  <2> QED BY <1>4, <2>2, <2>3, <2>4 DEF KernelInv
<1>8. CASE made
  <2>1. k.m \in Memory /\ d \in Frames \ k.m.used /\ d # 0 /\ ~k.fault
    <3>1. k.m \in Memory
      BY <1>2 DEF Sound
    <3> QED BY <1>8, <3>1, AllocFacts
  <2>2. mem' = paging_create_directory(k.m, d) /\ page_directory' = [page_directory EXCEPT ![p] = d]
    BY <1>1, <1>8
  <2> HIDE DEF d
  <2>3. /\ Sound(mem', Directories \union {d}) /\ SameHalf(k.m, mem', d) /\ d \notin Directories /\ d # kernel_directory
        /\ \A x \in Tables : mem'.tables[d][x] = KTable(k.m, x)
    <3> DEFINE n == paging_create_directory(k.m, d)
    <3>1. /\ Sound(n, Directories \union {d}) /\ SameHalf(k.m, n, d) /\ d \notin Directories /\ d # kernel_directory
          /\ \A x \in Tables : n.tables[d][x] = KTable(k.m, x)
      <4>1. Sound(k.m, Directories)
        BY <1>2
      <4> QED BY <2>1, <4>1, DirectoryMade
    <3>2. mem' = n
      BY <2>2
    <3> HIDE DEF n
    <3> QED BY <3>1, <3>2
  <2>4. page_directory' \in [Processes -> Frames \union {0}] /\ page_directory'[p] = d
        /\ \A q \in Processes : q # p => page_directory'[q] = page_directory[q]
    BY <1>3, <2>1, <2>2
  <2>5. Directories' = Directories \union {d}
    <3>1. Directories' = {page_directory'[q] : q \in Processes} \ {0}
      BY DEF Directories
    <3>2. ASSUME NEW e \in Directories PROVE e \in Directories'
      <4>1. PICK q \in Processes : e = page_directory[q] /\ e # 0
        BY <3>2 DEF Directories
      <4>2. q # p
        BY <1>1, <4>1
      <4> QED BY <2>4, <3>1, <4>1, <4>2
    <3>3. d \in Directories'
      BY <2>1, <2>4, <3>1
    <3>4. ASSUME NEW e \in Directories' PROVE e \in Directories \union {d}
      <4>1. PICK q \in Processes : e = page_directory'[q] /\ e # 0
        BY <3>1, <3>4
      <4> QED BY <2>4, <4>1 DEF Directories
    <3> QED BY <3>2, <3>3, <3>4
  <2>6. \A x \in Tables : KTable(mem', x) = KTable(k.m, x)
    BY <2>3 DEF SameHalf, SameKernel
  <2>7. /\ \A v \in 0..(BootPages - 1) : mem'.tables[d][Table(v)] = KTable(mem', Table(v))
        /\ \A v \in 0..(StacksEnd - 1) : mem'.tables[d][Table(v)] = KTable(mem', Table(v))
    BY <2>3, <2>6, LowPages
  <2>8. ASSUME NEW e \in Directories \union {cr3}
        PROVE  \A x \in Tables : mem'.tables[e][x] = k.m.tables[e][x]
    <3>1. e \in Frames /\ e # d
      BY <1>3, <2>3, DirectoryFacts DEF DirectoriesSound
    <3> QED BY <2>3, <3>1 DEF SameHalf
  <2>9. DirectoriesSound'
    <3>1. \A e \in Directories' : Agree(mem', e, BootPages)
      <4>1. ASSUME NEW e \in Directories PROVE Agree(mem', e, BootPages)
        <5>1. e \in Frames /\ Agree(k.m, e, BootPages) /\ \A x \in Tables : mem'.tables[e][x] = k.m.tables[e][x]
          BY <1>6, <2>8, DirectoryFacts
        <5> QED BY <1>2, <2>3, <5>1, BootAgree
      <4>2. Agree(mem', d, BootPages)
        BY <2>7 DEF Agree
      <4> QED BY <2>5, <4>1, <4>2
    <3>2. ASSUME NEW q \in Processes, NEW o \in Processes, page_directory'[q] # 0, page_directory'[q] = page_directory'[o]
          PROVE  q = o
      <4>1. \A a \in Processes : page_directory[a] # d
        BY <2>1, <2>3 DEF Directories
      <4> QED BY <1>3, <2>4, <3>2, <4>1 DEF DirectoriesSound
    <3>3. cr3' \in Directories' \union {kernel_directory}
      BY <1>1, <1>3, <2>5 DEF DirectoriesSound
    <3>4. ASSUME NEW t \in Threads, Live(t)' PROVE page_directory'[process[t]] # 0
      <4>1. process[t] \in Processes
        BY KernelAssumption
      <4>2. page_directory[process[t]] # 0
        BY <1>1, <1>3, <3>4 DEF DirectoriesSound, Live
      <4> QED BY <1>1, <2>1, <2>4, <4>1, <4>2
    <3> QED BY <3>1, <3>2, <3>3, <3>4 DEF DirectoriesSound
  <2>10. Sound(mem', Directories')
    BY <2>3, <2>5
  <2>11. KernelTypeOK'
    <3>1. mem' \in Memory
      BY <2>10 DEF Sound
    <3> QED BY <1>1, <1>2, <2>4, <3>1 DEF KernelInv, KernelTypeOK
  <2>12. Shared'
    <3> DEFINE C == Directories \union {cr3}
               P == HeapStart..(k.heap_end - 1) \union StacksOf(kernel_stack)
    <3>1. Shares(k.m, C, P)
      BY <1>2, <2>1
    <3>2. \A v \in P : v \in Pages
      <4>1. \A v \in StacksOf(kernel_stack) : v \in StacksStart..(StacksEnd - 1)
        BY StacksPlace DEF KernelInv, KernelTypeOK
      <4>2. \A v \in HeapStart..(k.heap_end - 1) : v \in 0..(StacksEnd - 1)
        BY <1>2, Layout
      <4>3. \A v \in StacksStart..(StacksEnd - 1) : v \in 0..(StacksEnd - 1)
        BY Layout
      <4> QED BY <4>1, <4>2, <4>3, LowPages
    <3>3. \A v \in P : KPage(mem', v) # 0
      <4> HIDE DEF P
      <4> QED BY <2>3, <3>1, <3>2 DEF Shares, SameHalf, SameKernel
    <3>4. LowTables(k.m, mem')
      BY <2>6, LowPages DEF LowTables
    <3>5. Shares(mem', C, P)
      <4>1. \A e \in C \ {kernel_directory}, x \in Tables : mem'.tables[e][x] = k.m.tables[e][x]
        BY <2>8
      <4> HIDE DEF C, P
      <4> QED BY <3>1, <3>3, <3>4, <4>1, SharesKept
    <3>6. Shares(mem', C \union {d}, P)
      BY <2>7, <3>5 DEF Shares, Agree
    <3>7. (Directories \union {cr3})' = C \union {d} /\ Needed' = P
      BY <1>1, <1>5, <2>5
    <3> QED BY <3>6, <3>7 DEF Shared
  <2> QED BY <1>4, <2>9, <2>10, <2>11, <2>12 DEF KernelInv
<1> QED BY <1>7, <1>8

\* Heap and stacks are pages below the end of the stacks.
LEMMA NeededLow ==
  ASSUME NEW e \in HeapStart..StacksStart, NEW ks \in [Threads -> Slots \union {NoSlot}]
  PROVE  /\ \A v \in HeapStart..(e - 1) \union StacksOf(ks) : v \in 0..(StacksEnd - 1) /\ v \in Pages
         /\ \A v \in HeapStart..(e - 1) : v \notin StacksStart..(StacksEnd - 1)
<1>1. \A v \in StacksOf(ks) : v \in StacksStart..(StacksEnd - 1)
  BY StacksPlace
<1>2. \A v \in HeapStart..(e - 1) : v \in 0..(StacksEnd - 1) /\ v \notin StacksStart..(StacksEnd - 1)
  BY Layout
<1>3. \A v \in StacksStart..(StacksEnd - 1) : v \in 0..(StacksEnd - 1)
  BY Layout
<1> QED BY <1>1, <1>2, <1>3, LowPages

\* The slot vam_alloc_stack picks.
LEMMA SlotPicked ==
  ASSUME NEW b, vam_alloc_stack(b) # NoSlot
  PROVE  vam_alloc_stack(b) \in Slots \ b
<1>1. ~(Slots \subseteq b) /\ vam_alloc_stack(b) = Min(Slots \ b)
  BY DEF vam_alloc_stack
<1>2. Slots \ b \in SUBSET Nat /\ Slots \ b # {}
  BY <1>1, Layout DEF Slots
<1> QED BY <1>1, <1>2, Least

\* No stack of a thread, nor idle's, has a page in a slot that none of them has.
LEMMA SlotAside ==
  ASSUME NEW ks \in [Threads -> Slots \union {NoSlot}], NEW s \in Slots \ {IdleSlot},
         \A t \in Threads : ks[t] # s
  PROVE  \A v \in StacksOf(ks) : v \notin ToSet(SlotPages(s))
<1> SUFFICES ASSUME NEW v \in StacksOf(ks), v \in ToSet(SlotPages(s)) PROVE FALSE
  OBVIOUS
<1>1. PICK a \in {IdleSlot} \union {ks[t] : t \in {u \in Threads : ks[u] # NoSlot}} : v \in ToSet(SlotPages(a))
  BY DEF StacksOf
<1>2. a \in Slots /\ a # s
  BY <1>1, SlotLayout
<1>3. ToSet(SlotPages(a)) \intersect ToSet(SlotPages(s)) = {}
  BY <1>2, SlotLayout
<1> QED BY <1>1, <1>3

\* thread_create.
LEMMA StepCreateThread ==
  ASSUME KernelInv, NEW t \in Threads, NEW grow \in 0..1, thread_create(t, grow)
  PROVE  KernelInv'
<1> DEFINE k == kmalloc(grow)
           s == vam_alloc_stack(stack_bitmap)
           started == k.ok /\ ~k.fault /\ s # NoSlot
           d == page_directory[process[t]]
           l == map_stack(k.m, s, d)
           made == started /\ l.ok /\ ~l.halt
           P(ks) == HeapStart..(k.heap_end - 1) \union StacksOf(ks)
           C == Directories \union {cr3}
<1>1. /\ ~halted /\ d # 0 /\ ~Live(t) /\ CanGrow(grow)
      /\ halted' = (k.fault \/ (started /\ l.halt))
      /\ heap_end' = k.heap_end
      /\ mem' = IF started THEN l.m ELSE k.m
      /\ kernel_stack' = [kernel_stack EXCEPT ![t] = IF made THEN s ELSE NoSlot]
      /\ stack_bitmap' = IF started /\ l.ok THEN stack_bitmap \union {s}
                         ELSE IF started THEN vam_free_stack(stack_bitmap, s) ELSE stack_bitmap
      /\ UNCHANGED << bitmap, page_directory, cr3, runs >>
  BY DEF thread_create
<1>2. /\ k.ok \in BOOLEAN /\ k.fault \in BOOLEAN /\ k.heap_end \in HeapStart..StacksStart
      /\ Sound(k.m, Directories) /\ Within(mem, k.m, {heap_end})
      /\ ~k.fault => Shares(k.m, C, P(kernel_stack))
  BY <1>1, Growth
<1> HIDE DEF k
<1>3. /\ kernel_stack \in [Threads -> Slots \union {NoSlot}] /\ stack_bitmap \in SUBSET Slots
      /\ DirectoriesSound /\ SlotsSound /\ RunsSound /\ Sound(mem, Directories)
  BY DEF KernelInv, KernelTypeOK
<1>4. /\ NoSlot \notin Slots /\ kernel_stack[t] = NoSlot
      /\ [kernel_stack EXCEPT ![t] = NoSlot] = kernel_stack
  <2>1. NoSlot \notin Slots
    BY Layout DEF NoSlot, Slots
  <2>2. kernel_stack[t] = NoSlot
    BY <1>1 DEF Live
  <2> QED BY <1>3, <2>1, <2>2
<1>5. d \in Directories /\ process[t] \in Processes
  <2>1. process[t] \in Processes
    BY KernelAssumption
  <2> QED BY <1>1, <2>1, DirectoryFacts
<1>6. Needed' = HeapStart..(heap_end' - 1) \union StacksOf(kernel_stack')
  BY DEF Needed, StacksOf, Live
<1>7. RunsSound'
  BY <1>1, <1>3, Untouched
<1>8. CASE ~started
  <2>1. mem' = k.m /\ kernel_stack' = kernel_stack /\ stack_bitmap' = stack_bitmap
    BY <1>1, <1>4, <1>8
  <2>2. Directories' = Directories /\ Sound(mem', Directories') /\ DirectoriesSound'
    <3>1. \A u \in Threads : kernel_stack'[u] # NoSlot => page_directory[process[u]] # 0
      BY <1>3, <2>1 DEF DirectoriesSound, Live
    <3>2. Sound(mem', Directories) /\ Within(mem, mem', {heap_end})
      BY <1>2, <2>1
    <3> QED BY <1>1, <3>1, <3>2, DirectoriesKept
  <2>3. halted' = k.fault
    BY <1>1, <1>2, <1>8
  <2>4. KernelTypeOK'
    <3>1. mem' \in Memory
      BY <2>2 DEF Sound
    <3> QED BY <1>1, <1>2, <2>1, <2>3, <3>1 DEF KernelInv, KernelTypeOK
  <2>5. SlotsSound'
    BY <1>3, <2>1, Untouched
  <2>6. ~halted' => Shared'
    BY <1>1, <1>2, <1>6, <2>1, <2>2, <2>3 DEF Shared
  <2> QED BY <1>7, <2>2, <2>4, <2>5, <2>6 DEF KernelInv
<1>9. CASE started
  <2> DEFINE S == ToSet(SlotPages(s))
  <2>1. k.ok /\ ~k.fault /\ s \in Slots \ stack_bitmap /\ s # IdleSlot
    BY <1>3, <1>9, SlotPicked DEF SlotsSound
  <2>2. mem' = l.m /\ halted' = (k.fault \/ l.halt)
    BY <1>1, <1>9
  <2>3. Shares(k.m, C, P(kernel_stack)) /\ Agree(k.m, d, StacksEnd) /\ OneTable(k.m) /\ KPage(k.m, StacksStart) # 0
    <3>1. Shares(k.m, C, P(kernel_stack))
      BY <1>2, <2>1
    <3>2. StacksStart \in StacksOf(kernel_stack)
      BY <1>3, StacksPlace
    <3> QED BY <1>5, <3>1, <3>2 DEF Shares
  <2> HIDE DEF s, d
  <2>4. /\ l.ok \in BOOLEAN /\ l.halt \in BOOLEAN
        /\ Sound(l.m, Directories) /\ Within(k.m, l.m, S)
        /\ ~l.halt => SameTables(k.m, l.m)
        /\ l.ok /\ ~l.halt => \A v \in S : KPage(l.m, v) # 0
    BY <1>2, <1>5, <2>1, <2>3, MapStack
  <2>5. /\ halted' = l.halt
        /\ kernel_stack' = [kernel_stack EXCEPT ![t] = IF l.ok /\ ~l.halt THEN s ELSE NoSlot]
        /\ stack_bitmap' = IF l.ok THEN stack_bitmap \union {s} ELSE vam_free_stack(stack_bitmap, s)
    BY <1>1, <1>9, <2>1, <2>2, <2>4
  <2> HIDE DEF l, S
  <2>6. /\ kernel_stack' \in [Threads -> Slots \union {NoSlot}]
        /\ kernel_stack'[t] = IF l.ok /\ ~l.halt THEN s ELSE NoSlot
        /\ \A u \in Threads : u # t => kernel_stack'[u] = kernel_stack[u]
    BY <1>3, <2>1, <2>5
  <2>7. stack_bitmap \subseteq stack_bitmap' /\ stack_bitmap' \in SUBSET Slots /\ (l.ok => s \in stack_bitmap')
    BY <1>3, <2>1, <2>4, <2>5 DEF vam_free_stack
  <2>8. Within(mem, mem', {heap_end} \union S)
    BY <1>2, <2>2, <2>4, WithinTrans
  <2>9. Directories' = Directories /\ Sound(mem', Directories') /\ DirectoriesSound'
    <3>1. ASSUME NEW u \in Threads, kernel_stack'[u] # NoSlot PROVE page_directory[process[u]] # 0
      <4>1. CASE u = t
        BY <1>1, <4>1 DEF d
      <4>2. CASE u # t
        BY <1>3, <2>6, <3>1, <4>2 DEF DirectoriesSound, Live
      <4> QED BY <4>1, <4>2
    <3>2. Sound(mem', Directories)
      BY <2>2, <2>4
    <3> QED BY <1>1, <2>8, <3>1, <3>2, DirectoriesKept
  <2>10. KernelTypeOK'
    <3>1. mem' \in Memory
      BY <2>9 DEF Sound
    <3>2. halted' \in BOOLEAN
      BY <2>4, <2>5
    <3> QED BY <1>1, <1>2, <2>6, <2>7, <3>1, <3>2 DEF KernelInv, KernelTypeOK
  <2>11. \A u \in Threads : kernel_stack[u] # s
    BY <1>3, <1>4, <2>1 DEF SlotsSound, Live
  <2>12. SlotsSound'
    <3>1. IdleSlot \in stack_bitmap'
      BY <1>3, <2>7 DEF SlotsSound
    <3>2. ASSUME NEW u \in Threads, Live(u)' PROVE kernel_stack'[u] \in stack_bitmap' \ {IdleSlot}
      <4>1. kernel_stack'[u] # NoSlot
        BY <3>2 DEF Live
      <4>2. CASE u = t
        BY <2>1, <2>6, <2>7, <4>1, <4>2
      <4>3. CASE u # t
        BY <1>3, <2>6, <2>7, <4>1, <4>3 DEF SlotsSound, Live
      <4> QED BY <4>2, <4>3
    <3>3. ASSUME NEW u \in Threads, NEW w \in Threads, Live(u)', kernel_stack'[u] = kernel_stack'[w] PROVE u = w
      <4>1. kernel_stack'[u] # NoSlot
        BY <3>3 DEF Live
      <4>2. CASE u = t
        BY <2>6, <2>11, <3>3, <4>1, <4>2
      <4>3. CASE w = t
        BY <2>6, <2>11, <3>3, <4>1, <4>3
      <4>4. CASE u # t /\ w # t
        BY <1>3, <2>6, <3>3, <4>1, <4>4 DEF SlotsSound, Live
      <4> QED BY <4>2, <4>3, <4>4
    <3> QED BY <3>1, <3>2, <3>3 DEF SlotsSound
  <2>13. ASSUME ~halted' PROVE Shared'
    <3>1. \A v \in P(kernel_stack) : v \notin S /\ v \in Pages /\ KPage(k.m, v) # 0
      <4>1. \A v \in StacksOf(kernel_stack) : v \notin S
        <5>1. s \in Slots \ {IdleSlot}
          BY <2>1
        <5> QED BY <1>3, <2>11, <5>1, SlotAside DEF S
      <4>2. S \subseteq StacksStart..(StacksEnd - 1)
        BY <2>1, StackRegion DEF S
      <4>3. \A v \in HeapStart..(k.heap_end - 1) : v \notin S
        BY <1>2, <1>3, <4>2, NeededLow
      <4>4. \A v \in P(kernel_stack) : v \in Pages
        BY <1>2, <1>3, NeededLow
      <4> QED BY <2>3, <4>1, <4>3, <4>4 DEF Shares
    <3>2. \A v \in P(kernel_stack) : KPage(l.m, v) # 0
      <4> HIDE DEF P
      <4> QED BY <2>4, <3>1 DEF Within
    <3>3. ASSUME NEW v \in P(kernel_stack') PROVE v \in P(kernel_stack) \/ KPage(l.m, v) # 0
      <4>1. CASE v \in StacksOf(kernel_stack')
        <5>1. PICK a \in {IdleSlot} \union {kernel_stack'[u] : u \in {w \in Threads : kernel_stack'[w] # NoSlot}} :
                v \in ToSet(SlotPages(a))
          BY <4>1 DEF StacksOf
        <5>2. CASE a = s /\ l.ok /\ ~l.halt
          BY <2>4, <5>1, <5>2 DEF S
        <5>3. CASE a = IdleSlot
          BY <5>1, <5>3 DEF StacksOf
        <5>4. CASE a # IdleSlot /\ ~(a = s /\ l.ok /\ ~l.halt)
          <6>1. PICK u \in Threads : a = kernel_stack'[u] /\ kernel_stack'[u] # NoSlot
            BY <5>1, <5>4
          <6>2. a = kernel_stack[u] /\ kernel_stack[u] # NoSlot
            BY <2>6, <5>4, <6>1
          <6> QED BY <5>1, <6>2 DEF StacksOf
        <5> QED BY <5>2, <5>3, <5>4
      <4>2. CASE v \notin StacksOf(kernel_stack')
        BY <3>3, <4>2
      <4> QED BY <4>1, <4>2
    <3>4. \A v \in P(kernel_stack') : KPage(l.m, v) # 0
      BY <3>2, <3>3
    <3>5. LowTables(k.m, l.m)
      <4>1. ~l.halt
        BY <2>5, <2>13
      <4> QED BY <2>4, <4>1, SameLow
    <3>6. \A e \in C \ {kernel_directory}, x \in Tables : l.m.tables[e][x] = k.m.tables[e][x]
      BY <2>4, DirectoryFacts DEF Within
    <3>7. (Directories \union {cr3})' = C /\ Needed' = P(kernel_stack')
      BY <1>1, <1>6, <2>9
    <3> HIDE DEF C, P
    <3>8. Shares(l.m, C, P(kernel_stack'))
      BY <2>3, <3>4, <3>5, <3>6, SharesKept
    <3> QED BY <2>2, <3>7, <3>8 DEF Shared
  <2> QED BY <1>7, <2>9, <2>10, <2>12, <2>13 DEF KernelInv
<1> QED BY <1>8, <1>9

\* The directories when a process gets another one, or none.
LEMMA DirectoriesChanged ==
  ASSUME KernelInv, NEW p \in Processes, NEW e \in Frames \union {0},
         page_directory' = [page_directory EXCEPT ![p] = e]
  PROVE  /\ page_directory' \in [Processes -> Frames \union {0}] /\ page_directory'[p] = e
         /\ \A q \in Processes : q # p => page_directory'[q] = page_directory[q]
         /\ Directories' = (Directories \ {page_directory[p]}) \union ({e} \ {0})
<1>1. page_directory \in [Processes -> Frames \union {0}] /\ DirectoriesSound
  BY DEF KernelInv, KernelTypeOK
<1>2. /\ page_directory' \in [Processes -> Frames \union {0}] /\ page_directory'[p] = e
      /\ \A q \in Processes : q # p => page_directory'[q] = page_directory[q]
  BY <1>1
<1>3. Directories' = {page_directory'[q] : q \in Processes} \ {0}
  BY DEF Directories
<1>4. ASSUME NEW f \in Directories' PROVE f \in (Directories \ {page_directory[p]}) \union ({e} \ {0})
  <2>1. PICK q \in Processes : f = page_directory'[q] /\ f # 0
    BY <1>3, <1>4
  <2>2. CASE q = p
    BY <1>2, <2>1, <2>2
  <2>3. CASE q # p
    BY <1>1, <1>2, <2>1, <2>3 DEF Directories, DirectoriesSound
  <2> QED BY <2>2, <2>3
<1>5. ASSUME NEW f \in Directories \ {page_directory[p]} PROVE f \in Directories'
  <2>1. PICK q \in Processes : f = page_directory[q] /\ f # 0
    BY <1>5 DEF Directories
  <2>2. q # p
    BY <1>5, <2>1
  <2> QED BY <1>2, <1>3, <2>1, <2>2
<1>6. e # 0 => e \in Directories'
  BY <1>2, <1>3
<1> QED BY <1>2, <1>4, <1>5, <1>6

\* thread_destroy, with which the process may go.
LEMMA StepDestroyThread ==
  ASSUME KernelInv, NEW t \in Threads, thread_destroy(t)
  PROVE  KernelInv'
<1> DEFINE p == process[t]
           s == kernel_stack[t]
           d == page_directory[p]
           m1 == unmap_stack(mem, s)
           last == LiveIn(p) = {t}
           S == ToSet(SlotPages(s))
           C == Directories \union {cr3}
           P(ks) == HeapStart..(heap_end - 1) \union StacksOf(ks)
<1>1. /\ ~halted /\ Live(t) /\ (last => cr3 # d)
      /\ stack_bitmap' = vam_free_stack(stack_bitmap, s)
      /\ kernel_stack' = [kernel_stack EXCEPT ![t] = NoSlot]
      /\ mem' = IF last THEN paging_destroy_directory_kernel(m1, d) ELSE m1
      /\ page_directory' = IF last THEN [page_directory EXCEPT ![p] = 0] ELSE page_directory
      /\ UNCHANGED << bitmap, heap_end, cr3, runs, halted >>
  BY DEF thread_destroy
<1>2. /\ kernel_stack \in [Threads -> Slots \union {NoSlot}] /\ stack_bitmap \in SUBSET Slots
      /\ DirectoriesSound /\ SlotsSound /\ RunsSound /\ Sound(mem, Directories)
      /\ heap_end \in HeapStart..StacksStart /\ Shares(mem, C, P(kernel_stack))
      /\ cr3 \in Frames
  BY <1>1, NeededParts DEF KernelInv, KernelTypeOK, Shared
<1>3. s \in Slots /\ s # IdleSlot /\ s # NoSlot /\ p \in Processes /\ d \in Directories
  <2>1. s # NoSlot /\ s \in Slots /\ s # IdleSlot /\ d # 0
    BY <1>1, <1>2 DEF Live, SlotsSound, DirectoriesSound
  <2>2. p \in Processes
    BY KernelAssumption
  <2> QED BY <2>1, <2>2, DirectoryFacts
<1>4. OneTable(mem) /\ KPage(mem, StacksStart) # 0
  <2>1. StacksStart \in StacksOf(kernel_stack)
    BY <1>2, StacksPlace
  <2> QED BY <1>2, <2>1 DEF Shares
<1>5. Sound(m1, Directories) /\ Within(mem, m1, S) /\ SameTables(mem, m1)
  <2> HIDE DEF s
  <2> QED BY <1>2, <1>3, <1>4, UnmapStack
<1> HIDE DEF s, d, m1, S
<1>6. /\ kernel_stack' \in [Threads -> Slots \union {NoSlot}] /\ kernel_stack'[t] = NoSlot
      /\ \A u \in Threads : u # t => kernel_stack'[u] = kernel_stack[u]
  BY <1>1, <1>2
<1>7. SlotsSound'
  <2>1. stack_bitmap' = stack_bitmap \ {s}
    BY <1>1 DEF vam_free_stack
  <2>2. ASSUME NEW u \in Threads, Live(u)' PROVE u # t /\ kernel_stack'[u] = kernel_stack[u] /\ Live(u)
    BY <1>6, <2>2 DEF Live
  <2>3. ASSUME NEW u \in Threads, Live(u)' PROVE kernel_stack'[u] \in stack_bitmap' \ {IdleSlot}
    <3>1. u # t /\ kernel_stack'[u] = kernel_stack[u] /\ Live(u)
      BY <2>2, <2>3
    <3>2. kernel_stack[u] # s
      BY <1>2, <3>1 DEF SlotsSound, s
    <3> QED BY <1>2, <2>1, <3>1, <3>2 DEF SlotsSound
  <2>4. ASSUME NEW u \in Threads, NEW w \in Threads, Live(u)', kernel_stack'[u] = kernel_stack'[w] PROVE u = w
    <3>1. u # t /\ kernel_stack'[u] = kernel_stack[u] /\ Live(u) /\ kernel_stack'[u] # NoSlot
      BY <2>2, <2>4 DEF Live
    <3>2. w # t
      BY <1>6, <2>4, <3>1
    <3> QED BY <1>2, <1>6, <2>4, <3>1, <3>2 DEF SlotsSound
  <2>5. IdleSlot \in stack_bitmap'
    BY <1>2, <1>3, <2>1 DEF SlotsSound
  <2> QED BY <2>3, <2>4, <2>5 DEF SlotsSound
<1>8. RunsSound' /\ stack_bitmap' \in SUBSET Slots
  BY <1>1, <1>2, Untouched DEF vam_free_stack
<1>9. \A v \in P(kernel_stack') : v \in P(kernel_stack) /\ v \notin S /\ v \in Pages
  <2>1. \A v \in StacksOf(kernel_stack') : v \in StacksOf(kernel_stack)
    <3> SUFFICES ASSUME NEW v \in StacksOf(kernel_stack') PROVE v \in StacksOf(kernel_stack)
      OBVIOUS
    <3>1. PICK a \in {IdleSlot} \union {kernel_stack'[u] : u \in {w \in Threads : kernel_stack'[w] # NoSlot}} :
            v \in ToSet(SlotPages(a))
      BY DEF StacksOf
    <3>2. a \in {IdleSlot} \union {kernel_stack[u] : u \in {w \in Threads : kernel_stack[w] # NoSlot}}
      <4>1. CASE a = IdleSlot
        BY <4>1
      <4>2. CASE a # IdleSlot
        <5>1. PICK u \in Threads : a = kernel_stack'[u] /\ kernel_stack'[u] # NoSlot
          BY <3>1, <4>2
        <5> QED BY <1>6, <5>1
      <4> QED BY <4>1, <4>2
    <3> QED BY <3>1, <3>2 DEF StacksOf
  <2>2. \A v \in StacksOf(kernel_stack') : v \notin S
    <3>1. \A u \in Threads : kernel_stack'[u] # s
      <4> SUFFICES ASSUME NEW u \in Threads, kernel_stack'[u] = s PROVE FALSE
        OBVIOUS
      <4>1. u # t /\ kernel_stack[u] = s
        BY <1>3, <1>6
      <4> QED BY <1>1, <1>2, <4>1 DEF SlotsSound, s
    <3> QED BY <1>3, <1>6, <3>1, SlotAside DEF S
  <2>3. S \subseteq StacksStart..(StacksEnd - 1)
    BY <1>3, StackRegion DEF S
  <2>4. \A v \in HeapStart..(heap_end - 1) : v \notin S
    BY <1>2, <2>3, NeededLow
  <2>5. \A v \in P(kernel_stack) : v \in Pages
    BY <1>2, NeededLow
  <2> QED BY <2>1, <2>2, <2>4, <2>5
<1>10. \A v \in P(kernel_stack') : KPage(m1, v) # 0 /\ v \in Pages
  <2> HIDE DEF P
  <2> QED BY <1>2, <1>5, <1>9 DEF Within, Shares
<1>11. Shares(m1, C, P(kernel_stack'))
  <2>1. LowTables(mem, m1)
    BY <1>5, SameLow
  <2>2. \A e \in C \ {kernel_directory}, x \in Tables : m1.tables[e][x] = mem.tables[e][x]
    BY <1>2, <1>5, DirectoryFacts DEF Within
  <2> HIDE DEF C, P
  <2> QED BY <1>2, <1>10, <2>1, <2>2, SharesKept
<1>12. Needed' = P(kernel_stack')
  BY <1>1 DEF Needed, StacksOf, Live
<1>13. CASE ~last
  <2>1. mem' = m1 /\ page_directory' = page_directory
    BY <1>1, <1>13
  <2>2. Directories' = Directories /\ Sound(mem', Directories') /\ DirectoriesSound'
    <3>1. \A u \in Threads : kernel_stack'[u] # NoSlot => page_directory[process[u]] # 0
      BY <1>2, <1>6 DEF DirectoriesSound, Live
    <3>2. Sound(mem', Directories) /\ Within(mem, mem', S)
      BY <1>5, <2>1
    <3> QED BY <1>1, <2>1, <3>1, <3>2, DirectoriesKept
  <2>3. KernelTypeOK'
    <3>1. mem' \in Memory
      BY <2>2 DEF Sound
    <3> QED BY <1>1, <1>6, <1>8, <2>1, <3>1 DEF KernelInv, KernelTypeOK
  <2>4. Shared'
    BY <1>1, <1>11, <1>12, <2>1, <2>2 DEF Shared
  <2> QED BY <1>7, <1>8, <2>2, <2>3, <2>4 DEF KernelInv
<1>14. CASE last
  <2> DEFINE n == paging_destroy_directory_kernel(m1, d)
  <2>1. mem' = n /\ page_directory' = [page_directory EXCEPT ![p] = 0] /\ cr3 # d
    BY <1>1, <1>14
  <2>2. Sound(n, Directories \ {d}) /\ SameHalf(m1, n, d) /\ d # kernel_directory
    BY <1>3, <1>5, DirectoryGone
  <2> HIDE DEF n
  <2>3. /\ page_directory' \in [Processes -> Frames \union {0}] /\ page_directory'[p] = 0
        /\ \A q \in Processes : q # p => page_directory'[q] = page_directory[q]
        /\ Directories' = Directories \ {d}
    <3>1. 0 \in Frames \union {0} /\ {0} \ {0} = {}
      OBVIOUS
    <3>2. /\ page_directory' \in [Processes -> Frames \union {0}] /\ page_directory'[p] = 0
          /\ \A q \in Processes : q # p => page_directory'[q] = page_directory[q]
          /\ Directories' = (Directories \ {page_directory[p]}) \union ({0} \ {0})
      BY <1>3, <2>1, <3>1, DirectoriesChanged
    <3> QED BY <3>1, <3>2 DEF d
  <2>4. ASSUME NEW e \in (Directories \ {d}) \union {cr3}
        PROVE  e \in Frames /\ \A x \in Tables : n.tables[e][x] = m1.tables[e][x]
    <3>1. e \in Frames /\ e # d
      BY <1>2, <2>1, DirectoryFacts
    <3> QED BY <2>2, <3>1 DEF SameHalf
  <2>5. DirectoriesSound'
    <3>1. ASSUME NEW e \in Directories' PROVE Agree(mem', e, BootPages)
      <4>1. e \in Directories \ {d} /\ e \in Frames /\ e # kernel_directory
        BY <2>3, <3>1, DirectoryFacts
      <4>2. Agree(mem, e, BootPages)
        BY <1>2, <4>1 DEF DirectoriesSound
      <4>3. \A x \in Tables : n.tables[e][x] = mem.tables[e][x]
        BY <1>5, <2>4, <4>1 DEF Within
      <4> QED BY <1>2, <2>1, <2>2, <4>1, <4>2, <4>3, BootAgree
    <3>2. \A q, o \in Processes : page_directory'[q] # 0 /\ page_directory'[q] = page_directory'[o] => q = o
      BY <1>2, <2>3 DEF DirectoriesSound
    <3>3. cr3' \in Directories' \union {kernel_directory}
      BY <1>1, <1>2, <2>1, <2>3 DEF DirectoriesSound
    <3>4. ASSUME NEW u \in Threads, Live(u)' PROVE page_directory'[process[u]] # 0
      <4>1. u # t /\ Live(u)
        BY <1>6, <3>4 DEF Live
      <4>2. process[u] # p
        BY <1>14, <4>1 DEF LiveIn
      <4>3. process[u] \in Processes
        BY KernelAssumption
      <4> QED BY <1>2, <2>3, <4>1, <4>2, <4>3 DEF DirectoriesSound
    <3> QED BY <3>1, <3>2, <3>3, <3>4 DEF DirectoriesSound
  <2>6. Sound(mem', Directories')
    BY <2>1, <2>2, <2>3
  <2>7. KernelTypeOK'
    <3>1. mem' \in Memory
      BY <2>6 DEF Sound
    <3> QED BY <1>1, <1>6, <1>8, <2>3, <3>1 DEF KernelInv, KernelTypeOK
  <2>8. Shared'
    <3> DEFINE B == (Directories \ {d}) \union {cr3}
    <3>1. \A v \in P(kernel_stack') : KPage(n, v) # 0
      <4> HIDE DEF P
      <4> QED BY <1>10, <2>2 DEF SameHalf, SameKernel
    <3>2. LowTables(m1, n)
      <4>1. SameTables(m1, n)
        BY <2>2 DEF SameHalf, SameKernel, SameTables
      <4> QED BY <4>1, SameLow
    <3>3. Shares(m1, B, P(kernel_stack'))
      BY <1>11 DEF Shares
    <3>4. \A e \in B \ {kernel_directory}, x \in Tables : n.tables[e][x] = m1.tables[e][x]
      BY <2>4
    <3>5. (Directories \union {cr3})' = B
      BY <1>1, <2>3
    <3> HIDE DEF B, P
    <3>6. Shares(n, B, P(kernel_stack'))
      BY <3>1, <3>2, <3>3, <3>4, SharesKept
    <3> QED BY <1>12, <2>1, <3>5, <3>6 DEF Shared
  <2> QED BY <1>7, <1>8, <2>5, <2>6, <2>7, <2>8 DEF KernelInv
<1> QED BY <1>13, <1>14

\* scheduler_switch.
LEMMA StepSwitch ==
  ASSUME KernelInv, NEW t \in Threads, switch(t)
  PROVE  KernelInv'
<1>1. /\ ~halted /\ Live(t) /\ cr3' = page_directory[process[t]]
      /\ UNCHANGED << mem, bitmap, stack_bitmap, heap_end, page_directory, kernel_stack, runs, halted >>
  BY DEF switch
<1>2. cr3' \in Directories /\ cr3' \in Frames
  <2>1. process[t] \in Processes /\ page_directory[process[t]] # 0
    BY <1>1, KernelAssumption DEF KernelInv, DirectoriesSound
  <2> QED BY <1>1, <2>1, DirectoryFacts
<1>3. RunsSound' /\ SlotsSound' /\ Directories' = Directories
  BY <1>1, Untouched DEF KernelInv
<1>4. KernelTypeOK'
  BY <1>1, <1>2 DEF KernelInv, KernelTypeOK
<1>5. Sound(mem', Directories')
  BY <1>1, <1>3 DEF KernelInv
<1>6. DirectoriesSound'
  BY <1>1, <1>2, <1>3 DEF KernelInv, DirectoriesSound, Live
<1>7. Shared'
  <2>1. Needed' = Needed
    BY <1>1 DEF Needed, Live
  <2>2. Shares(mem, Directories \union {cr3}, Needed)
    BY <1>1 DEF KernelInv, Shared
  <2>3. Shares(mem, Directories \union {cr3'}, Needed)
    BY <1>2, <2>2 DEF Shares
  <2> QED BY <1>1, <1>3, <2>1, <2>3 DEF Shared
<1> QED BY <1>3, <1>4, <1>5, <1>6, <1>7 DEF KernelInv

\* exec: the new directory has the kernel's tables.
LEMMA StepExec ==
  ASSUME KernelInv, NEW t \in Threads, exec(t)
  PROVE  KernelInv'
<1> DEFINE p == process[t]
           old == page_directory[p]
           new == pmm_alloc_page(mem)
           m1 == paging_create_directory(mem, new)
           n == paging_destroy_directory_kernel(m1, old)
           C == (Directories \ {old}) \union {new}
<1>1. /\ ~halted /\ Live(t) /\ cr3 = old /\ new # 0 /\ mem' = n
      /\ page_directory' = [page_directory EXCEPT ![p] = new] /\ cr3' = new
      /\ UNCHANGED << bitmap, stack_bitmap, heap_end, kernel_stack, runs, halted >>
  BY DEF exec
<1>2. /\ kernel_stack \in [Threads -> Slots \union {NoSlot}] /\ heap_end \in HeapStart..StacksStart
      /\ DirectoriesSound /\ Sound(mem, Directories) /\ mem \in Memory
      /\ Shares(mem, Directories \union {cr3}, Needed)
  BY <1>1 DEF KernelInv, KernelTypeOK, Shared
<1>3. p \in Processes /\ old \in Directories
  <2>1. p \in Processes /\ old # 0
    BY <1>1, <1>2, KernelAssumption DEF DirectoriesSound
  <2> QED BY <2>1, DirectoryFacts
<1>4. new \in Frames \ mem.used
  BY <1>1, <1>2, AllocFacts
<1> HIDE DEF new, old
<1>5. /\ Sound(m1, Directories \union {new}) /\ SameHalf(mem, m1, new) /\ new \notin Directories
      /\ new # kernel_directory /\ \A x \in Tables : m1.tables[new][x] = KTable(mem, x)
  BY <1>2, <1>4, DirectoryMade
<1> HIDE DEF m1
<1>6. Sound(n, (Directories \union {new}) \ {old}) /\ SameHalf(m1, n, old) /\ old # kernel_directory
  <2>1. old \in Directories \union {new}
    BY <1>3
  <2> QED BY <1>5, <2>1, DirectoryGone
<1> HIDE DEF n
<1>7. (Directories \union {new}) \ {old} = C /\ new # old
  BY <1>3, <1>5
<1>8. /\ page_directory' \in [Processes -> Frames \union {0}] /\ page_directory'[p] = new
      /\ \A q \in Processes : q # p => page_directory'[q] = page_directory[q]
      /\ Directories' = C
  <2>1. new \in Frames \union {0} /\ {new} \ {0} = {new}
    BY <1>1, <1>4
  <2>2. /\ page_directory' \in [Processes -> Frames \union {0}] /\ page_directory'[p] = new
        /\ \A q \in Processes : q # p => page_directory'[q] = page_directory[q]
        /\ Directories' = (Directories \ {page_directory[p]}) \union ({new} \ {0})
    BY <1>1, <1>3, <2>1, DirectoriesChanged
  <2> QED BY <2>1, <2>2 DEF old
<1>9. SameKernel(mem, n)
  BY <1>5, <1>6 DEF SameHalf, SameKernel
<1>10. \A x \in Tables : n.tables[new][x] = KTable(n, x)
  BY <1>4, <1>5, <1>6, <1>7, <1>9 DEF SameHalf, SameKernel
<1>11. \A e \in Directories \ {old} : e \in Frames /\ \A x \in Tables : n.tables[e][x] = mem.tables[e][x]
  BY <1>5, <1>6, DirectoryFacts DEF SameHalf
<1>12. DirectoriesSound'
  <2>1. ASSUME NEW e \in Directories' PROVE Agree(mem', e, BootPages)
    <3>1. CASE e = new
      BY <1>1, <1>10, <3>1, LowPages DEF Agree
    <3>2. CASE e # new
      <4>1. e \in Directories \ {old}
        BY <1>8, <2>1, <3>2
      <4>2. Agree(mem, e, BootPages)
        BY <1>2, <4>1 DEF DirectoriesSound
      <4> QED BY <1>1, <1>2, <1>6, <1>11, <4>1, <4>2, BootAgree
    <3> QED BY <3>1, <3>2
  <2>2. ASSUME NEW q \in Processes, NEW o \in Processes, page_directory'[q] # 0, page_directory'[q] = page_directory'[o]
        PROVE  q = o
    <3>1. \A a \in Processes : page_directory[a] # new
      BY <1>1, <1>5 DEF Directories
    <3> QED BY <1>2, <1>8, <2>2, <3>1 DEF DirectoriesSound
  <2>3. cr3' \in Directories' \union {kernel_directory}
    BY <1>1, <1>8
  <2>4. ASSUME NEW u \in Threads, Live(u)' PROVE page_directory'[process[u]] # 0
    <3>1. process[u] \in Processes /\ Live(u)
      BY <1>1, <2>4, KernelAssumption DEF Live
    <3> QED BY <1>1, <1>2, <1>8, <3>1 DEF DirectoriesSound
  <2> QED BY <2>1, <2>2, <2>3, <2>4 DEF DirectoriesSound
<1>13. Sound(mem', Directories')
  BY <1>1, <1>6, <1>7, <1>8
<1>14. KernelTypeOK'
  <2>1. mem' \in Memory /\ cr3' \in Frames
    BY <1>1, <1>4, <1>13 DEF Sound
  <2> QED BY <1>1, <1>8, <2>1 DEF KernelInv, KernelTypeOK
<1>15. RunsSound' /\ SlotsSound'
  BY <1>1, Untouched DEF KernelInv
<1>16. Shared'
  <2>1. Needed' = Needed
    BY <1>1 DEF Needed, Live
  <2>2. \A v \in Needed : KPage(n, v) # 0
    <3>1. \A v \in Needed : v \in Pages
      BY <1>2, NeededParts, NeededLow
    <3> QED BY <1>2, <1>9, <3>1 DEF SameKernel, Shares
  <2>3. Shares(mem, Directories \ {old}, Needed)
    BY <1>2 DEF Shares
  <2>4. Shares(n, Directories \ {old}, Needed)
    <3> DEFINE B == Directories \ {old}
    <3>1. LowTables(mem, n)
      <4>1. SameTables(mem, n)
        BY <1>9 DEF SameKernel, SameTables
      <4> QED BY <4>1, SameLow
    <3>2. \A e \in B \ {kernel_directory}, x \in Tables : n.tables[e][x] = mem.tables[e][x]
      BY <1>11
    <3>3. Shares(mem, B, Needed)
      BY <2>3
    <3> HIDE DEF B
    <3>4. Shares(n, B, Needed)
      BY <2>2, <3>1, <3>2, <3>3, SharesKept
    <3> QED BY <3>4 DEF B
  <2>5. Shares(n, C, Needed)
    BY <1>10, <2>4, LowPages DEF Shares, Agree
  <2>6. (Directories \union {cr3})' = C
    BY <1>1, <1>8
  <2> QED BY <1>1, <2>1, <2>5, <2>6 DEF Shared
<1> QED BY <1>12, <1>13, <1>14, <1>15, <1>16 DEF KernelInv

\* A change above the end of the stacks, or to page 0, leaves the tables below alone.
LEMMA HighChange ==
  ASSUME NEW m, NEW D, Sound(m, D), NEW n, NEW E, Sound(n, E), NEW S \in SUBSET Loose, Within(m, n, S),
         \A v \in S : v \notin vam_init
  PROVE  LowTables(m, n)
<1> SUFFICES ASSUME NEW v \in 0..(StacksEnd - 1), KTable(n, Table(v)) # KTable(m, Table(v)) PROVE FALSE
  BY DEF LowTables
<1>1. v \in Pages /\ Table(v) \in Tables
  BY LowPages
<1>2. PICK w \in S : Table(w) = Table(v)
  BY <1>1 DEF Within
<1>3. Table(v) \notin BootTables
  BY DEF Sound, Direct
<1>4. w # 0
  BY <1>2, <1>3, Regions
<1>5. w \notin HeapStart..(StacksEnd - 1)
  BY <1>2 DEF vam_init
<1>6. w \in StacksEnd..(NumPages - 1)
  BY <1>4, <1>5, Layout DEF Loose
<1> QED BY <1>2, <1>6, Borders

\* The run vam_alloc_pages picks.
LEMMA RunPicked ==
  ASSUME NEW b, NEW n \in RunLengths, vam_alloc_pages(b, n) # NoPage
  PROVE  LET v == vam_alloc_pages(b, n) IN
         /\ v \in Nat /\ n \in Nat \ {0} /\ v..(v + n - 1) \subseteq Pages /\ v \in Pages
         /\ ToSet(PagesFrom(v, n)) = v..(v + n - 1)
         /\ \A w \in v..(v + n - 1) : w \notin b
<1> DEFINE starts == {a \in 0..(NumPages - n) : ToSet(PagesFrom(a, n)) \intersect b = {}}
           v == vam_alloc_pages(b, n)
<1>1. starts # {} /\ v = Min(starts)
  BY DEF vam_alloc_pages
<1>2. NumPages \in Nat /\ n \in Nat \ {0} /\ n <= NumPages
  BY Layout, KernelAssumption
<1>3. starts \in SUBSET Nat
  BY <1>2
<1> HIDE DEF v
<1>4. v \in starts
  <2> HIDE DEF starts
  <2> QED BY <1>1, <1>3, Least
<1>5. v \in 0..(NumPages - n) /\ ToSet(PagesFrom(v, n)) \intersect b = {}
  BY <1>4
<1>6. v \in Nat /\ v..(v + n - 1) \subseteq Pages /\ v \in Pages
  BY <1>2, <1>5 DEF Pages
<1>7. ToSet(PagesFrom(v, n)) = v..(v + n - 1)
  BY <1>2, <1>6, RunPages
<1> QED BY <1>2, <1>5, <1>6, <1>7 DEF v

\* A step of the virtual memory manager outside heap and stacks.
LEMMA HighStep ==
  ASSUME KernelInv, ~halted, NEW S, Sound(mem', Directories), Within(mem, mem', S), LowTables(mem, mem'),
         \A v \in Needed : KPage(mem', v) # 0,
         UNCHANGED << stack_bitmap, heap_end, page_directory, kernel_stack, cr3, halted >>,
         RunsSound', bitmap' \in SUBSET Pages, runs' \in SUBSET (Pages \X RunLengths)
  PROVE  KernelInv'
<1>1. Directories' = Directories /\ Sound(mem', Directories') /\ DirectoriesSound'
  <2>1. \A t \in Threads : kernel_stack'[t] # NoSlot => page_directory[process[t]] # 0
    BY DEF KernelInv, DirectoriesSound, Live
  <2> QED BY <2>1, DirectoriesKept
<1>2. KernelTypeOK'
  <2>1. mem' \in Memory
    BY <1>1 DEF Sound
  <2> QED BY <2>1 DEF KernelInv, KernelTypeOK
<1>3. SlotsSound'
  BY Untouched DEF KernelInv
<1>4. Shared'
  <2> DEFINE C == Directories \union {cr3}
  <2>1. Needed' = Needed /\ (Directories \union {cr3})' = C
    BY <1>1 DEF Needed, Live
  <2>2. Shares(mem, C, Needed)
    BY DEF KernelInv, Shared
  <2>3. \A d \in C \ {kernel_directory}, x \in Tables : mem'.tables[d][x] = mem.tables[d][x]
    BY DirectoryFacts DEF Within
  <2> HIDE DEF C
  <2>4. Shares(mem', C, Needed)
    BY <2>2, <2>3, SharesKept
  <2> QED BY <2>1, <2>4 DEF Shared
<1> QED BY <1>1, <1>2, <1>3, <1>4 DEF KernelInv

\* Heap and stacks are reserved in the VAM, and mapped.
LEMMA NeededReserved ==
  ASSUME KernelInv, ~halted
  PROVE  \A v \in Needed : v \in Pages /\ v \in vam_init /\ KPage(mem, v) # 0
<1>1. kernel_stack \in [Threads -> Slots \union {NoSlot}] /\ heap_end \in HeapStart..StacksStart
      /\ \A v \in Needed : KPage(mem, v) # 0
  BY DEF KernelInv, KernelTypeOK, Shared, Shares
<1>2. \A v \in Needed : v \in Pages
  BY <1>1, NeededParts, NeededLow
<1>3. \A v \in HeapStart..(heap_end - 1) : v \in HeapStart..(StacksEnd - 1)
  BY <1>1, Layout
<1>4. \A v \in StacksOf(kernel_stack) : v \in StacksStart..(StacksEnd - 1)
  BY <1>1, StacksPlace
<1>5. \A v \in StacksStart..(StacksEnd - 1) : v \in HeapStart..(StacksEnd - 1)
  BY Layout
<1>6. \A v \in Needed : v \in vam_init
  BY <1>3, <1>4, <1>5, NeededParts DEF vam_init
<1> QED BY <1>1, <1>2, <1>6

\* vmm_alloc_pages_any.
LEMMA StepAllocPages ==
  ASSUME KernelInv, NEW n \in RunLengths, vmm_alloc_pages_any(n)
  PROVE  KernelInv'
<1> DEFINE v == vam_alloc_pages(bitmap, n)
           l == vmm_map_pages(mem, v, n)
           S == v..(v + n - 1)
<1>1. /\ ~halted
      /\ mem' = IF v = NoPage THEN mem ELSE l.m
      /\ bitmap' = IF v # NoPage /\ l.ok THEN bitmap \union ToSet(PagesFrom(v, n)) ELSE bitmap
      /\ runs' = IF v # NoPage /\ l.ok THEN runs \union {<< v, n >>} ELSE runs
      /\ UNCHANGED << stack_bitmap, heap_end, page_directory, kernel_stack, cr3, halted >>
  BY DEF vmm_alloc_pages_any
<1>2. /\ Sound(mem, Directories) /\ RunsSound /\ vam_init \subseteq bitmap
      /\ bitmap \in SUBSET Pages /\ runs \in SUBSET (Pages \X RunLengths)
  BY DEF KernelInv, KernelTypeOK, RunsSound
<1>3. \A w \in Needed : w \in Pages /\ w \in vam_init /\ KPage(mem, w) # 0
  BY <1>1, NeededReserved
<1>4. CASE v = NoPage
  <2>1. mem' = mem /\ bitmap' = bitmap /\ runs' = runs
    BY <1>1, <1>4
  <2>2. RunsSound'
    BY <1>2, <2>1, Untouched
  <2>3. Within(mem, mem', {}) /\ LowTables(mem, mem')
    BY <2>1 DEF Within, LowTables
  <2> QED BY <1>1, <1>2, <1>3, <2>1, <2>2, <2>3, HighStep
<1>5. CASE v # NoPage
  <2>1. /\ v \in Nat /\ n \in Nat \ {0} /\ S \subseteq Pages /\ v \in Pages
        /\ ToSet(PagesFrom(v, n)) = S /\ \A w \in S : w \notin bitmap
    BY <1>5, RunPicked
  <2> HIDE DEF v
  <2>2. /\ l.ok \in BOOLEAN /\ Sound(l.m, Directories) /\ Within(mem, l.m, S)
        /\ ~l.ok => SameKernel(mem, l.m)
        /\ l.ok => S \subseteq Loose
    BY <1>2, <2>1, MapPages
  <2>3. mem' = l.m
    BY <1>1, <1>5
  <2> HIDE DEF l, S
  <2>4. CASE ~l.ok
    <3>1. bitmap' = bitmap /\ runs' = runs
      BY <1>1, <2>4
    <3>2. RunsSound'
      BY <1>2, <3>1, Untouched
    <3>3. LowTables(mem, mem')
      <4>1. SameTables(mem, mem')
        BY <2>2, <2>3, <2>4 DEF SameKernel, SameTables
      <4> QED BY <4>1, SameLow
    <3>4. \A w \in Needed : KPage(mem', w) # 0
      BY <1>3, <2>2, <2>3, <2>4 DEF SameKernel
    <3>5. Sound(mem', Directories) /\ Within(mem, mem', S)
      BY <2>2, <2>3
    <3> QED BY <1>1, <1>2, <3>1, <3>2, <3>3, <3>4, <3>5, HighStep
  <2>5. CASE l.ok
    <3>1. bitmap' = bitmap \union S /\ runs' = runs \union {<< v, n >>}
      BY <1>1, <1>5, <2>1, <2>5
    <3>2. S \in SUBSET Loose /\ \A w \in S : w \notin vam_init
      BY <1>2, <2>1, <2>2, <2>5
    <3>3. RunsSound'
      <4>1. vam_init \subseteq bitmap'
        BY <1>2, <3>1
      <4>2. ASSUME NEW r \in runs', NEW w \in r[1]..(r[1] + r[2] - 1)
            PROVE  w \in Pages /\ w \notin vam_init /\ w \notin 1..(BootPages - 1)
        <5>1. CASE r \in runs
          BY <1>2, <4>2, <5>1 DEF RunsSound
        <5>2. CASE r = << v, n >>
          <6>1. w \in S
            BY <4>2, <5>2 DEF S
          <6> QED BY <2>1, <3>2, <6>1, Regions
        <5> QED BY <3>1, <5>1, <5>2
      <4>3. vam_init' = vam_init
        BY DEF vam_init
      <4> QED BY <4>1, <4>2, <4>3 DEF RunsSound
    <3>4. Sound(mem', Directories) /\ Within(mem, mem', S)
      BY <2>2, <2>3
    <3>5. LowTables(mem, mem')
      BY <1>2, <3>2, <3>4, HighChange
    <3>6. \A w \in Needed : KPage(mem', w) # 0
      BY <1>3, <3>2, <3>4 DEF Within
    <3>7. bitmap' \in SUBSET Pages /\ runs' \in SUBSET (Pages \X RunLengths)
      BY <1>2, <2>1, <3>1
    <3> QED BY <1>1, <3>3, <3>4, <3>5, <3>6, <3>7, HighStep
  <2> QED BY <2>2, <2>4, <2>5
<1> QED BY <1>4, <1>5

\* vmm_free_pages with vam_free_pages.
LEMMA StepFreePages ==
  ASSUME KernelInv, NEW r \in runs, vmm_free_pages(r)
  PROVE  KernelInv'
<1> DEFINE v == r[1]
           n == r[2]
           S == v..(v + n - 1)
<1>1. /\ ~halted /\ mem' = vmm_unmap_pages(mem, v, n) /\ bitmap' = bitmap \ ToSet(PagesFrom(v, n)) /\ runs' = runs \ {r}
      /\ UNCHANGED << stack_bitmap, heap_end, page_directory, kernel_stack, cr3, halted >>
  BY DEF vmm_free_pages
<1>2. /\ Sound(mem, Directories) /\ RunsSound /\ vam_init \subseteq bitmap
      /\ bitmap \in SUBSET Pages /\ runs \in SUBSET (Pages \X RunLengths)
  BY DEF KernelInv, KernelTypeOK, RunsSound
<1>3. \A w \in Needed : w \in Pages /\ w \in vam_init /\ KPage(mem, w) # 0
  BY <1>1, NeededReserved
<1>4. v \in Nat /\ n \in Nat
  <2>1. v \in Pages /\ n \in RunLengths
    BY <1>2
  <2> HIDE DEF v, n
  <2>2. v \in Nat
    BY <2>1, Regions
  <2>3. RunLengths \subseteq 1..NumPages
    BY KernelAssumption
  <2>4. n \in 1..NumPages
    BY <2>1, <2>3
  <2> QED BY <2>2, <2>4, Layout
<1>5. S \in SUBSET Loose /\ \A w \in S : w \notin vam_init
  <2>1. \A w \in S : w \in Pages /\ w \notin vam_init /\ w \notin 1..(BootPages - 1)
    BY <1>2 DEF RunsSound
  <2> QED BY <2>1, Regions
<1>6. PagesFrom(v, n) \in Seq(S) /\ ToSet(PagesFrom(v, n)) = S
  BY <1>4, RunPages
<1>7. mem' = SkipAll(mem, PagesFrom(v, n))
  BY <1>1, Loops
<1> HIDE DEF S, v, n
<1>8. Sound(mem', Directories) /\ Within(mem, mem', S)
  <2> DEFINE s == PagesFrom(v, n)
             k == SkipAll(mem, s)
  <2>1. s \in Seq(S)
    BY <1>6
  <2> HIDE DEF s
  <2>2. Unmapped(mem, Directories, S, s, Len(s), k)
    BY <1>2, <1>5, <2>1, UnmapLoop
  <2>3. mem' = k
    BY <1>7 DEF s
  <2> HIDE DEF k
  <2> QED BY <2>2, <2>3 DEF Unmapped
<1>9. LowTables(mem, mem')
  BY <1>2, <1>5, <1>8, HighChange
<1>10. \A w \in Needed : KPage(mem', w) # 0
  BY <1>3, <1>5, <1>8 DEF Within
<1>11. RunsSound'
  <2>1. vam_init' = vam_init
    BY DEF vam_init
  <2> QED BY <1>1, <1>2, <1>5, <1>6, <2>1 DEF RunsSound
<1>12. bitmap' \in SUBSET Pages /\ runs' \in SUBSET (Pages \X RunLengths)
  BY <1>1, <1>2
<1> QED BY <1>1, <1>8, <1>9, <1>10, <1>11, <1>12, HighStep

----------------------------------------------------------------------------
(* Boot.                                                                   *)

\* The numbers of frames at boot: the tables of the direct map and the kernel's
\* directory are among the n in use, and there is room for what boot maps.
LEMMA BootCounts ==
  ASSUME NEW n \in ReservedCounts
  PROVE  /\ n \in Nat /\ kernel_directory \in Nat \ {0} /\ kernel_directory <= n
         /\ n + (HEAP_PAGES + 1) + (StackPages + 1) <= NumFrames /\ n <= NumFrames
         /\ kernel_directory \in Frames /\ 1..n \subseteq Frames /\ Cardinality(1..n) = n
<1>1. n \in Nat /\ kernel_directory <= n /\ n + (HEAP_PAGES + 1) + (StackPages + 1) <= NumFrames
  BY KernelAssumption
<1>2. kernel_directory \in Nat \ {0}
  BY BootLayout
<1>3. n <= NumFrames
  BY <1>1, Layout
<1>4. kernel_directory \in Frames /\ 1..n \subseteq Frames
  BY <1>1, <1>2, <1>3, Layout DEF Frames
<1>5. Cardinality(1..n) = IF 1 > n THEN 0 ELSE n - 1 + 1
  BY <1>1, FS_Interval
<1>6. Cardinality(1..n) = n
  BY <1>1, <1>5
<1> QED BY <1>1, <1>2, <1>3, <1>4, <1>6

\* What paging_init leaves: the direct map and nothing else.
LEMMA PagingStart ==
  ASSUME NEW n \in ReservedCounts
  PROVE  LET m == paging_init(n) IN
         /\ m \in Memory /\ m.used = 1..n
         /\ \A v \in Pages : KPage(m, v) = IF v < BootPages THEN v ELSE 0
         /\ \A x \in Tables : KTable(m, x) = IF x \in BootTables THEN x + 1 ELSE 0
<1> DEFINE m == paging_init(n)
           T == [x \in Tables |-> IF x \in BootTables THEN x + 1 ELSE 0]
           P == [v \in Pages |-> IF v < BootPages THEN v ELSE 0]
           ts == [d \in Frames |-> [x \in Tables |-> 0]]
           ps == [d \in Frames |-> [v \in Pages |-> 0]]
<1>1. kernel_directory \in Frames /\ 1..n \subseteq Frames
  BY BootCounts
<1>2. m = [used |-> 1..n, tables |-> [ts EXCEPT ![kernel_directory] = T], pages |-> [ps EXCEPT ![kernel_directory] = P]]
  <2> DEFINE f == FreshMemory(1..n)
  <2>1. f = [used |-> 1..n, tables |-> ts, pages |-> ps]
    BY DEF FreshMemory
  <2>2. m = [f EXCEPT !.tables[kernel_directory] = T, !.pages[kernel_directory] = P]
    BY DEF paging_init
  <2> HIDE DEF f, m, T, P, ts, ps
  <2> QED BY <2>1, <2>2
<1>3. T \in [Tables -> Frames \union {0}]
  <2>1. \A x \in BootTables : x + 1 \in Frames
    <3>1. kernel_directory \in 1..NumFrames /\ NumFrames \in Nat
      BY <1>1, Layout DEF Frames
    <3>2. \A x \in BootTables : x \in Nat /\ x + 1 \in 1..(kernel_directory - 1)
      BY BootLayout
    <3> QED BY <3>1, <3>2 DEF Frames
  <2> QED BY <2>1
<1>4. P \in [Pages -> Frames \union {0}]
  <2>1. \A v \in Pages : v \in Nat
    BY Regions
  <2>2. \A v \in Pages : v < BootPages => v \in Frames \union {0}
    BY <2>1, Layout DEF Frames
  <2> QED BY <2>2
<1>5. ts \in [Frames -> [Tables -> Frames \union {0}]] /\ ps \in [Frames -> [Pages -> Frames \union {0}]]
  OBVIOUS
<1>6. /\ \A v \in Pages : P[v] = IF v < BootPages THEN v ELSE 0
      /\ \A x \in Tables : T[x] = IF x \in BootTables THEN x + 1 ELSE 0
  OBVIOUS
<1> HIDE DEF T, P, ts, ps, m
<1>7. /\ m.used = 1..n
      /\ m.tables \in [Frames -> [Tables -> Frames \union {0}]] /\ m.tables[kernel_directory] = T
      /\ m.pages \in [Frames -> [Pages -> Frames \union {0}]] /\ m.pages[kernel_directory] = P
  BY <1>1, <1>2, <1>3, <1>4, <1>5
<1>8. m \in Memory
  BY <1>1, <1>2, <1>7 DEF Memory
<1> QED BY <1>6, <1>7, <1>8 DEF KPage, KTable, m

\* So it is sound, with no process, and no page outside the direct map is mapped.
LEMMA PagingSound ==
  ASSUME NEW n \in ReservedCounts, NEW D, D = {}
  PROVE  LET m == paging_init(n) IN
         /\ Sound(m, D) /\ Cardinality(m.used) = n
         /\ \A v \in Loose : KPage(m, v) = 0
         /\ \A x \in Tables \ BootTables : KTable(m, x) = 0
<1> DEFINE m == paging_init(n)
<1>1. /\ m \in Memory /\ m.used = 1..n
      /\ \A v \in Pages : KPage(m, v) = IF v < BootPages THEN v ELSE 0
      /\ \A x \in Tables : KTable(m, x) = IF x \in BootTables THEN x + 1 ELSE 0
  BY PagingStart
<1> HIDE DEF m
<1>2. Cardinality(m.used) = n /\ BootFrames \subseteq m.used
  BY <1>1, BootCounts DEF BootFrames
<1>3. \A v \in Loose : KPage(m, v) = 0
  <2>1. \A v \in Loose : v \in Pages /\ (v = 0 \/ ~(v < BootPages))
    BY Regions, Layout DEF Loose
  <2> QED BY <1>1, <2>1
<1>4. \A x \in Tables \ BootTables : KTable(m, x) = 0
  BY <1>1
<1>5. Owned(m, D)
  BY <1>2, <1>3, <1>4 DEF Owned
<1>6. Direct(m)
  <2>1. \A v \in 1..(BootPages - 1) : v \in Pages /\ v < BootPages
    BY Regions, Layout
  <2>2. \A x \in BootTables : x \in Tables
    BY Regions
  <2> QED BY <1>1, <2>1, <2>2 DEF Direct
<1>7. Shaped(m)
  <2>1. ASSUME NEW v \in Pages, KPage(m, v) # 0 PROVE KTable(m, Table(v)) # 0
    <3>1. v \in 1..(BootPages - 1)
      BY <1>3, <2>1, Regions
    <3>2. v \in 0..(BootPages - 1)
      BY <3>1, Layout
    <3>3. Table(v) \in BootTables /\ KTable(m, Table(v)) = Table(v) + 1
      BY <1>6, <3>2, Regions DEF Direct
    <3>4. Table(v) + 1 # 0
      BY <3>3, BootLayout
    <3> QED BY <3>3, <3>4
  <2>2. ASSUME NEW x \in Tables, KTable(m, x) # 0 PROVE \E v \in Pages : Table(v) = x /\ KPage(m, v) # 0
    <3>1. x \in BootTables
      BY <1>4, <2>2
    <3>2. PICK v \in 0..(BootPages - 1) : Table(v) = x
      BY <3>1 DEF BootTables
    <3>3. CASE v = 0
      <4>1. Table(1) = x /\ 1 \in Pages /\ 1 \in 1..(BootPages - 1)
        BY <3>2, <3>3, Regions
      <4>2. KPage(m, 1) = 1
        BY <1>6, <4>1 DEF Direct
      <4> QED BY <4>1, <4>2
    <3>4. CASE v # 0
      <4>1. v \in 1..(BootPages - 1) /\ v # 0
        BY <3>2, <3>4, Layout
      <4>2. KPage(m, v) = v /\ v \in Pages
        BY <1>6, <4>1, Regions DEF Direct
      <4> QED BY <3>2, <4>1, <4>2
    <3> QED BY <3>3, <3>4
  <2> QED BY <2>1, <2>2 DEF Shaped
<1>8. Sound(m, D)
  BY <1>1, <1>5, <1>6, <1>7 DEF Sound
<1> QED BY <1>2, <1>3, <1>4, <1>8 DEF m

\* heap_init: the first pages of the heap get their frames.
LEMMA HeapStarts ==
  ASSUME NEW n \in ReservedCounts, NEW D, D = {}, NEW m, m = paging_init(n)
  PROVE  LET a == vmm_map_pages(m, HeapStart, HEAP_PAGES).m
             S == HeapStart..(HeapStart + HEAP_PAGES - 1) IN
         /\ Sound(a, D) /\ Within(m, a, S) /\ \A v \in S : KPage(a, v) # 0
         /\ Cardinality(a.used) <= n + HEAP_PAGES + 1
<1> DEFINE l == MapAll([ok |-> TRUE, m |-> m, done |-> 0], PagesFrom(HeapStart, HEAP_PAGES))
           S == HeapStart..(HeapStart + HEAP_PAGES - 1)
           r == vmm_map_pages(m, HeapStart, HEAP_PAGES)
<1>1. /\ Sound(m, D) /\ Cardinality(m.used) = n
      /\ \A v \in Loose : KPage(m, v) = 0
  BY PagingSound
<1>2. HeapStart \in Nat /\ HEAP_PAGES \in Nat /\ S \subseteq Loose /\ \A w \in S : Table(w) = Table(HeapStart)
  <2>1. \A w \in S : Table(w) = Table(HeapStart) /\ w < StacksStart
    BY Borders
  <2>2. \A w \in S : w \in BootPages..(NumPages - 1)
    BY <2>1, Layout
  <2> QED BY <2>1, <2>2, Layout DEF Loose
<1>3. Cardinality(m.used) + HEAP_PAGES + 1 <= NumFrames
  BY <1>1, BootCounts, Layout
<1>4. Mapped(m, D, HeapStart, HEAP_PAGES, l) /\ Filled(m, HeapStart, Table(HeapStart), HEAP_PAGES, l)
  BY <1>1, <1>2, <1>3, FilledLoop
<1>5. ToSet(PagesFrom(HeapStart, HEAP_PAGES)) = S
  BY <1>2, RunPages
<1>6. r = IF \E w \in ToSet(PagesFrom(HeapStart, HEAP_PAGES)) : KPage(m, w) # 0 THEN [ok |-> FALSE, m |-> m, done |-> 0]
          ELSE IF l.ok THEN l ELSE [l EXCEPT !.m = SkipAll(l.m, PagesFrom(HeapStart, l.done))]
  BY MapPagesLoop
<1> HIDE DEF l, r
<1>7. r = l
  BY <1>1, <1>2, <1>4, <1>5, <1>6 DEF Filled
<1>8. l.done = HEAP_PAGES /\ Sound(l.m, D) /\ Within(m, l.m, HeapStart..(HeapStart + l.done - 1))
  BY <1>4 DEF Mapped, Filled
<1>9. (\A v \in S : KPage(l.m, v) # 0) /\ Cardinality(l.m.used) <= Cardinality(m.used) + HEAP_PAGES + 1
  BY <1>4 DEF Filled
<1>10. Sound(r.m, D) /\ Within(m, r.m, S) /\ (\A v \in S : KPage(r.m, v) # 0) /\ Cardinality(r.m.used) <= n + HEAP_PAGES + 1
  BY <1>1, <1>7, <1>8, <1>9
<1> QED BY <1>10 DEF r

\* scheduler_start: the stack of idle gets its frames.
LEMMA IdleStarts ==
  ASSUME NEW a, NEW D, Sound(a, D), Cardinality(a.used) + StackPages + 1 <= NumFrames
  PROVE  LET z == scheduler_start(a).m
             S == StacksStart..(StacksStart + StackPages - 1) IN
         /\ Sound(z, D) /\ Within(a, z, S) /\ \A v \in S : KPage(z, v) # 0
<1> DEFINE l == MapAll([ok |-> TRUE, m |-> a, done |-> 0], PagesFrom(StacksStart, StackPages))
           S == StacksStart..(StacksStart + StackPages - 1)
<1>1. SlotPages(IdleSlot) = PagesFrom(StacksStart, StackPages)
  <2>1. SlotPages(IdleSlot) = PagesFrom(SlotStart(IdleSlot), StackPages)
    BY DEF SlotPages, SlotStart
  <2> QED BY <2>1, SlotLayout
<1>2. StacksStart \in Nat /\ StackPages \in Nat /\ S \subseteq Loose /\ \A w \in S : Table(w) = Table(StacksStart)
  <2>1. \A w \in S : Table(w) = Table(StacksStart)
    BY Borders
  <2>2. StacksStart + StackPages <= StacksEnd
    BY SlotLayout
  <2>3. \A w \in S : w \in BootPages..(NumPages - 1)
    BY <2>2, Layout
  <2> QED BY <2>1, <2>3, Layout DEF Loose
<1>3. Mapped(a, D, StacksStart, StackPages, l) /\ Filled(a, StacksStart, Table(StacksStart), StackPages, l)
  BY <1>2, FilledLoop
<1>4. scheduler_start(a) = l
  BY <1>1, Loops
<1> HIDE DEF l
<1>5. l.done = StackPages /\ Sound(l.m, D) /\ Within(a, l.m, StacksStart..(StacksStart + l.done - 1))
  BY <1>3 DEF Mapped, Filled
<1>6. \A v \in S : KPage(l.m, v) # 0
  BY <1>3 DEF Filled
<1> QED BY <1>4, <1>5, <1>6

\* The memory when the scheduler starts.
LEMMA Booted ==
  ASSUME NEW n \in ReservedCounts, NEW D, D = {}
  PROVE  LET z == scheduler_start(vmm_map_pages(paging_init(n), HeapStart, HEAP_PAGES).m).m IN
         /\ Sound(z, D) /\ OneTable(z)
         /\ \A v \in HeapStart..(HeapStart + HEAP_PAGES - 1) \union ToSet(SlotPages(IdleSlot)) : KPage(z, v) # 0
<1> DEFINE m == paging_init(n)
           a == vmm_map_pages(m, HeapStart, HEAP_PAGES).m
           z == scheduler_start(a).m
           H == HeapStart..(HeapStart + HEAP_PAGES - 1)
           I == StacksStart..(StacksStart + StackPages - 1)
<1>1. \A v \in Loose : KPage(m, v) = 0
  BY PagingSound
<1>2. /\ Sound(a, D) /\ Within(m, a, H) /\ \A v \in H : KPage(a, v) # 0
      /\ Cardinality(a.used) <= n + HEAP_PAGES + 1
  BY HeapStarts
<1>3. n \in Nat /\ n + (HEAP_PAGES + 1) + (StackPages + 1) <= NumFrames
  BY BootCounts
<1>4. Cardinality(a.used) \in Nat
  <2> HIDE DEF a
  <2>1. a \in Memory
    BY <1>2 DEF Sound
  <2>2. a.used \in SUBSET Frames
    BY <2>1, MemoryParts
  <2> QED BY <2>2, Regions, FS_Subset, FS_CardinalityType
<1> HIDE DEF m, a
<1>5. Cardinality(a.used) + StackPages + 1 <= NumFrames
  BY <1>2, <1>3, <1>4, Layout
<1>6. Sound(z, D) /\ Within(a, z, I) /\ \A v \in I : KPage(z, v) # 0
  BY <1>2, <1>5, IdleStarts
<1> HIDE DEF z
<1>7. ToSet(SlotPages(IdleSlot)) = I
  BY SlotLayout
<1>8. \A v \in H : v \in Pages /\ v \notin I /\ v < StacksStart
  BY Borders, Layout DEF Pages
<1>9. \A v \in H : KPage(z, v) # 0
  BY <1>2, <1>6, <1>8 DEF Within
<1>10. OneTable(z)
  <2> SUFFICES ASSUME NEW v \in StacksStart..(StacksEnd - 1), KTable(z, Table(v)) # 0
               PROVE  Table(v) = Table(StacksStart)
    BY DEF OneTable
  <2>1. v \in Pages /\ Table(v) \in Tables /\ v \in StacksStart..(NumPages - 1)
    BY Layout, LowPages
  <2>2. PICK w \in Pages : Table(w) = Table(v) /\ KPage(z, w) # 0
    BY <1>6, <2>1, SoundParts DEF Shaped
  <2>3. ~(w < StacksStart)
    <3>1. w < StacksStart => w \in 0..(StacksStart - 1)
      BY Regions, Layout
    <3> QED BY <2>1, <2>2, <3>1, Borders
  <2>4. w \in Loose /\ w \notin H
    <3>1. w \in BootPages..(NumPages - 1)
      BY <2>3, Layout DEF Pages
    <3> QED BY <1>8, <2>3, <3>1 DEF Loose
  <2>5. w \in I
    BY <1>1, <1>2, <1>6, <2>2, <2>4 DEF Within
  <2> QED BY <2>2, <2>5, Borders
<1> QED BY <1>6, <1>7, <1>9, <1>10 DEF m, a, z

\* Boot establishes the invariant.
LEMMA KernelStarts ==
  ASSUME KernelInit
  PROVE  KernelInv
<1>1. PICK n \in ReservedCounts : mem = scheduler_start(vmm_map_pages(paging_init(n), HeapStart, HEAP_PAGES).m).m
  BY DEF KernelInit
<1>2. /\ bitmap = vam_init /\ stack_bitmap = {IdleSlot} /\ heap_end = HeapStart + HEAP_PAGES
      /\ page_directory = [p \in Processes |-> 0] /\ kernel_stack = [t \in Threads |-> NoSlot]
      /\ cr3 = kernel_directory /\ runs = {} /\ halted = FALSE
  BY DEF KernelInit
<1>3. Directories = {}
  BY <1>2 DEF Directories
<1>4. \A t \in Threads : ~Live(t)
  BY <1>2 DEF Live
<1>5. /\ Sound(mem, Directories) /\ OneTable(mem)
      /\ \A v \in HeapStart..(HeapStart + HEAP_PAGES - 1) \union ToSet(SlotPages(IdleSlot)) : KPage(mem, v) # 0
  BY <1>1, <1>3, Booted
<1>6. kernel_directory \in Frames
  BY BootCounts
<1>7. KernelTypeOK
  <2>1. mem \in Memory
    BY <1>5 DEF Sound
  <2>2. bitmap \in SUBSET Pages
    <3>1. \A v \in 0..(BootPages - 1) : v \in Pages
      BY LowPages
    <3>2. ImagePages \subseteq 0..(BootPages - 1)
      BY KernelAssumption
    <3>3. \A v \in HeapStart..(StacksEnd - 1) : v \in Pages
      BY Layout DEF Pages
    <3> QED BY <1>2, <3>1, <3>2, <3>3 DEF vam_init
  <2>3. stack_bitmap \in SUBSET Slots
    BY <1>2, SlotLayout
  <2>4. heap_end \in HeapStart..StacksStart
    <3>1. HeapStart + HEAP_PAGES - 1 \in HeapStart..(HeapStart + HEAP_PAGES - 1)
      BY Layout
    <3>2. HeapStart + HEAP_PAGES - 1 < StacksStart
      BY <3>1, Borders
    <3> QED BY <1>2, <3>2, Layout
  <2>5. page_directory \in [Processes -> Frames \union {0}] /\ kernel_stack \in [Threads -> Slots \union {NoSlot}]
    BY <1>2
  <2>6. cr3 \in Frames /\ runs \in SUBSET (Pages \X RunLengths) /\ halted \in BOOLEAN
    BY <1>2, <1>6
  <2> QED BY <2>1, <2>2, <2>3, <2>4, <2>5, <2>6 DEF KernelTypeOK
<1>8. DirectoriesSound
  BY <1>2, <1>3, <1>4 DEF DirectoriesSound
<1>9. RunsSound /\ SlotsSound
  BY <1>2, <1>4 DEF RunsSound, SlotsSound
<1>10. Shared
  <2>1. Needed = HeapStart..(HeapStart + HEAP_PAGES - 1) \union ToSet(SlotPages(IdleSlot))
    <3>1. StacksOf(kernel_stack) = ToSet(SlotPages(IdleSlot))
      <4>1. {u \in Threads : kernel_stack[u] # NoSlot} = {}
        BY <1>2
      <4>2. {IdleSlot} \union {kernel_stack[t] : t \in {u \in Threads : kernel_stack[u] # NoSlot}} = {IdleSlot}
        BY <4>1
      <4> QED BY <4>2 DEF StacksOf
    <3> QED BY <1>2, <3>1, NeededParts, Layout
  <2>2. Directories \union {cr3} = {kernel_directory}
    BY <1>2, <1>3
  <2>3. Agree(mem, kernel_directory, StacksEnd)
    BY DEF Agree, KTable
  <2> QED BY <1>5, <2>1, <2>2, <2>3 DEF Shared, Shares
<1> QED BY <1>5, <1>7, <1>8, <1>9, <1>10 DEF KernelInv

----------------------------------------------------------------------------
(* The theorems.                                                           *)

\* The invariant holds in every reachable state: boot establishes it, and every
\* operation on the kernel half keeps it, with the paths on which frames run out.
THEOREM KernelInvariance == KernelSpec => []KernelInv
<1>1. KernelInit => KernelInv
  BY KernelStarts
<1>2. KernelInv /\ [KernelNext]_vars => KernelInv'
  <2> SUFFICES ASSUME KernelInv, [KernelNext]_vars PROVE KernelInv'
    OBVIOUS
  <2>1. CASE \E p \in Processes, grow \in 0..1 : process_create(p, grow)
    BY <2>1, StepCreateProcess
  <2>2. CASE \E t \in Threads, grow \in 0..1 : thread_create(t, grow)
    BY <2>2, StepCreateThread
  <2>3. CASE \E t \in Threads : thread_destroy(t)
    BY <2>3, StepDestroyThread
  <2>4. CASE \E t \in Threads : switch(t)
    BY <2>4, StepSwitch
  <2>5. CASE \E t \in Threads : exec(t)
    BY <2>5, StepExec
  <2>6. CASE expand
    BY <2>6, StepExpand
  <2>7. CASE \E n \in RunLengths : vmm_alloc_pages_any(n)
    BY <2>7, StepAllocPages
  <2>8. CASE \E r \in runs : vmm_free_pages(r)
    BY <2>8, StepFreePages
  <2>9. CASE UNCHANGED vars
    <3>1. UNCHANGED << mem, bitmap, stack_bitmap, heap_end, page_directory, kernel_stack, cr3, runs, halted >>
      BY <2>9 DEF vars
    <3>2. Directories' = Directories /\ Needed' = Needed /\ KernelTypeOK' = KernelTypeOK
      BY <3>1, Zenon DEF Directories, Needed, Live, KernelTypeOK
    <3>3. DirectoriesSound' = DirectoriesSound /\ RunsSound' = RunsSound /\ SlotsSound' = SlotsSound
      BY <3>1, <3>2, Zenon DEF DirectoriesSound, RunsSound, SlotsSound, Live, vam_init
    <3> QED BY <3>1, <3>2, <3>3 DEF KernelInv, Shared
  <2> QED BY <2>1, <2>2, <2>3, <2>4, <2>5, <2>6, <2>7, <2>8, <2>9 DEF KernelNext
<1> QED BY <1>1, <1>2, PTL DEF KernelSpec

\* Types: heap_end stays between the direct map and the stacks and every kernel
\* stack in its region, however often kmalloc, thread_create and exec run.
THEOREM KernelTypeCorrect == KernelSpec => []KernelTypeOK
<1>1. KernelInv => KernelTypeOK
  BY DEF KernelInv
<1> QED BY <1>1, KernelInvariance, PTL

\* The holders of frames, one kind at a time.
LEMMA HoldingKinds ==
  ASSUME NEW h \in Holdings
  PROVE  /\ h[3] # 0
         /\ \/ \E p \in Processes : h = << "dir", p, page_directory[p] >>
            \/ \E x \in Tables \ BootTables : h = << "table", x, KTable(mem, x) >>
            \/ \E v \in Loose : h = << "page", v, KPage(mem, v) >>
  BY DEF Holdings, Held, Loose, KTable, KPage

\* No frame has two uses and none is in use and free, for any number of frames:
\* the roll-backs of thread_create and vmm_map_pages and the frees of
\* thread_destroy, exec and paging_unmap hit exactly what is theirs.
THEOREM FramesExclusiveCorrect == KernelSpec => []FramesExclusive
<1>1. ASSUME KernelInv PROVE FramesExclusive
  <2>1. Sound(mem, Directories) /\ DirectoriesSound
    BY <1>1 DEF KernelInv
  <2>2. Owned(mem, Directories) /\ Directories \subseteq Frames \ BootFrames
    BY <2>1, SoundParts
  <2>3. \A p \in Processes : page_directory[p] # 0 => page_directory[p] \in Directories
    BY DEF Directories
  <2>4. ASSUME NEW h \in Holdings PROVE h[3] \in mem.used \ 1..kernel_directory
    <3>1. CASE \E p \in Processes : h = << "dir", p, page_directory[p] >>
      <4>1. h[3] \in Directories
        BY <2>3, <3>1, HoldingKinds
      <4> QED BY <2>2, <4>1 DEF Owned, BootFrames
    <3>2. CASE \E x \in Tables \ BootTables : h = << "table", x, KTable(mem, x) >>
      BY <2>2, <3>2, HoldingKinds DEF Owned, BootFrames
    <3>3. CASE \E v \in Loose : h = << "page", v, KPage(mem, v) >>
      BY <2>2, <3>3, HoldingKinds DEF Owned, BootFrames
    <3> QED BY <3>1, <3>2, <3>3, HoldingKinds
  <2>5. ASSUME NEW h \in Holdings, NEW g \in Holdings, h[3] = g[3] PROVE h = g
    <3>0. h[3] # 0 /\ g[3] # 0
      BY HoldingKinds
    <3>1. CASE \E p \in Processes : h = << "dir", p, page_directory[p] >>
      <4>1. PICK p \in Processes : h = << "dir", p, page_directory[p] >>
        BY <3>1
      <4>2. page_directory[p] # 0 /\ page_directory[p] \in Directories /\ g[3] = page_directory[p]
        BY <2>3, <2>5, <3>0, <4>1
      <4>3. PICK q \in Processes : g = << "dir", q, page_directory[q] >>
        BY <2>2, <3>0, <4>2, HoldingKinds DEF Owned
      <4>4. p = q
        BY <2>1, <4>2, <4>3 DEF DirectoriesSound
      <4> QED BY <4>1, <4>3, <4>4
    <3>2. CASE \E x \in Tables \ BootTables : h = << "table", x, KTable(mem, x) >>
      <4>1. PICK x \in Tables \ BootTables : h = << "table", x, KTable(mem, x) >>
        BY <3>2
      <4>2. KTable(mem, x) # 0 /\ KTable(mem, x) \notin Directories /\ g[3] = KTable(mem, x)
        BY <2>2, <2>5, <3>0, <4>1 DEF Owned
      <4>3. PICK y \in Tables \ BootTables : g = << "table", y, KTable(mem, y) >>
        BY <2>2, <2>3, <3>0, <4>2, HoldingKinds DEF Owned
      <4>4. x = y
        BY <2>2, <4>2, <4>3 DEF Owned
      <4> QED BY <4>1, <4>3, <4>4
    <3>3. CASE \E v \in Loose : h = << "page", v, KPage(mem, v) >>
      <4>1. PICK v \in Loose : h = << "page", v, KPage(mem, v) >>
        BY <3>3
      <4>2. KPage(mem, v) # 0 /\ KPage(mem, v) \notin Directories /\ g[3] = KPage(mem, v)
        BY <2>2, <2>5, <3>0, <4>1 DEF Owned
      <4>3. PICK w \in Loose : g = << "page", w, KPage(mem, w) >>
        BY <2>2, <2>3, <3>0, <4>2, HoldingKinds DEF Owned
      <4>4. v = w
        BY <2>2, <4>2, <4>3 DEF Owned
      <4> QED BY <4>1, <4>3, <4>4
    <3> QED BY <3>1, <3>2, <3>3, HoldingKinds
  <2> QED BY <2>4, <2>5 DEF FramesExclusive
<1> QED BY <1>1, KernelInvariance, PTL

\* What the CPU finds through a directory that has the kernel's table.
LEMMA SeenThrough ==
  ASSUME NEW m, NEW d, NEW v, m.tables[d][Table(v)] = KTable(m, Table(v))
  PROVE  Seen(m, d, v) = KPage(m, v)
  BY DEF Seen, KTable, KPage, paging_translate

\* As long as the kernel has not halted, the loaded directory and those of all
\* processes show the heap and every kernel stack, although their entries are
\* copies paging_create_directory took once and nothing renews.
THEOREM KernelVisibleCorrect == KernelSpec => []KernelVisible
<1>1. ASSUME KernelInv PROVE KernelVisible
  <2> SUFFICES ASSUME ~halted, NEW d \in Directories \union {cr3}, NEW v \in Needed
               PROVE  Seen(mem, d, v) # 0
    BY DEF KernelVisible
  <2>1. Shared /\ heap_end \in HeapStart..StacksStart /\ kernel_stack \in [Threads -> Slots \union {NoSlot}]
    BY <1>1 DEF KernelInv, KernelTypeOK
  <2>2. Agree(mem, d, StacksEnd) /\ KPage(mem, v) # 0
    BY <2>1 DEF Shared, Shares
  <2>3. v \in 0..(StacksEnd - 1)
    BY <2>1, NeededParts, NeededLow
  <2>4. mem.tables[d][Table(v)] = KTable(mem, Table(v))
    BY <2>2, <2>3 DEF Agree
  <2> QED BY <2>2, <2>4, SeenThrough
<1> QED BY <1>1, KernelInvariance, PTL

\* PHYS_TO_VIRT stays right: every directory maps every page of the direct map but
\* page 0 to its own frame, halted or not.
THEOREM DirectMapIntactCorrect == KernelSpec => []DirectMapIntact
<1>1. ASSUME KernelInv PROVE DirectMapIntact
  <2> SUFFICES ASSUME NEW v \in 1..(BootPages - 1), NEW d \in Directories \union {kernel_directory}
               PROVE  Seen(mem, d, v) = v
    BY DEF DirectMapIntact
  <2>1. Sound(mem, Directories) /\ DirectoriesSound
    BY <1>1 DEF KernelInv
  <2>2. KPage(mem, v) = v
    BY <2>1 DEF Sound, Direct
  <2>3. v \in 0..(BootPages - 1)
    BY Layout
  <2>4. mem.tables[d][Table(v)] = KTable(mem, Table(v))
    <3>1. CASE d = kernel_directory
      BY <3>1 DEF KTable
    <3>2. CASE d \in Directories
      BY <2>1, <2>3, <3>2 DEF DirectoriesSound, Agree
    <3> QED BY <3>1, <3>2
  <2> QED BY <2>2, <2>4, SeenThrough
<1> QED BY <1>1, KernelInvariance, PTL

=============================================================================
