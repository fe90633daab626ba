--------------------------- MODULE AllocatorProofs --------------------------
(***************************************************************************)
(* Proofs about the two allocators of the kernel.  Physical memory from boot  *)
(* on (BootMemory): for every memory map, every placement of the kernel, the  *)
(* boot information and the root file system, and any number of threads.      *)
(* The heap (Heap): for every size of pages, headers and requests, when its   *)
(* callers have disabled interrupts.                                       *)
(***************************************************************************)
EXTENDS BootMemory, Heap, FiniteSetTheorems, WellFoundedInduction, TLAPS

----------------------------------------------------------------------------
(* Physical memory.                                                        *)

\* The sizes are positive.
LEMMA BootSizes == PageSize \in Nat \ {0} /\ ByteBits \in Nat \ {0} /\ LowEnd \in Nat
  BY BootAssumption

----------------------------------------------------------------------------
(* Division.                                                               *)

\* The quotient that bitmap_set_range and its like compute, and what is left.
LEMMA Division ==
  ASSUME NEW a \in Nat, NEW d \in Nat \ {0}
  PROVE  /\ a \div d \in Nat /\ a % d \in 0..(d - 1)
         /\ a = d * (a \div d) + (a % d)
  OBVIOUS

\* What bounds a quotient from above and below.
LEMMA QuotientBounds ==
  ASSUME NEW a \in Nat, NEW d \in Nat \ {0}, NEW k \in Nat
  PROVE  /\ a < d * (k + 1) => a \div d <= k
         /\ d * k <= a => k <= a \div d
<1> DEFINE q == a \div d
<1>1. q \in Nat /\ d * q <= a /\ a < d * q + d
  BY Division
<1>2. d * (q + 1) = d * q + d
  OBVIOUS
<1>3. ASSUME a < d * (k + 1), k < q PROVE FALSE
  <2>1. q - (k + 1) \in Nat
    BY <1>1, <1>3
  <2>2. d * (q - (k + 1)) \in Nat
    BY <2>1
  <2>3. d * (q - (k + 1)) = d * q - d * (k + 1)
    BY <1>1
  <2> QED BY <1>1, <1>3, <2>2, <2>3
<1>4. ASSUME d * k <= a, q < k PROVE FALSE
  <2>1. k - (q + 1) \in Nat
    BY <1>1, <1>4
  <2>2. d * (k - (q + 1)) \in Nat
    BY <2>1
  <2>3. d * (k - (q + 1)) = d * k - d * (q + 1)
    BY <1>1
  <2> QED BY <1>1, <1>2, <1>4, <2>2, <2>3
<1> QED BY <1>1, <1>3, <1>4

\* A ceiling is a natural number, and large enough.
LEMMA CeilingBounds ==
  ASSUME NEW n \in Nat, NEW d \in Nat \ {0}
  PROVE  Ceiling(n, d) \in Nat /\ n <= Ceiling(n, d) * d
<1> DEFINE m == n + d - 1
           q == m \div d
<1>1. m \in Nat
  OBVIOUS
<1>2. q \in Nat /\ m % d \in 0..(d - 1) /\ m = d * q + (m % d)
  BY <1>1, Division
<1>3. n <= q * d
  BY <1>2
<1> QED BY <1>2, <1>3 DEF Ceiling

----------------------------------------------------------------------------
(* Finite sets of numbers.                                                 *)

\* A finite set of numbers has a least and a greatest element, so that Min and
\* Max name one.
LEMMA Extrema ==
  ASSUME NEW S \in SUBSET Nat, IsFiniteSet(S), S # {}
  PROVE  /\ Min(S) \in S /\ \A x \in S : Min(S) <= x
         /\ Max(S) \in S /\ \A x \in S : x <= Max(S)
<1> DEFINE Least(U) == \E x \in U : \A y \in U : x <= y
           Greatest(U) == \E x \in U : \A y \in U : x >= y
           Bad == {U \in FiniteSubsetsOf(S) : U # {} /\ ~(Least(U) /\ Greatest(U))}
<1>1. Bad = {}
  <2>1. SUFFICES ASSUME Bad # {} PROVE FALSE
    OBVIOUS
  <2>2. PICK U \in Bad : \A V \in Bad : << V, U >> \notin StrictSubsetOrdering(S)
    <3>1. Bad \subseteq FiniteSubsetsOf(S)
      OBVIOUS
    <3>2. IsWellFoundedOn(StrictSubsetOrdering(S), FiniteSubsetsOf(S))
      BY FS_StrictSubsetOrderingWellFounded
    <3> HIDE DEF Bad
    <3> QED BY <2>1, <3>1, <3>2, WFMin
  <2>3. U \subseteq S /\ U # {}
    BY DEF FiniteSubsetsOf
  <2>4. PICK x \in U : TRUE
    BY <2>3
  <2> DEFINE V == U \ {x}
  <2>5. V \in FiniteSubsetsOf(S) /\ << V, U >> \in StrictSubsetOrdering(S)
    <3>1. V \subseteq S /\ U \subseteq S /\ V # U /\ V \subseteq U
      BY <2>3, <2>4
    <3>2. IsFiniteSet(V)
      BY <3>1, FS_Subset
    <3> QED BY <3>1, <3>2 DEF FiniteSubsetsOf, StrictSubsetOrdering
  <2>6. V \notin Bad
    BY <2>2, <2>5
  <2>7. CASE V = {}
    <3>1. \A y \in U : y = x
      BY <2>7
    <3> QED BY <2>3, <2>4, <3>1
  <2>8. CASE V # {}
    <3>1. PICK m \in V : \A y \in V : m <= y
      BY <2>5, <2>6, <2>8
    <3>2. PICK g \in V : \A y \in V : g >= y
      BY <2>5, <2>6, <2>8
    <3>3. x \in Nat /\ m \in Nat /\ g \in Nat /\ m \in U /\ g \in U /\ \A y \in U : y \in Nat /\ (y \in V \/ y = x)
      BY <2>3, <2>4
    <3>4. Least(U)
      <4>1. CASE x <= m
        <5>1. \A y \in U : x <= y
          BY <3>1, <3>3, <4>1
        <5> QED BY <5>1
      <4>2. CASE m <= x
        <5>1. \A y \in U : m <= y
          BY <3>1, <3>3, <4>2
        <5> QED BY <5>1, <3>3
      <4> QED BY <3>3, <4>1, <4>2
    <3>5. Greatest(U)
      <4>1. CASE x >= g
        <5>1. \A y \in U : x >= y
          BY <3>2, <3>3, <4>1
        <5> QED BY <5>1
      <4>2. CASE g >= x
        <5>1. \A y \in U : g >= y
          BY <3>2, <3>3, <4>2
        <5> QED BY <5>1, <3>3
      <4> QED BY <3>3, <4>1, <4>2
    <3> QED BY <3>4, <3>5
  <2> QED BY <2>7, <2>8
<1>2. Least(S) /\ Greatest(S)
  <2>1. S \in FiniteSubsetsOf(S)
    BY DEF FiniteSubsetsOf
  <2> QED BY <1>1, <2>1
<1>3. Min(S) \in S /\ \A x \in S : Min(S) <= x
  BY <1>2, Zenon DEF Min
<1>4. Max(S) \in S /\ \A x \in S : Max(S) >= x
  BY <1>2, Zenon DEF Max
<1> QED BY <1>3, <1>4

----------------------------------------------------------------------------
(* What the boot loader hands over.                                        *)

\* multiboot2_memory_map finds a well-formed map when there is one.
LEMMA MapFound ==
  ASSUME boot \in Boots, HasMap
  PROVE  WellFormedMap(MemoryMap)
<1> DEFINE I == {i \in 1..Len(boot.tags) : boot.tags[i].type = "mmap"}
           n == SelectInSeq(boot.tags, LAMBDA t : t.type = "mmap")
<1>1. boot.tags \in Seq(Range(boot.tags))
  BY BootAssumption
<1>2. DOMAIN boot.tags = 1..Len(boot.tags) /\ Len(boot.tags) \in Nat
  BY <1>1
<1>3. I # {} /\ I \in SUBSET Nat
  BY <1>2 DEF HasMap
<1>4. IsFiniteSet(I)
  <2>1. IsFiniteSet(1..Len(boot.tags))
    BY <1>2, FS_Interval
  <2> QED BY <2>1, FS_Subset
<1>5. Min(I) \in I
  BY <1>3, <1>4, Extrema
<1>6. n = Min(I)
  BY <1>3, Zenon DEF SelectInSeq
<1>7. n \in DOMAIN boot.tags /\ boot.tags[n].type = "mmap"
  BY <1>2, <1>5, <1>6
<1> QED BY <1>7, BootAssumption DEF MemoryMap

\* The available ranges are finitely many ranges of addresses, so pmm_init finds
\* a highest address and a number of pages.
LEMMA PagesCounted ==
  ASSUME boot \in Boots, HasMap
  PROVE  /\ \A e \in Available : e.addr \in Nat /\ e.len \in Nat
         /\ TotalPages \in Nat
         /\ BitmapSize \in Nat
         /\ TotalPages <= BitmapSize * ByteBits
<1> DEFINE D == {j \in DOMAIN MemoryMap : MemoryMap[j].available}
           S == {e.addr + e.len : e \in Available}
           f == [j \in D |-> MemoryMap[j].addr + MemoryMap[j].len]
<1>1. WellFormedMap(MemoryMap)
  BY MapFound
<1>2. \A e \in Available : e.addr \in Nat /\ e.len \in Nat
  BY <1>1 DEF WellFormedMap, Available
<1>3. IsFiniteSet(D)
  <2>1. DOMAIN MemoryMap = 1..Len(MemoryMap) /\ Len(MemoryMap) \in Nat
    BY <1>1 DEF WellFormedMap
  <2>2. IsFiniteSet(1..Len(MemoryMap))
    BY <2>1, FS_Interval
  <2> QED BY <2>1, <2>2, FS_Subset
<1>4. IsFiniteSet(S)
  <2>1. \A j \in D : f[j] \in S
    BY DEF Available
  <2>2. \A x \in S : \E j \in D : f[j] = x
    BY DEF Available
  <2>3. f \in Surjection(D, S)
    BY <2>1, <2>2, Zenon DEF Surjection
  <2> QED BY <1>3, <2>3, FS_Surjection
<1>5. IsFiniteSet(S \union {0}) /\ S \union {0} \in SUBSET Nat
  BY <1>2, <1>4, FS_AddElement
<1>6. Max(S \union {0}) \in Nat
  <2>1. Max(S \union {0}) \in S \union {0}
    BY <1>5, Extrema
  <2> QED BY <1>5, <2>1
<1>7. TotalPages \in Nat
  BY <1>6, CeilingBounds, BootAssumption DEF TotalPages
<1>8. BitmapSize \in Nat /\ TotalPages <= BitmapSize * ByteBits
  BY <1>7, CeilingBounds, BootAssumption DEF BitmapSize
<1> QED BY <1>2, <1>7, <1>8

\* What pmm_init reserves are ranges of addresses.
LEMMA ReservedShape ==
  ASSUME boot \in Boots, HasMap, NEW r \in Reserved
  PROVE  r.addr \in Nat /\ r.len \in Nat
<1>1. CASE r \in RootModule
  <2> DEFINE I == {j \in 1..Len(boot.tags) : boot.tags[j].type = "module" /\ boot.tags[j].name = "rootfs"}
             i == SelectInSeq(boot.tags, LAMBDA t : t.type = "module" /\ t.name = "rootfs")
  <2>1. boot.tags \in Seq(Range(boot.tags))
    BY BootAssumption
  <2>2. DOMAIN boot.tags = 1..Len(boot.tags) /\ Len(boot.tags) \in Nat
    BY <2>1
  <2>3. i # 0 /\ r = [addr |-> boot.tags[i].start, len |-> boot.tags[i].end - boot.tags[i].start]
    BY <1>1 DEF RootModule
  <2>4. I # {} /\ i = Min(I)
    BY <2>3, Zenon DEF SelectInSeq
  <2>5. IsFiniteSet(I)
    <3>1. IsFiniteSet(1..Len(boot.tags))
      BY <2>2, FS_Interval
    <3> QED BY <3>1, FS_Subset
  <2>6. i \in I
    <3>1. I \in SUBSET Nat
      BY <2>2
    <3>2. Min(I) \in I
      BY <2>4, <2>5, <3>1, Extrema
    <3> QED BY <2>4, <3>2
  <2>7. boot.tags[i].start \in Nat /\ boot.tags[i].end \in Nat /\ boot.tags[i].start <= boot.tags[i].end
    BY <2>2, <2>6, BootAssumption
  <2> QED BY <2>3, <2>7
<1>2. CASE r = [addr |-> BitmapAddress, len |-> Ceiling(BitmapSize, PageSize) * PageSize]
  <2> DEFINE M == {boot.kernel_end, boot.info + boot.total_size}
  <2>1. boot.kernel_end \in Nat /\ boot.info + boot.total_size \in Nat
    BY BootAssumption
  <2>2. IsFiniteSet(M) /\ M \in SUBSET Nat
    <3>1. IsFiniteSet({boot.kernel_end})
      BY FS_Singleton
    <3>2. IsFiniteSet({boot.kernel_end} \union {boot.info + boot.total_size})
      BY <3>1, FS_AddElement
    <3>3. M = {boot.kernel_end} \union {boot.info + boot.total_size}
      OBVIOUS
    <3> QED BY <2>1, <3>2, <3>3
  <2>3. Max(M) \in Nat
    <3>1. Max(M) \in M
      BY <2>2, Extrema
    <3> QED BY <2>2, <3>1
  <2>4. BitmapAddress \in Nat
    BY <2>3, CeilingBounds, BootSizes DEF BitmapAddress
  <2>5. Ceiling(BitmapSize, PageSize) * PageSize \in Nat
    <3>1. BitmapSize \in Nat
      BY PagesCounted
    <3> QED BY <3>1, CeilingBounds, BootSizes
  <2> QED BY <1>2, <2>4, <2>5
<1>3. CASE r = [addr |-> 0, len |-> LowEnd]
  BY <1>3, BootSizes
<1>4. CASE r = [addr |-> LowEnd, len |-> boot.kernel_end - LowEnd]
  BY <1>4, BootAssumption
<1>5. CASE r = [addr |-> boot.info, len |-> boot.total_size]
  BY <1>5, BootAssumption
<1> QED BY <1>1, <1>2, <1>3, <1>4, <1>5 DEF Reserved

----------------------------------------------------------------------------
(* Ranges of the bitmap.                                                   *)

\* The pages of a range are page numbers.
LEMMA PagesAreNumbers ==
  ASSUME NEW addr \in Nat, NEW n \in Nat
  PROVE  PagesFrom(addr, n) \subseteq Nat
<1>1. addr \div PageSize \in Nat
  BY Division, BootSizes
<1> QED BY <1>1 DEF PagesFrom

\* bitmap_set_range sets every page that a range it covers touches.
LEMMA RangeSet ==
  ASSUME NEW r, r.addr \in Nat, r.len \in Nat, Covered(r)
  PROVE  Touched(r) \subseteq bitmap_set_range(r.addr, r.len)
<1> USE BootSizes
<1> DEFINE q == r.addr \div PageSize
           o == r.addr % PageSize
           c == Ceiling(r.len, PageSize)
           last == r.addr + r.len - 1
<1>1. SUFFICES ASSUME r.len # 0 PROVE Touched(r) \subseteq bitmap_set_range(r.addr, r.len)
  BY DEF Touched
<1>2. q \in Nat /\ o \in 0..(PageSize - 1) /\ r.addr = PageSize * q + o
  BY Division
<1>3. c \in Nat /\ r.len <= c * PageSize
  BY CeilingBounds
<1>4. c >= 1
  BY <1>1, <1>3
<1>5. /\ PageSize * (q + c) = PageSize * q + c * PageSize
      /\ c * PageSize = (c - 1) * PageSize + PageSize
      /\ PageSize * q \in Nat /\ c * PageSize \in Nat /\ (c - 1) * PageSize \in Nat
  <2> HIDE DEF q, c
  <2>1. c - 1 \in Nat
    BY <1>3, <1>4
  <2> QED BY <1>2, <1>3, <2>1
<1>6. last \in Nat /\ last < PageSize * (q + c)
  <2>1. CASE o = 0
    <3> HIDE DEF q, c, o
    <3> QED BY <1>1, <1>2, <1>3, <1>5, <2>1
  <2>2. CASE o + r.len <= PageSize
    <3> HIDE DEF q, c, o
    <3> QED BY <1>1, <1>2, <1>3, <1>5, <2>2
  <2> QED BY <2>1, <2>2 DEF Covered
<1>7. last \div PageSize <= q + c - 1
  <2>1. q + c - 1 \in Nat /\ (q + c - 1) + 1 = q + c
    BY <1>2, <1>3, <1>4
  <2>2. last < PageSize * ((q + c - 1) + 1)
    BY <1>6, <2>1
  <2> HIDE DEF last, q, c
  <2> QED BY <1>6, <2>1, <2>2, QuotientBounds
<1>8. last \div PageSize \in Nat
  BY <1>6, Division
<1> QED BY <1>1, <1>2, <1>3, <1>7, <1>8 DEF Touched, bitmap_set_range, PagesFrom

\* A page that bitmap_clear_range clears is memory to its last byte.
LEMMA RangeCleared ==
  ASSUME NEW addr \in Nat, NEW len \in Nat, NEW p \in bitmap_clear_range(addr, len)
  PROVE  /\ (p + 1) * PageSize <= addr + len
         /\ addr <= p * PageSize \/ p = addr \div PageSize
<1> USE BootSizes
<1> DEFINE q == addr \div PageSize
           l == len \div PageSize
<1>1. q \in Nat /\ addr >= PageSize * q /\ addr < PageSize * q + PageSize
  <2>1. q \in Nat /\ addr % PageSize \in 0..(PageSize - 1) /\ addr = PageSize * q + (addr % PageSize)
    BY Division
  <2> HIDE DEF q
  <2> QED BY <2>1
<1>2. l \in Nat /\ len >= PageSize * l
  <2>1. l \in Nat /\ len % PageSize \in 0..(PageSize - 1) /\ len = PageSize * l + (len % PageSize)
    BY Division
  <2> HIDE DEF l
  <2> QED BY <2>1
<1>3. p \in Nat /\ q <= p /\ p + 1 <= q + l
  BY <1>1, <1>2 DEF bitmap_clear_range, PagesFrom
<1> HIDE DEF q, l
<1>4. (p + 1) * PageSize <= PageSize * q + PageSize * l
  <2>1. (q + l - (p + 1)) * PageSize \in Nat
    <3>1. q + l - (p + 1) \in Nat
      BY <1>1, <1>2, <1>3
    <3> QED BY <3>1
  <2>2. (q + l - (p + 1)) * PageSize = PageSize * q + PageSize * l - (p + 1) * PageSize
    BY <1>1, <1>2, <1>3
  <2> QED BY <1>1, <1>2, <1>3, <2>1, <2>2
<1>5. CASE q < p
  <2>1. (p - (q + 1)) * PageSize \in Nat
    <3>1. p - (q + 1) \in Nat
      BY <1>1, <1>3, <1>5
    <3> QED BY <3>1
  <2>2. (p - (q + 1)) * PageSize = p * PageSize - PageSize * q - PageSize
    BY <1>1, <1>3
  <2>3. addr <= p * PageSize
    BY <1>1, <1>3, <2>1, <2>2
  <2>4. (p + 1) * PageSize <= addr + len
    BY <1>1, <1>2, <1>3, <1>4
  <2> QED BY <2>3, <2>4
<1>6. CASE q = p
  <2>1. (p + 1) * PageSize <= addr + len
    BY <1>1, <1>2, <1>3, <1>4
  <2> QED BY <1>6, <2>1 DEF q
<1> QED BY <1>1, <1>3, <1>5, <1>6

----------------------------------------------------------------------------
(* The inductive invariant.                                                *)

\* What pmm_init clears, and what it sets again.
Cleared == UNION {bitmap_clear_range(e.addr, e.len) : e \in Available}
Taken == UNION {bitmap_set_range(r.addr, r.len) : r \in Reserved}

Free == (0..(total_pages - 1)) \ used

\* Before pmm_init there are no pages, and without a memory map there never are.
NoPagesYet ==
  /\ phase \in {"reset", "booted"} => total_pages = 0
  /\ HasMap \/ total_pages = 0

\* A page that was given out is marked; every page that was or can be given out
\* was cleared and not set again.
FreeIsMemory ==
  /\ held \subseteq used
  /\ \A p \in held \union Free : p \in Cleared /\ p \notin Taken

\* BootTypeOK is not enough: what is held was free before, so that what is free
\* must be known to be memory, and it is so because pages only move between the
\* two after pmm_init.
BootInv == BootTypeOK /\ NoPagesYet /\ FreeIsMemory

\* The remainder by 2^32 of a counter that may go below zero.
LEMMA Remainder ==
  ASSUME NEW a \in Int, NEW d \in Nat \ {0}
  PROVE  a % d \in 0..(d - 1)
  OBVIOUS

\* The pages are finitely many.
LEMMA FreeFinite ==
  ASSUME total_pages \in Nat
  PROVE  IsFiniteSet(Free) /\ Free \in SUBSET Nat
<1>1. IsFiniteSet(0..(total_pages - 1))
  BY FS_Interval
<1> QED BY <1>1, FS_Subset DEF Free

\* The invariant holds before multiboot2_init.
LEMMA BootInvInit == BootInit => BootInv
<1> SUFFICES ASSUME BootInit PROVE BootInv
  OBVIOUS
<1> USE DEF BootInit
<1>1. 0..(total_pages - 1) = {} /\ Free = {}
  BY DEF Free
<1>2. Cardinality({}) = 0
  BY FS_EmptySet
<1>3. (0..(total_pages - 1)) \ used = {}
  BY <1>1
<1>4. BootTypeOK
  BY <1>1, <1>2, <1>3, BootAssumption DEF BootTypeOK
<1>5. NoPagesYet
  BY DEF NoPagesYet
<1>6. FreeIsMemory
  BY <1>1 DEF FreeIsMemory
<1> QED BY <1>4, <1>5, <1>6 DEF BootInv

\* What pmm_init computed from the boot information does not change with it.
LEMMA MemoryStays ==
  ASSUME boot' = boot
  PROVE  HasMap' = HasMap /\ Cleared' = Cleared /\ Taken' = Taken
<1>1. HasMap' = HasMap
  BY DEF HasMap
<1>2. MemoryMap' = MemoryMap
  BY DEF MemoryMap, SelectInSeq
<1>3. Available' = Available
  BY <1>2 DEF Available
<1>4. RootModule' = RootModule
  BY DEF RootModule, SelectInSeq
<1>5. TotalPages' = TotalPages
  BY <1>3 DEF TotalPages
<1>6. BitmapSize' = BitmapSize
  BY <1>5 DEF BitmapSize
<1>7. BitmapAddress' = BitmapAddress
  BY DEF BitmapAddress
<1>8. Reserved' = Reserved
  BY <1>4, <1>6, <1>7 DEF Reserved
<1>9. Cleared' = Cleared
  BY <1>3 DEF Cleared
<1>10. Taken' = Taken
  BY <1>8 DEF Taken
<1> QED BY <1>1, <1>9, <1>10

\* pmm_init establishes it: the bitmap it leaves has a clear bit only for memory
\* that nothing occupies.
LEMMA PmmInitStep == BootInv /\ pmm_init => BootInv'
<1> SUFFICES ASSUME BootInv, pmm_init PROVE BootInv'
  OBVIOUS
<1> USE DEF BootInv
<1>1. boot' = boot /\ pc' = pc /\ fail_allocations' = fail_allocations /\ held' = held /\ phase' = "running"
  BY DEF pmm_init
<1>2. held = {} /\ total_pages = 0
  <2>1. total_pages = 0 /\ held \subseteq 0..(total_pages - 1)
    BY DEF pmm_init, NoPagesYet, BootTypeOK
  <2> QED BY <2>1
<1>3. HasMap' = HasMap /\ Cleared' = Cleared /\ Taken' = Taken
  BY <1>1, MemoryStays
<1>4. CASE ~HasMap
  <2>1. used' = used /\ total_pages' = total_pages /\ free_pages' = free_pages
    BY <1>4 DEF pmm_init
  <2>2. Free' = Free
    BY <2>1, Zenon DEF Free
  <2>3. BootTypeOK'
    BY <1>1, <2>1 DEF BootTypeOK
  <2>4. NoPagesYet'
    BY <1>1, <1>2, <2>1 DEF NoPagesYet
  <2>5. FreeIsMemory'
    BY <1>1, <1>3, <2>1, <2>2 DEF FreeIsMemory
  <2> QED BY <2>3, <2>4, <2>5
<1>5. CASE HasMap
  <2> DEFINE all == 0..(BitmapSize * ByteBits - 1)
  <2>1. used' = (all \ Cleared) \union Taken /\ total_pages' = TotalPages
    BY <1>5 DEF pmm_init, Cleared, Taken
  <2>2. free_pages' = Cardinality((0..(total_pages' - 1)) \ used')
    BY <1>5 DEF pmm_init
  <2>3. boot \in Boots
    BY DEF BootTypeOK
  <2>4. TotalPages \in Nat /\ BitmapSize \in Nat /\ TotalPages <= BitmapSize * ByteBits
    BY <1>5, <2>3, PagesCounted
  <2>5. Taken \subseteq Nat
    <3> SUFFICES ASSUME NEW r \in Reserved PROVE bitmap_set_range(r.addr, r.len) \subseteq Nat
      BY DEF Taken
    <3>1. r.addr \in Nat /\ r.len \in Nat
      BY <1>5, <2>3, ReservedShape
    <3>2. Ceiling(r.len, PageSize) \in Nat
      BY <3>1, BootSizes, CeilingBounds
    <3> QED BY <3>1, <3>2, PagesAreNumbers DEF bitmap_set_range
  <2>6. all \subseteq Nat
    OBVIOUS
  <2>7. used' \subseteq Nat
    BY <2>1, <2>5, <2>6
  <2>8. BootTypeOK'
    BY <1>1, <1>2, <2>1, <2>2, <2>4, <2>7 DEF BootTypeOK
  <2>9. NoPagesYet'
    BY <1>1, <1>3, <1>5 DEF NoPagesYet
  <2>10. \A p \in Free' : p \in Cleared /\ p \notin Taken
    <3> SUFFICES ASSUME NEW p \in 0..(TotalPages - 1), p \notin used' PROVE p \in Cleared /\ p \notin Taken
      BY <2>1 DEF Free
    <3>1. BitmapSize * ByteBits \in Nat
      BY <2>4, BootSizes
    <3>2. p \in all
      BY <2>4, <3>1
    <3> QED BY <2>1, <3>2
  <2>11. FreeIsMemory'
    BY <1>1, <1>2, <1>3, <2>10 DEF FreeIsMemory
  <2> QED BY <2>8, <2>9, <2>11
<1> QED BY <1>4, <1>5

\* What the invariant says of the bitmap, as long as the step leaves the boot
\* information, the phase and the number of pages alone.
BitmapInv ==
  /\ used \subseteq Nat /\ held \subseteq 0..(total_pages - 1)
  /\ free_pages = Cardinality(Free)
  /\ FreeIsMemory

\* Steps of the allocator only have to keep BitmapInv.
LEMMA AllocatorStep ==
  ASSUME BootInv, boot' = boot, phase' = phase, total_pages' = total_pages,
         fail_allocations' \in 0..(Wrap - 1), pc' \in [Threads -> {"idle", "fail", "scan"}],
         BitmapInv'
  PROVE  BootInv'
<1>1. HasMap' = HasMap
  BY Zenon DEF HasMap
<1>2. NoPagesYet'
  BY <1>1 DEF BootInv, NoPagesYet
<1>3. BootTypeOK'
  BY DEF BootInv, BootTypeOK, BitmapInv, Free
<1> QED BY <1>2, <1>3 DEF BootInv, BitmapInv

\* pmm_alloc_page takes a free page that is memory, and counts it.
LEMMA ScanStep == ASSUME NEW t \in Threads PROVE BootInv /\ pmm_alloc_page_scan(t) => BootInv'
<1> SUFFICES ASSUME BootInv, pmm_alloc_page_scan(t) PROVE BootInv'
  OBVIOUS
<1> USE DEF BootInv
<1>1. /\ boot' = boot /\ phase' = phase /\ total_pages' = total_pages /\ fail_allocations' = fail_allocations
      /\ pc' \in [Threads -> {"idle", "fail", "scan"}] /\ fail_allocations \in 0..(Wrap - 1)
      /\ total_pages \in Nat /\ used \subseteq Nat /\ held \subseteq 0..(total_pages - 1)
      /\ free_pages = Cardinality(Free)
  BY DEF pmm_alloc_page_scan, BootTypeOK, Free
<1>2. Cleared' = Cleared /\ Taken' = Taken
  BY <1>1, MemoryStays
<1>3. CASE Free = {}
  <2>1. used' = used /\ held' = held /\ free_pages' = free_pages
    BY <1>3 DEF pmm_alloc_page_scan, Free
  <2>2. Free' = Free
    BY <1>1, <2>1, Zenon DEF Free
  <2>3. BitmapInv'
    BY <1>1, <1>2, <2>1, <2>2 DEF BitmapInv, FreeIsMemory
  <2> QED BY <1>1, <2>3, AllocatorStep
<1>4. CASE Free # {}
  <2> DEFINE p == Min(Free)
  <2>1. used' = used \union {p} /\ held' = held \union {p} /\ free_pages' = free_pages - 1
    BY <1>4 DEF pmm_alloc_page_scan, Free
  <2>2. p \in Free
    BY <1>1, <1>4, FreeFinite, Extrema
  <2>3. p \in 0..(total_pages - 1) /\ p \notin used
    BY <2>2 DEF Free
  <2>4. Free' = Free \ {p}
    BY <1>1, <2>1 DEF Free
  <2>5. Cardinality(Free \ {p}) = Cardinality(Free) - 1
    BY <1>1, <2>2, FreeFinite, FS_RemoveElement
  <2>6. free_pages' = Cardinality(Free')
    BY <1>1, <2>1, <2>4, <2>5
  <2>7. FreeIsMemory'
    BY <1>2, <2>1, <2>2, <2>4 DEF FreeIsMemory
  <2> HIDE DEF p
  <2>8. used' \subseteq Nat /\ held' \subseteq 0..(total_pages - 1)
    BY <1>1, <2>1, <2>3
  <2>9. BitmapInv'
    BY <1>1, <2>6, <2>7, <2>8 DEF BitmapInv
  <2> QED BY <1>1, <2>9, AllocatorStep
<1> QED BY <1>3, <1>4

\* pmm_free_page gives a page back once: the second free finds its bit clear.
LEMMA FreeStep == ASSUME NEW page \in Returnable PROVE BootInv /\ pmm_free_page(page) => BootInv'
<1> SUFFICES ASSUME BootInv, pmm_free_page(page) PROVE BootInv'
  OBVIOUS
<1> USE DEF BootInv
<1>1. /\ boot' = boot /\ phase' = phase /\ total_pages' = total_pages /\ fail_allocations' = fail_allocations
      /\ pc' \in [Threads -> {"idle", "fail", "scan"}] /\ fail_allocations \in 0..(Wrap - 1)
      /\ total_pages \in Nat /\ used \subseteq Nat /\ held \subseteq 0..(total_pages - 1)
      /\ free_pages = Cardinality(Free)
  BY DEF pmm_free_page, BootTypeOK, Free
<1>2. Cleared' = Cleared /\ Taken' = Taken
  BY <1>1, MemoryStays
<1>3. CASE ~Freeable(page)
  <2>1. used' = used /\ held' = held /\ free_pages' = free_pages
    BY <1>3 DEF pmm_free_page
  <2>2. Free' = Free
    BY <1>1, <2>1, Zenon DEF Free
  <2>3. BitmapInv'
    BY <1>1, <1>2, <2>1, <2>2 DEF BitmapInv, FreeIsMemory
  <2> QED BY <1>1, <2>3, AllocatorStep
<1>4. CASE Freeable(page)
  <2>1. used' = used \ {page} /\ held' = held \ {page} /\ free_pages' = free_pages + 1
    BY <1>4 DEF pmm_free_page
  <2>2. page \in held
    BY <1>4 DEF Returnable, Freeable
  <2>3. page \in 0..(total_pages - 1) /\ page \in used
    BY <1>1, <1>4, <2>2 DEF Freeable
  <2>4. Free' = Free \union {page} /\ page \notin Free
    BY <1>1, <2>1, <2>3 DEF Free
  <2>5. Cardinality(Free \union {page}) = Cardinality(Free) + 1
    BY <1>1, <2>4, FreeFinite, FS_AddElement
  <2>6. free_pages' = Cardinality(Free')
    BY <1>1, <2>1, <2>4, <2>5
  <2>7. FreeIsMemory'
    BY <1>2, <2>1, <2>2, <2>4 DEF FreeIsMemory
  <2>8. used' \subseteq Nat /\ held' \subseteq 0..(total_pages - 1)
    BY <1>1, <2>1
  <2>9. BitmapInv'
    BY <1>1, <2>6, <2>7, <2>8 DEF BitmapInv
  <2> QED BY <1>1, <2>9, AllocatorStep
<1> QED BY <1>3, <1>4

\* The other steps leave the bitmap alone.
LEMMA BitmapUntouched ==
  ASSUME BootInv, boot' = boot, used' = used, held' = held, total_pages' = total_pages, free_pages' = free_pages
  PROVE  BitmapInv'
<1>1. Free' = Free /\ Cleared' = Cleared /\ Taken' = Taken
  BY MemoryStays, Zenon DEF Free
<1> QED BY <1>1 DEF BootInv, BootTypeOK, BitmapInv, FreeIsMemory, Free

\* Every step preserves the invariant.
LEMMA BootInvNext == BootInv /\ [BootNext]_vars => BootInv'
<1> SUFFICES ASSUME BootInv, [BootNext]_vars PROVE BootInv'
  OBVIOUS
<1>1. ASSUME multiboot2_init PROVE BootInv'
  <2>1. /\ boot' = boot /\ used' = used /\ total_pages' = total_pages /\ free_pages' = free_pages
        /\ fail_allocations' = fail_allocations /\ pc' = pc /\ held' = held
        /\ phase = "reset" /\ phase' \in {"booted", "halted"}
    BY <1>1 DEF multiboot2_init
  <2>2. BitmapInv'
    BY <2>1, BitmapUntouched
  <2>3. HasMap' = HasMap
    BY <2>1, Zenon DEF HasMap
  <2>4. NoPagesYet'
    BY <2>1, <2>3 DEF BootInv, NoPagesYet
  <2>5. BootTypeOK'
    BY <2>1 DEF BootInv, BootTypeOK
  <2> QED BY <2>2, <2>4, <2>5 DEF BootInv, BitmapInv
<1>2. ASSUME NEW n \in 0..(Wrap - 1), pmm_fail_next_allocations(n) PROVE BootInv'
  <2>1. BitmapInv'
    BY <1>2, BitmapUntouched DEF pmm_fail_next_allocations
  <2> QED BY <1>2, <2>1, AllocatorStep DEF pmm_fail_next_allocations, BootInv, BootTypeOK
<1>3. ASSUME NEW t \in Threads, pmm_alloc_page(t) PROVE BootInv'
  <2>1. BitmapInv'
    BY <1>3, BitmapUntouched DEF pmm_alloc_page
  <2>2. pc' \in [Threads -> {"idle", "fail", "scan"}]
    BY <1>3 DEF pmm_alloc_page, BootInv, BootTypeOK
  <2> QED BY <1>3, <2>1, <2>2, AllocatorStep DEF pmm_alloc_page, BootInv, BootTypeOK
<1>4. ASSUME NEW t \in Threads, pmm_alloc_page_fail(t) PROVE BootInv'
  <2>1. BitmapInv'
    BY <1>4, BitmapUntouched DEF pmm_alloc_page_fail
  <2>2. pc' \in [Threads -> {"idle", "fail", "scan"}]
    BY <1>4 DEF pmm_alloc_page_fail, BootInv, BootTypeOK
  <2>3. fail_allocations' \in 0..(Wrap - 1)
    <3>1. fail_allocations - 1 \in Int /\ Wrap \in Nat \ {0}
      BY BootAssumption DEF BootInv, BootTypeOK
    <3>2. (fail_allocations - 1) % Wrap \in 0..(Wrap - 1)
      BY <3>1, Remainder
    <3> QED BY <1>4, <3>2 DEF pmm_alloc_page_fail
  <2> QED BY <1>4, <2>1, <2>2, <2>3, AllocatorStep DEF pmm_alloc_page_fail
<1>5. CASE UNCHANGED vars
  <2>1. BitmapInv'
    BY <1>5, BitmapUntouched DEF vars
  <2> QED BY <1>5, <2>1, AllocatorStep DEF vars, BootInv, BootTypeOK
<1> QED BY <1>1, <1>2, <1>3, <1>4, <1>5, PmmInitStep, ScanStep, FreeStep DEF BootNext

----------------------------------------------------------------------------
(* The theorems.                                                           *)

\* The inductive invariant holds in every reachable state, whatever the boot
\* loader handed over.
THEOREM BootInvariance == BootSpec => []BootInv
  BY BootInvInit, BootInvNext, PTL DEF BootSpec

\* free_pages is the number of clear bits at all times: pmm_free_page counts a
\* page once however often it is freed, pmm_alloc_page never counts below zero.
THEOREM BootTypeCorrect == BootSpec => []BootTypeOK
<1>1. BootInv => BootTypeOK
  BY DEF BootInv
<1> QED BY <1>1, BootInvariance, PTL

\* What the kernel reserved stays reserved: no page that bitmap_set_range was
\* meant to set is ever returned by pmm_alloc_page.
THEOREM ReservedKeptCorrect == BootSpec => []ReservedKept
<1>1. BootInv => ReservedKept
  <2> SUFFICES ASSUME BootInv, HasMap, NEW r \in Reserved, Covered(r)
               PROVE  Touched(r) \intersect held = {}
    BY DEF ReservedKept
  <2>1. r.addr \in Nat /\ r.len \in Nat
    BY ReservedShape DEF BootInv, BootTypeOK
  <2>2. Touched(r) \subseteq bitmap_set_range(r.addr, r.len)
    BY <2>1, RangeSet
  <2>3. bitmap_set_range(r.addr, r.len) \subseteq Taken
    BY DEF Taken
  <2> QED BY <2>2, <2>3 DEF BootInv, FreeIsMemory
<1> QED BY <1>1, BootInvariance, PTL

\* Every page that pmm_alloc_page gives out is marked, and is memory.
THEOREM HeldIsMemoryCorrect == BootSpec => []HeldIsMemory
<1>1. BootInv => HeldIsMemory
  <2> SUFFICES ASSUME BootInv, NEW p \in held
               PROVE  /\ p \in used
                      /\ \E e \in Available :
                           /\ (p + 1) * PageSize <= e.addr + e.len
                           /\ e.addr <= p * PageSize \/ p = e.addr \div PageSize
    BY DEF HeldIsMemory
  <2>1. p \in used /\ p \in Cleared
    BY DEF BootInv, FreeIsMemory
  <2>2. HasMap
    BY DEF BootInv, BootTypeOK, NoPagesYet
  <2>3. PICK e \in Available : p \in bitmap_clear_range(e.addr, e.len)
    BY <2>1 DEF Cleared
  <2>4. e.addr \in Nat /\ e.len \in Nat
    BY <2>2, PagesCounted DEF BootInv, BootTypeOK
  <2>5. /\ (p + 1) * PageSize <= e.addr + e.len
        /\ e.addr <= p * PageSize \/ p = e.addr \div PageSize
    BY <2>3, <2>4, RangeCleared
  <2> QED BY <2>1, <2>5
<1> QED BY <1>1, BootInvariance, PTL

----------------------------------------------------------------------------
(* The heap.                                                               *)

\* The sizes are numbers, and a page has room for a header.
LEMMA HeapSizes ==
  /\ ALIGNMENT \in Nat \ {0} /\ HEADER \in Nat /\ PAGE \in Nat /\ MaxPages \in Nat \ {0}
  /\ HEADER < PAGE
  BY HeapAssumption

----------------------------------------------------------------------------
(* Multiples of ALIGNMENT.                                                 *)

\* A number is its quotient and its remainder.
LEMMA IntDivision ==
  ASSUME NEW a \in Int, NEW d \in Nat \ {0}
  PROVE  /\ a \div d \in Int /\ a % d \in 0..(d - 1)
         /\ a = d * (a \div d) + (a % d)
  OBVIOUS

\* A multiple leaves no remainder.
LEMMA Multiple ==
  ASSUME NEW k \in Int, NEW d \in Nat \ {0}
  PROVE  (d * k) % d = 0
<1> DEFINE x == d * k
           q == x \div d
           r == x % d
<1>1. x \in Int
  OBVIOUS
<1>2. q \in Int /\ r \in 0..(d - 1) /\ x = d * q + r
  BY <1>1, IntDivision
<1>3. d * (k - q) = r
  <2> HIDE DEF q, r
  <2>1. d * (k - q) = d * k - d * q
    BY <1>2
  <2> QED BY <1>2, <2>1
<1> HIDE DEF q, r
<1>4. CASE k - q >= 1
  <2>1. d * (k - q) = d * (k - q - 1) + d
    BY <1>2
  <2>2. k - q - 1 \in Nat
    BY <1>2, <1>4
  <2>3. d * (k - q - 1) >= 0
    BY <2>2
  <2> QED BY <1>2, <1>3, <2>1, <2>3
<1>5. CASE k - q <= -1
  <2>1. d * (k - q) = -(d * (q - k - 1)) - d
    BY <1>2
  <2>2. q - k - 1 \in Nat
    BY <1>2, <1>5
  <2>3. d * (q - k - 1) >= 0
    BY <2>2
  <2> QED BY <1>2, <1>3, <2>1, <2>3
<1>6. CASE k = q
  BY <1>2, <1>3, <1>6 DEF r
<1> QED BY <1>2, <1>4, <1>5, <1>6

\* Sums and differences of aligned sizes are aligned.
LEMMA AlignedSum ==
  ASSUME NEW a \in Int, NEW b \in Int, NEW d \in Nat \ {0}, a % d = 0, b % d = 0
  PROVE  (a + b) % d = 0 /\ (a - b) % d = 0
<1> DEFINE p == a \div d
           q == b \div d
<1>1. p \in Int /\ q \in Int /\ a = d * p /\ b = d * q
  BY IntDivision
<1> HIDE DEF p, q
<1>2. a + b = d * (p + q) /\ a - b = d * (p - q)
  BY <1>1
<1> QED BY <1>1, <1>2, Multiple

\* heap_align returns 0, or the next multiple of the alignment.
LEMMA AlignUp ==
  ASSUME NEW n \in Nat, heap_align(n) # 0
  PROVE  /\ heap_align(n) \in Nat \ {0} /\ heap_align(n) % ALIGNMENT = 0
         /\ n <= heap_align(n) /\ heap_align(n) < n + ALIGNMENT
<1> USE HeapSizes
<1> DEFINE m == n + ALIGNMENT - 1
           q == m \div ALIGNMENT
<1>1. m \in Int
  OBVIOUS
<1>2. q \in Int /\ m % ALIGNMENT \in 0..(ALIGNMENT - 1) /\ m = ALIGNMENT * q + (m % ALIGNMENT)
  BY <1>1, IntDivision
<1>3. heap_align(n) = q * ALIGNMENT
  BY DEF heap_align
<1> HIDE DEF q
<1>4. heap_align(n) = ALIGNMENT * q
  BY <1>2, <1>3
<1>5. heap_align(n) % ALIGNMENT = 0
  BY <1>2, <1>4, Multiple
<1> QED BY <1>2, <1>4, <1>5

----------------------------------------------------------------------------
(* Finite sets of numbers.                                                 *)

\* The list of blocks is finite.
LEMMA AddressesFinite ==
  ASSUME NEW S \in SUBSET Addresses
  PROVE  IsFiniteSet(S) /\ S \in SUBSET Nat
<1>1. MaxPages * PAGE \in Nat
  BY HeapSizes
<1>2. IsFiniteSet(0..(MaxPages * PAGE))
  BY <1>1, FS_Interval
<1>3. S \subseteq 0..(MaxPages * PAGE)
  BY DEF Addresses, HEAP_START
<1>4. 0..(MaxPages * PAGE) \subseteq Nat
  BY <1>1
<1>5. IsFiniteSet(S)
  BY <1>2, <1>3, FS_Subset
<1> QED BY <1>3, <1>4, <1>5

----------------------------------------------------------------------------
(* Sums over at most two blocks: heap_merge never joins more at once.          *)

\* The headers and data of a set of blocks.
Total(sz, S) == MapThenSumSet(LAMBDA b : HEADER + sz[b], S)

\* The function that the sum is defined by.
IsTotal(f, sz, S) ==
  f = [s \in SUBSET S |-> IF s = {} THEN 0
                          ELSE (HEADER + sz[CHOOSE x \in s : TRUE]) + f[s \ {CHOOSE x \in s : TRUE}]]

\* A sum is the value of any such function, when there is one.
LEMMA TotalDef ==
  ASSUME NEW sz, NEW S, NEW g, IsTotal(g, sz, S)
  PROVE  \E f : IsTotal(f, sz, S) /\ Total(sz, S) = f[S]
<1>1. Total(sz, S) = (CHOOSE f : IsTotal(f, sz, S))[S]
  BY Zenon DEF Total, IsTotal, MapThenSumSet, MapThenFoldSet
<1>2. IsTotal(CHOOSE f : IsTotal(f, sz, S), sz, S)
  BY Zenon
<1> QED BY <1>1, <1>2, Zenon

\* Nothing to add.
LEMMA TotalNone == ASSUME NEW sz PROVE Total(sz, {}) = 0
<1> DEFINE g == [s \in SUBSET {} |-> 0]
<1>1. IsTotal(g, sz, {})
  BY DEF IsTotal
<1>2. \A f : IsTotal(f, sz, {}) => f[{}] = 0
  BY DEF IsTotal
<1> QED BY <1>1, <1>2, TotalDef

\* One block.
LEMMA TotalOne ==
  ASSUME NEW sz, NEW x, sz[x] \in Nat
  PROVE  Total(sz, {x}) = HEADER + sz[x]
<1> DEFINE g == [s \in SUBSET {x} |-> IF s = {} THEN 0 ELSE HEADER + sz[x]]
<1>1. IsTotal(g, sz, {x})
  <2> SUFFICES ASSUME NEW s \in SUBSET {x}
               PROVE  g[s] = IF s = {} THEN 0
                             ELSE (HEADER + sz[CHOOSE z \in s : TRUE]) + g[s \ {CHOOSE z \in s : TRUE}]
    BY DEF IsTotal
  <2>1. CASE s = {}
    BY <2>1
  <2>2. CASE s = {x}
    <3>1. (CHOOSE z \in s : TRUE) = x
      BY <2>2
    <3>2. s \ {x} = {} /\ s # {}
      BY <2>2
    <3>3. {} \in SUBSET {x} /\ {x} \in SUBSET {x} /\ {x} # {}
      OBVIOUS
    <3>4. g[{}] = 0 /\ g[s] = HEADER + sz[x]
      BY <3>3, <2>2
    <3> HIDE DEF g
    <3>5. (HEADER + sz[x]) + 0 = HEADER + sz[x]
      BY HeapSizes
    <3> QED BY <3>1, <3>2, <3>4, <3>5, Zenon
  <2> QED BY <2>1, <2>2
<1>2. ASSUME NEW f, IsTotal(f, sz, {x}) PROVE f[{x}] = HEADER + sz[x]
  <2>1. f[{}] = 0
    BY <1>2 DEF IsTotal
  <2>2. (CHOOSE z \in {x} : TRUE) = x /\ {x} \ {x} = {}
    OBVIOUS
  <2>3. f[{x}] = (HEADER + sz[CHOOSE z \in {x} : TRUE]) + f[{x} \ {CHOOSE z \in {x} : TRUE}]
    BY <1>2 DEF IsTotal
  <2>4. f[{x}] = (HEADER + sz[x]) + 0
    BY <2>1, <2>2, <2>3, Zenon
  <2> QED BY <2>4, HeapSizes
<1> QED BY <1>1, <1>2, TotalDef

\* Two blocks.
LEMMA TotalTwo ==
  ASSUME NEW sz, NEW x, NEW y, x # y, sz[x] \in Nat, sz[y] \in Nat
  PROVE  Total(sz, {x, y}) = (HEADER + sz[x]) + (HEADER + sz[y])
<1> DEFINE S == {x, y}
           g == [s \in SUBSET S |-> IF s = {} THEN 0 ELSE IF s = {x} THEN HEADER + sz[x]
                                   ELSE IF s = {y} THEN HEADER + sz[y]
                                   ELSE (HEADER + sz[x]) + (HEADER + sz[y])]
           c == CHOOSE z \in S : TRUE
<1>1. {} \in SUBSET S /\ {x} \in SUBSET S /\ {y} \in SUBSET S /\ S \in SUBSET S
  OBVIOUS
<1>2. {x} # {} /\ {y} # {} /\ S # {} /\ {x} # {y} /\ S # {x} /\ S # {y}
  OBVIOUS
<1>3. (CHOOSE z \in {x} : TRUE) = x /\ (CHOOSE z \in {y} : TRUE) = y
  OBVIOUS
<1>4. {x} \ {x} = {} /\ {y} \ {y} = {} /\ S \ {x} = {y} /\ S \ {y} = {x}
  OBVIOUS
<1>5. c = x \/ c = y
  <2>1. c \in S
    BY <1>2, Zenon
  <2> QED BY <2>1
<1>6. /\ (HEADER + sz[x]) + 0 = HEADER + sz[x] /\ (HEADER + sz[y]) + 0 = HEADER + sz[y]
      /\ (HEADER + sz[x]) + (HEADER + sz[y]) = (HEADER + sz[y]) + (HEADER + sz[x])
  BY HeapSizes
<1>7. IsTotal(g, sz, S)
  <2> SUFFICES ASSUME NEW s \in SUBSET S
               PROVE  g[s] = IF s = {} THEN 0
                             ELSE (HEADER + sz[CHOOSE z \in s : TRUE]) + g[s \ {CHOOSE z \in s : TRUE}]
    BY DEF IsTotal
  <2>1. /\ g[{}] = 0 /\ g[{x}] = HEADER + sz[x] /\ g[{y}] = HEADER + sz[y]
        /\ g[S] = (HEADER + sz[x]) + (HEADER + sz[y])
    <3> HIDE DEF S
    <3> QED BY <1>1, <1>2, Zenon
  <2>2. s = {} \/ s = {x} \/ s = {y} \/ s = S
    OBVIOUS
  <2> HIDE DEF g, S
  <2>3. CASE s = {}
    BY <2>1, <2>3
  <2>4. CASE s = {x}
    BY <1>2, <1>3, <1>4, <1>6, <2>1, <2>4, Zenon
  <2>5. CASE s = {y}
    BY <1>2, <1>3, <1>4, <1>6, <2>1, <2>5, Zenon
  <2>6. CASE s = S /\ c = x
    <3>1. (CHOOSE z \in s : TRUE) = x /\ s # {}
      BY <1>2, <2>6
    <3>2. g[s] = (HEADER + sz[x]) + g[s \ {x}]
      BY <1>4, <2>1, <2>6
    <3> QED BY <3>1, <3>2, Zenon
  <2>7. CASE s = S /\ c = y
    <3>1. (CHOOSE z \in s : TRUE) = y /\ s # {}
      BY <1>2, <2>7
    <3>2. g[s] = (HEADER + sz[y]) + g[s \ {y}]
      BY <1>4, <1>6, <2>1, <2>7
    <3> QED BY <3>1, <3>2, Zenon
  <2> QED BY <1>5, <2>2, <2>3, <2>4, <2>5, <2>6, <2>7
<1>8. ASSUME NEW f, IsTotal(f, sz, S) PROVE f[S] = (HEADER + sz[x]) + (HEADER + sz[y])
  <2> HIDE DEF S
  <2>1. \A s \in SUBSET S : f[s] = IF s = {} THEN 0
                             ELSE (HEADER + sz[CHOOSE z \in s : TRUE]) + f[s \ {CHOOSE z \in s : TRUE}]
    BY <1>8 DEF IsTotal
  <2>2. f[{}] = 0
    BY <1>1, <2>1, Zenon
  <2>3. f[{x}] = HEADER + sz[x]
    BY <1>1, <1>2, <1>3, <1>4, <1>6, <2>1, <2>2, Zenon
  <2>4. f[{y}] = HEADER + sz[y]
    BY <1>1, <1>2, <1>3, <1>4, <1>6, <2>1, <2>2, Zenon
  <2>5. f[S] = (HEADER + sz[c]) + f[S \ {c}]
    BY <1>1, <1>2, <2>1, Zenon
  <2>6. CASE c = x
    BY <1>4, <2>4, <2>5, <2>6, Zenon
  <2>7. CASE c = y
    BY <1>4, <1>6, <2>3, <2>5, <2>7, Zenon
  <2> QED BY <1>5, <2>6, <2>7
<1> QED BY <1>7, <1>8, TotalDef

----------------------------------------------------------------------------
(* Blocks that tile the heap, and what heap_merge makes of them.               *)

EndOf(sz, a) == a + HEADER + sz[a]

\* The blocks bs with sizes sz cover the heap up to end without gaps.
Tiling(bs, sz, end) ==
  /\ bs \in SUBSET Addresses /\ end \in Addresses /\ HEAP_START \in bs
  /\ \A a \in bs : sz[a] \in Addresses \ {0} /\ a < end /\ EndOf(sz, a) \in bs \union {end}
  /\ \A a, b \in bs : a < b => EndOf(sz, a) <= b

\* The parts of heap_merge.
Prev(bs, a) == Max({p \in bs : p < a})
Kept(bs, fr) == {a \in bs : a = Min(bs) \/ ~fr[a] \/ ~fr[Prev(bs, a)]}
Run(bs, fr, a) == {b \in bs : a < b /\ ~\E c \in Kept(bs, fr) : a < c /\ c <= b}
NewSize(bs, sz, fr, a) == sz[a] + Total(sz, Run(bs, fr, a))

\* heap_merge in these terms, when nobody points at a block.
LEMMA MergeEffect ==
  ASSUME NEW bs, NEW sz, NEW fr, NEW end, heap_merge(bs, sz, fr, end),
         \A t \in Callers : heap_pc[t] \notin {"split", "take"}
  PROVE  /\ blocks' = Kept(bs, fr)
         /\ size' = [a \in Addresses |-> IF a \in Kept(bs, fr) THEN NewSize(bs, sz, fr, a) ELSE 0]
         /\ free' = [a \in Addresses |-> a \in Kept(bs, fr) /\ fr[a]]
         /\ heap_end' = end
<1> DEFINE inUse == {block[t] : t \in {u \in Callers : heap_pc[u] \in {"split", "take"}}}
<1>1. inUse = {}
  OBVIOUS
<1>2. /\ blocks' = Kept(bs, fr)
      /\ size' = [a \in Addresses |-> IF a \in Kept(bs, fr) THEN NewSize(bs, sz, fr, a)
                                       ELSE IF a \in inUse THEN sz[a] ELSE 0]
      /\ free' = [a \in Addresses |-> a \in Kept(bs, fr) \union inUse /\ fr[a]]
      /\ heap_end' = end
  BY Zenon DEF heap_merge, Kept, Prev, Run, NewSize, Total
<1> HIDE DEF inUse
<1>3. Kept(bs, fr) \union inUse = Kept(bs, fr) /\ \A a : a \notin inUse
  BY <1>1
<1> QED BY <1>2, <1>3

\* Addresses are numbers.
LEMMA AddressIsNat == ASSUME NEW a \in Addresses PROVE a \in Nat /\ a <= MaxPages * PAGE /\ a % ALIGNMENT = 0
<1>1. MaxPages * PAGE \in Nat
  BY HeapSizes
<1> QED BY <1>1 DEF Addresses, HEAP_START

\* What is aligned and within the heap's bounds is an address.
LEMMA NatIsAddress ==
  ASSUME NEW a \in Nat, a % ALIGNMENT = 0, NEW b \in Addresses, a <= b
  PROVE  a \in Addresses
<1>1. MaxPages * PAGE \in Nat /\ b \in Nat /\ b <= MaxPages * PAGE
  BY HeapSizes, AddressIsNat
<1> QED BY <1>1 DEF Addresses, HEAP_START

\* A block ends behind itself, and not behind the heap.
LEMMA TilingEnds ==
  ASSUME NEW bs, NEW sz, NEW end, Tiling(bs, sz, end), NEW a \in bs
  PROVE  /\ a \in Nat /\ end \in Nat /\ sz[a] \in Nat /\ sz[a] > 0 /\ EndOf(sz, a) \in Nat
         /\ a < EndOf(sz, a) /\ a + HEADER < EndOf(sz, a) /\ EndOf(sz, a) <= end
         /\ EndOf(sz, a) = a + HEADER + sz[a]
         /\ \A b \in bs : b \in Nat /\ b < end
<1>1. a \in Nat /\ end \in Nat /\ sz[a] \in Nat /\ sz[a] # 0 /\ \A b \in bs : b \in Nat /\ b < end
  BY AddressIsNat DEF Tiling
<1>2. EndOf(sz, a) \in bs \union {end}
  BY DEF Tiling
<1> QED BY <1>1, <1>2, HeapSizes DEF EndOf

\* Each block but the first begins where the one before it ends.
LEMMA TilingPrev ==
  ASSUME NEW bs, NEW sz, NEW end, Tiling(bs, sz, end), NEW a \in bs, a # HEAP_START
  PROVE  Prev(bs, a) \in bs /\ Prev(bs, a) < a /\ EndOf(sz, Prev(bs, a)) = a
<1> DEFINE S == {p \in bs : p < a}
           p == Max(S)
<1>1. \A b \in bs : b \in Nat /\ b < end
  BY TilingEnds
<1>2. HEAP_START \in S
  BY <1>1 DEF Tiling, HEAP_START
<1>3. IsFiniteSet(S) /\ S \in SUBSET Nat
  BY AddressesFinite DEF Tiling
<1>4. p \in S /\ \A x \in S : x <= p
  BY <1>2, <1>3, Extrema
<1> HIDE DEF p
<1>5. p \in bs /\ p < a /\ p \in Nat
  BY <1>1, <1>4
<1>6. p < EndOf(sz, p) /\ EndOf(sz, p) <= a /\ EndOf(sz, p) \in bs \union {end} /\ EndOf(sz, p) \in Nat
  BY <1>5, TilingEnds DEF Tiling
<1>7. EndOf(sz, p) \in bs
  BY <1>1, <1>6, TilingEnds
<1>8. ~(EndOf(sz, p) < a)
  BY <1>4, <1>5, <1>6, <1>7
<1>9. EndOf(sz, p) = a
  BY <1>1, <1>6, <1>8
<1> QED BY <1>5, <1>9 DEF Prev, p

\* And so the block before the end of a block is that block.
LEMMA TilingNext ==
  ASSUME NEW bs, NEW sz, NEW end, Tiling(bs, sz, end), NEW a \in bs, EndOf(sz, a) \in bs
  PROVE  Prev(bs, EndOf(sz, a)) = a /\ EndOf(sz, a) # HEAP_START
<1> DEFINE e == EndOf(sz, a)
           p == Prev(bs, e)
<1>1. a \in Nat /\ e \in Nat /\ a < e /\ \A b \in bs : b \in Nat
  BY TilingEnds
<1>2. e # HEAP_START
  BY <1>1 DEF HEAP_START
<1>3. p \in bs /\ p < e /\ EndOf(sz, p) = e
  BY <1>2, TilingPrev
<1> HIDE DEF p, e
<1>4. ~(p < a)
  <2> SUFFICES ASSUME p < a PROVE FALSE
    OBVIOUS
  <2>1. EndOf(sz, p) <= a
    BY <1>3 DEF Tiling
  <2> QED BY <1>1, <1>3, <2>1
<1>5. ~(a < p)
  <2> SUFFICES ASSUME a < p PROVE FALSE
    OBVIOUS
  <2>1. e <= p
    BY <1>3 DEF Tiling, e
  <2> QED BY <1>1, <1>3, <2>1
<1>6. p = a
  BY <1>1, <1>3, <1>4, <1>5
<1> QED BY <1>2, <1>6 DEF p, e

\* The first block is at HEAP_START.
LEMMA TilingFirst ==
  ASSUME NEW bs, NEW sz, NEW end, Tiling(bs, sz, end)
  PROVE  Min(bs) = HEAP_START
<1>1. bs \in SUBSET Nat /\ IsFiniteSet(bs) /\ HEAP_START \in bs
  BY AddressesFinite DEF Tiling
<1>2. Min(bs) \in bs /\ Min(bs) <= HEAP_START
  BY <1>1, Extrema
<1>3. Min(bs) \in Nat
  BY <1>1, <1>2
<1> QED BY <1>2, <1>3 DEF HEAP_START

\* A block that heap_merge drops is free and follows a free one.
LEMMA Dropped ==
  ASSUME NEW bs, NEW sz, NEW end, Tiling(bs, sz, end), NEW fr, NEW a \in bs,
         EndOf(sz, a) \in bs
  PROVE  EndOf(sz, a) \in Kept(bs, fr) <=> ~fr[EndOf(sz, a)] \/ ~fr[a]
<1>1. Prev(bs, EndOf(sz, a)) = a /\ EndOf(sz, a) # HEAP_START
  BY TilingNext
<1>2. Min(bs) = HEAP_START
  BY TilingFirst
<1> QED BY <1>1, <1>2 DEF Kept

\* What heap_merge makes of a list in which free neighbours are only found around
\* the block x: a list that tiles the heap again, without free neighbours, in
\* which the blocks in use are as they were.
Merges(bs, sz, fr, end, a) ==
  LET n == NewSize(bs, sz, fr, a)
      e == a + HEADER + n IN
  /\ n \in Nat /\ n > 0 /\ e \in Kept(bs, fr) \union {end}
  /\ \A b \in Kept(bs, fr) : a < b => e <= b
  /\ ~fr[a] => n = sz[a]
  /\ fr[a] /\ e \in Kept(bs, fr) => ~fr[e]

LEMMA MergeOne ==
  ASSUME NEW bs, NEW sz, NEW end, Tiling(bs, sz, end), NEW fr, NEW a \in bs,
         EndOf(sz, a) \in Kept(bs, fr) \union {end}
  PROVE  Merges(bs, sz, fr, end, a)
<1> DEFINE e == EndOf(sz, a)
<1>1. /\ a \in Nat /\ sz[a] \in Nat /\ sz[a] > 0 /\ e \in Nat /\ e = a + HEADER + sz[a] /\ a < e
      /\ \A b \in bs : b \in Nat /\ b < end
  BY TilingEnds
<1>2. \A b \in bs : a < b => e <= b
  BY DEF Tiling
<1>3. Kept(bs, fr) \subseteq bs
  BY DEF Kept
<1>4. Run(bs, fr, a) = {}
  <2> SUFFICES ASSUME NEW b \in bs, a < b, ~\E c \in Kept(bs, fr) : a < c /\ c <= b PROVE FALSE
    BY DEF Run
  <2>1. e <= b
    BY <1>2
  <2>2. CASE e \in Kept(bs, fr)
    BY <1>1, <2>1, <2>2
  <2>3. CASE e = end
    BY <1>1, <2>1, <2>3
  <2> QED BY <2>2, <2>3
<1>5. NewSize(bs, sz, fr, a) = sz[a]
  BY <1>1, <1>4, TotalNone DEF NewSize
<1>6. fr[a] /\ e \in Kept(bs, fr) => ~fr[e]
  BY <1>3, Dropped
<1> HIDE DEF e
<1>7. e \in Kept(bs, fr) \union {end}
  BY DEF e
<1> QED BY <1>1, <1>2, <1>3, <1>5, <1>6, <1>7 DEF Merges

LEMMA MergeTwo ==
  ASSUME NEW bs, NEW sz, NEW end, Tiling(bs, sz, end), NEW fr, NEW a \in bs,
         EndOf(sz, a) \in bs \ Kept(bs, fr),
         EndOf(sz, EndOf(sz, a)) \in Kept(bs, fr) \union {end}
  PROVE  Merges(bs, sz, fr, end, a)
<1> DEFINE b == EndOf(sz, a)
           e == EndOf(sz, b)
<1>1. /\ a \in Nat /\ sz[a] \in Nat /\ sz[a] > 0 /\ b \in Nat /\ b = a + HEADER + sz[a] /\ a < b
      /\ \A c \in bs : c \in Nat /\ c < end
  BY TilingEnds
<1>2. b \in bs /\ sz[b] \in Nat /\ e \in Nat /\ e = b + HEADER + sz[b] /\ b < e
  BY TilingEnds
<1>3. /\ \A c \in bs : a < c => b <= c
      /\ \A c \in bs : b < c => e <= c
  BY <1>2 DEF Tiling
<1>4. Kept(bs, fr) \subseteq bs /\ b \notin Kept(bs, fr)
  BY DEF Kept
<1>5. fr[a] /\ fr[b]
  BY <1>2, <1>4, Dropped
<1>6. fr[b] /\ e \in Kept(bs, fr) => ~fr[e]
  BY <1>2, <1>4, Dropped
<1>7. e \in Kept(bs, fr) \union {end}
  OBVIOUS
<1> HIDE DEF b, e
<1>8. Run(bs, fr, a) = {b}
  <2>1. ASSUME NEW c \in bs, a < c, ~\E d \in Kept(bs, fr) : a < d /\ d <= c PROVE c = b
    <3> SUFFICES ASSUME c # b PROVE FALSE
      OBVIOUS
    <3>1. b < c
      BY <1>1, <1>2, <1>3, <2>1
    <3>2. e <= c
      BY <1>3, <3>1
    <3>3. CASE e \in Kept(bs, fr)
      <4>1. a < e
        BY <1>1, <1>2
      <4> QED BY <2>1, <3>2, <3>3, <4>1
    <3>4. CASE e = end
      BY <1>1, <1>2, <3>2, <3>4
    <3> QED BY <1>7, <3>3, <3>4
  <2>2. ASSUME NEW d \in Kept(bs, fr), a < d, d <= b PROVE FALSE
    <3>1. d \in bs /\ b <= d /\ d # b
      BY <1>3, <1>4, <2>2
    <3> QED BY <1>1, <1>2, <2>2, <3>1
  <2> QED BY <1>1, <1>2, <2>1, <2>2 DEF Run
<1>9. NewSize(bs, sz, fr, a) = sz[a] + (HEADER + sz[b])
  BY <1>2, <1>8, TotalOne DEF NewSize
<1>10. a + HEADER + NewSize(bs, sz, fr, a) = e /\ NewSize(bs, sz, fr, a) \in Nat /\ NewSize(bs, sz, fr, a) > 0
  BY <1>1, <1>2, <1>9, HeapSizes
<1>11. \A c \in Kept(bs, fr) : a < c => e <= c
  <2> SUFFICES ASSUME NEW c \in Kept(bs, fr), a < c PROVE e <= c
    OBVIOUS
  <2>1. c \in bs /\ b <= c /\ c # b
    BY <1>3, <1>4
  <2>2. b < c
    BY <1>1, <1>2, <2>1
  <2> QED BY <1>3, <2>1, <2>2
<1> QED BY <1>5, <1>6, <1>7, <1>10, <1>11, Zenon DEF Merges

LEMMA MergeThree ==
  ASSUME NEW bs, NEW sz, NEW end, Tiling(bs, sz, end), NEW fr, NEW a \in bs,
         EndOf(sz, a) \in bs \ Kept(bs, fr),
         EndOf(sz, EndOf(sz, a)) \in bs \ Kept(bs, fr),
         EndOf(sz, EndOf(sz, EndOf(sz, a))) \in Kept(bs, fr) \union {end}
  PROVE  Merges(bs, sz, fr, end, a)
<1> DEFINE b == EndOf(sz, a)
           c == EndOf(sz, b)
           e == EndOf(sz, c)
<1>1. /\ a \in Nat /\ sz[a] \in Nat /\ sz[a] > 0 /\ b \in Nat /\ b = a + HEADER + sz[a] /\ a < b
      /\ \A d \in bs : d \in Nat /\ d < end
  BY TilingEnds
<1>2. b \in bs /\ sz[b] \in Nat /\ c \in Nat /\ c = b + HEADER + sz[b] /\ b < c
  BY TilingEnds
<1>3. c \in bs /\ sz[c] \in Nat /\ e \in Nat /\ e = c + HEADER + sz[c] /\ c < e
  BY TilingEnds
<1>4. /\ \A d \in bs : a < d => b <= d
      /\ \A d \in bs : b < d => c <= d
      /\ \A d \in bs : c < d => e <= d
  BY <1>2, <1>3 DEF Tiling
<1>5. Kept(bs, fr) \subseteq bs /\ b \notin Kept(bs, fr) /\ c \notin Kept(bs, fr)
  BY DEF Kept
<1>6. fr[a] /\ fr[b]
  BY <1>2, <1>5, Dropped
<1>7. fr[c]
  BY <1>2, <1>3, <1>5, Dropped
<1>8. fr[c] /\ e \in Kept(bs, fr) => ~fr[e]
  BY <1>3, <1>5, Dropped
<1>9. e \in Kept(bs, fr) \union {end}
  OBVIOUS
<1> HIDE DEF b, c, e
<1>10. \A d \in bs : a < d /\ d # b /\ d # c => e <= d
  <2> SUFFICES ASSUME NEW d \in bs, a < d, d # b, d # c PROVE e <= d
    OBVIOUS
  <2>1. b < d
    BY <1>1, <1>2, <1>4
  <2>2. c < d
    BY <1>1, <1>2, <1>3, <1>4, <2>1
  <2> QED BY <1>4, <2>2
<1>11. Run(bs, fr, a) = {b, c}
  <2>1. ASSUME NEW x \in bs, a < x, ~\E d \in Kept(bs, fr) : a < d /\ d <= x PROVE x = b \/ x = c
    <3> SUFFICES ASSUME x # b, x # c PROVE FALSE
      OBVIOUS
    <3>1. e <= x /\ a < e
      BY <1>1, <1>2, <1>3, <1>10, <2>1
    <3>2. CASE e \in Kept(bs, fr)
      BY <2>1, <3>1, <3>2
    <3>3. CASE e = end
      BY <1>1, <1>3, <3>1, <3>3
    <3> QED BY <1>9, <3>2, <3>3
  <2>2. ASSUME NEW d \in Kept(bs, fr), a < d, d <= c PROVE FALSE
    <3>1. d \in bs /\ d # b /\ d # c
      BY <1>5
    <3>2. e <= d
      BY <1>10, <2>2, <3>1
    <3> QED BY <1>1, <1>3, <2>2, <3>1, <3>2
  <2>3. ~\E d \in Kept(bs, fr) : a < d /\ d <= b
    <3> SUFFICES ASSUME NEW d \in Kept(bs, fr), a < d, d <= b PROVE FALSE
      OBVIOUS
    <3>1. d \in Nat
      BY <1>1, <1>5
    <3>2. d <= c
      BY <1>1, <1>2, <3>1
    <3> QED BY <2>2, <3>2
  <2>4. b \in Run(bs, fr, a)
    BY <1>1, <1>2, <2>3 DEF Run
  <2>5. c \in Run(bs, fr, a)
    <3>1. a < c
      BY <1>1, <1>2
    <3> QED BY <1>3, <2>2, <3>1 DEF Run
  <2>6. \A x \in Run(bs, fr, a) : x = b \/ x = c
    BY <2>1 DEF Run
  <2> QED BY <2>4, <2>5, <2>6
<1>12. Total(sz, {b, c}) = (HEADER + sz[b]) + (HEADER + sz[c])
  <2>1. b # c
    BY <1>2
  <2> QED BY <1>2, <1>3, <2>1, TotalTwo
<1>13. NewSize(bs, sz, fr, a) = sz[a] + ((HEADER + sz[b]) + (HEADER + sz[c]))
  BY <1>11, <1>12 DEF NewSize
<1>14. a + HEADER + NewSize(bs, sz, fr, a) = e /\ NewSize(bs, sz, fr, a) \in Nat /\ NewSize(bs, sz, fr, a) > 0
  BY <1>1, <1>2, <1>3, <1>13, HeapSizes
<1>15. \A d \in Kept(bs, fr) : a < d => e <= d
  BY <1>5, <1>10
<1> QED BY <1>6, <1>8, <1>7, <1>9, <1>14, <1>15, Zenon DEF Merges

\* The three cases together: around one block, no more than three are joined.
LEMMA MergeAround ==
  ASSUME NEW bs, NEW sz, NEW end, Tiling(bs, sz, end), NEW fr, NEW x,
         \A a \in bs : fr[a] /\ EndOf(sz, a) \in bs /\ fr[EndOf(sz, a)] => a = x \/ EndOf(sz, a) = x
  PROVE  \A a \in bs : Merges(bs, sz, fr, end, a)
<1> TAKE a \in bs
<1> DEFINE b == EndOf(sz, a)
           c == EndOf(sz, b)
           e == EndOf(sz, c)
<1>1. Kept(bs, fr) \subseteq bs
  BY DEF Kept
<1>2. b \in bs \union {end}
  BY DEF Tiling
<1>3. CASE b \in Kept(bs, fr) \union {end}
  BY <1>3, MergeOne
<1>4. CASE b \in bs \ Kept(bs, fr)
  <2>1. fr[a] /\ fr[b] /\ (a = x \/ b = x)
    BY <1>4, Dropped
  <2>2. c \in bs \union {end}
    BY <1>4 DEF Tiling
  <2>3. CASE c \in Kept(bs, fr) \union {end}
    BY <1>4, <2>3, MergeTwo
  <2>4. CASE c \in bs \ Kept(bs, fr)
    <3>1. fr[c] /\ (b = x \/ c = x)
      BY <1>4, <2>4, Dropped
    <3>2. e \in bs \union {end}
      BY <2>4 DEF Tiling
    <3>3. CASE e \in Kept(bs, fr) \union {end}
      BY <1>4, <2>4, <3>3, MergeThree
    <3>4. CASE e \in bs \ Kept(bs, fr)
      <4>1. c = x \/ e = x
        BY <2>4, <3>4, Dropped
      <4>2. a \in Nat /\ b \in Nat /\ a < b
        BY TilingEnds
      <4>3. c \in Nat /\ b < c
        BY <1>4, TilingEnds
      <4>4. e \in Nat /\ c < e
        BY <2>4, TilingEnds
      <4> HIDE DEF b, c, e
      <4> QED BY <2>1, <3>1, <4>1, <4>2, <4>3, <4>4
    <3> QED BY <3>2, <3>3, <3>4
  <2> QED BY <2>2, <2>3, <2>4
<1> QED BY <1>2, <1>3, <1>4

\* heap_merge around one block, for the whole list.
LEMMA MergeResult ==
  ASSUME NEW bs, NEW sz, NEW end, Tiling(bs, sz, end), NEW fr \in [Addresses -> BOOLEAN], NEW x,
         \A a \in bs : fr[a] /\ EndOf(sz, a) \in bs /\ fr[EndOf(sz, a)] => a = x \/ EndOf(sz, a) = x,
         heap_merge(bs, sz, fr, end),
         \A t \in Callers : heap_pc[t] \notin {"split", "take"}
  PROVE  /\ Tiling(blocks', size', heap_end')
         /\ size' \in [Addresses -> Addresses] /\ free' \in [Addresses -> BOOLEAN] /\ heap_end' = end
         /\ \A a \in blocks' : free'[a] /\ EndOf(size', a) \in blocks' => ~free'[EndOf(size', a)]
         /\ {a \in blocks' : ~free'[a]} = {a \in bs : ~fr[a]}
         /\ \A a \in bs : ~fr[a] => size'[a] = sz[a]
<1> DEFINE K == Kept(bs, fr)
<1>1. /\ blocks' = K
      /\ size' = [a \in Addresses |-> IF a \in K THEN NewSize(bs, sz, fr, a) ELSE 0]
      /\ free' = [a \in Addresses |-> a \in K /\ fr[a]]
      /\ heap_end' = end
  BY MergeEffect
<1>2. \A a \in bs : Merges(bs, sz, fr, end, a)
  BY MergeAround
<1>3. K \subseteq bs /\ bs \subseteq Addresses /\ end \in Addresses /\ (\A a \in bs : ~fr[a] => a \in K)
  BY DEF Kept, Tiling
<1>4. HEAP_START \in K
  BY TilingFirst DEF Kept, Tiling
<1> HIDE DEF K
<1>5. \A a \in K : size'[a] = NewSize(bs, sz, fr, a) /\ EndOf(size', a) = a + HEADER + NewSize(bs, sz, fr, a)
  BY <1>1, <1>3 DEF EndOf
<1>6. \A a \in K : NewSize(bs, sz, fr, a) \in Addresses \ {0}
  <2> TAKE a \in K
  <2> DEFINE n == NewSize(bs, sz, fr, a)
             e == a + HEADER + n
  <2>1. n \in Nat /\ n > 0 /\ e \in K \union {end}
    BY <1>2, <1>3 DEF Merges, K
  <2>2. a \in Nat /\ a % ALIGNMENT = 0 /\ e \in Addresses /\ e \in Nat /\ e % ALIGNMENT = 0
    BY <1>3, <2>1, AddressIsNat
  <2> HIDE DEF n
  <2>3. n = (e - a) - HEADER /\ n <= e
    <3>1. a \in Nat /\ n \in Nat /\ HEADER \in Nat
      BY <2>1, <2>2, HeapSizes
    <3> QED BY <3>1
  <2> HIDE DEF e
  <2>4. HEADER % ALIGNMENT = 0
    BY HeapAssumption
  <2>5. (e - a) % ALIGNMENT = 0
    <3>1. e \in Int /\ a \in Int /\ ALIGNMENT \in Nat \ {0}
      BY <2>2, HeapSizes
    <3> QED BY <2>2, <3>1, AlignedSum
  <2>6. n % ALIGNMENT = 0
    <3>0. ALIGNMENT \in Nat \ {0} /\ HEADER \in Int
      BY HeapSizes
    <3>1. e - a \in Int
      BY <2>2
    <3>2. ((e - a) - HEADER) % ALIGNMENT = 0
      BY <2>4, <2>5, <3>1, <3>0, AlignedSum
    <3> QED BY <2>3, <3>2
  <2> QED BY <2>1, <2>2, <2>3, <2>6, NatIsAddress DEF n
<1>7. 0 \in Addresses
  <2>1. HEAP_START \in Addresses
    BY <1>3, <1>4
  <2> QED BY <2>1 DEF HEAP_START
<1>8. Tiling(blocks', size', heap_end')
  <2>1. \A a \in K : /\ size'[a] \in Addresses \ {0} /\ a < end /\ EndOf(size', a) \in K \union {end}
                     /\ \A b \in K : a < b => EndOf(size', a) <= b
    <3> TAKE a \in K
    <3>1. a < end
      BY <1>3, TilingEnds
    <3>2. Merges(bs, sz, fr, end, a)
      BY <1>2, <1>3
    <3> QED BY <1>5, <1>6, <3>1, <3>2 DEF Merges, K
  <2> QED BY <1>1, <1>3, <1>4, <2>1 DEF Tiling
<1>9. size' \in [Addresses -> Addresses]
  BY <1>1, <1>6, <1>7
<1>10. free' \in [Addresses -> BOOLEAN] /\ \A a \in K : free'[a] <=> fr[a]
  BY <1>1, <1>3
<1>11. \A a \in K : free'[a] /\ EndOf(size', a) \in K => ~free'[EndOf(size', a)]
  <2> TAKE a \in K
  <2>1. Merges(bs, sz, fr, end, a)
    BY <1>2, <1>3
  <2> QED BY <1>5, <1>10, <2>1 DEF Merges, K
<1>12. {a \in K : ~free'[a]} = {a \in bs : ~fr[a]}
  BY <1>3, <1>10
<1>13. \A a \in bs : ~fr[a] => size'[a] = sz[a]
  <2> SUFFICES ASSUME NEW a \in bs, ~fr[a] PROVE size'[a] = sz[a]
    OBVIOUS
  <2>1. a \in K
    BY <1>3
  <2> QED BY <1>2, <1>5, <2>1 DEF Merges
<1> QED BY <1>1, <1>8, <1>9, <1>10, <1>11, <1>12, <1>13

----------------------------------------------------------------------------
(* The inductive invariant.                                                *)

\* The blocks tile the heap, which consists of whole pages.
HeapTiled ==
  /\ Tiling(blocks, size, heap_end)
  /\ \E k \in 0..MaxPages : heap_end = k * PAGE

\* One caller at a time is inside kmalloc.
OneCaller == \A t, u \in Callers : t = u \/ heap_pc[t] = "run" \/ heap_pc[u] = "run"

\* What a caller inside kmalloc knows: its request is a proper one, and the block
\* it has chosen is still in the list, free, and large enough; after the split
\* too small for another block.
CallersSound ==
  \A t \in Callers :
    LET n == heap_align(request[t])
        b == block[t] IN
    /\ heap_pc[t] # "run" => request[t] \in Requests /\ n # 0
    /\ heap_pc[t] \in {"split", "take"} => b \in blocks /\ free[b] /\ n <= size[b]
    /\ heap_pc[t] = "take" => size[b] - n <= HEADER

\* Free neighbours are only found between a split and the assignment that takes
\* the first part.
MergedButSplit ==
  \A a \in blocks : free[a] /\ End(a) \in blocks /\ free[End(a)] =>
    \E t \in Callers : heap_pc[t] = "take" /\ block[t] = a

\* The types of what the blocks do not determine.
CallerTypes ==
  /\ size \in [Addresses -> Addresses]
  /\ free \in [Addresses -> BOOLEAN]
  /\ heap_pc \in [Callers -> {"run", "find", "split", "take"}]
  /\ request \in [Callers -> Nat]
  /\ block \in [Callers -> Addresses]
  /\ \A x \in live : x.at \in Addresses /\ x.len \in Requests

\* That kmalloc takes the block it found needs that the block is still there,
\* that it fits, and that nobody else is inside; that kfree leaves no free
\* neighbours needs that there were none before.
HeapInv == CallerTypes /\ HeapTiled /\ OneCaller /\ CallersSound /\ MergedButSplit /\ LiveExact

\* The heap that heap_init leaves.
LEMMA HeapInvInit == HeapInit => HeapInv
<1> SUFFICES ASSUME HeapInit PROVE HeapInv
  OBVIOUS
<1> USE DEF HeapInit
<1>1. MaxPages * PAGE \in Nat /\ PAGE <= MaxPages * PAGE
  <2>1. MaxPages - 1 \in Nat /\ PAGE \in Nat /\ MaxPages \in Nat
    BY HeapSizes
  <2>2. (MaxPages - 1) * PAGE \in Nat /\ MaxPages * PAGE = (MaxPages - 1) * PAGE + PAGE
    BY <2>1
  <2> QED BY <2>1, <2>2
<1>2. PAGE % ALIGNMENT = 0 /\ HEADER % ALIGNMENT = 0
  BY HeapAssumption
<1>3. (PAGE - HEADER) % ALIGNMENT = 0 /\ 0 % ALIGNMENT = 0
  <2>1. PAGE \in Int /\ HEADER \in Int /\ ALIGNMENT \in Nat \ {0}
    BY HeapSizes
  <2>2. (PAGE - HEADER) % ALIGNMENT = 0
    BY <1>2, <2>1, AlignedSum
  <2>3. (ALIGNMENT * 0) % ALIGNMENT = 0 /\ ALIGNMENT * 0 = 0
    BY <2>1, Multiple
  <2> QED BY <2>2, <2>3
<1>4. PAGE \in Addresses /\ PAGE - HEADER \in Addresses \ {0} /\ 0 \in Addresses
  BY <1>1, <1>2, <1>3, HeapSizes DEF Addresses, HEAP_START
<1>5. size[0] = PAGE - HEADER /\ heap_end = PAGE /\ blocks = {0} /\ free[0]
  <2>1. free[0] = (0 = 0)
    BY <1>4 DEF HEAP_START
  <2>2. size[0] = PAGE - HEADER /\ heap_end = PAGE /\ blocks = {0}
    BY <1>4, HeapSizes DEF HEAP_START
  <2> QED BY <2>1, <2>2
<1>6. EndOf(size, 0) = PAGE
  BY <1>5, HeapSizes DEF EndOf
<1>7. HeapTiled
  <2>1. Tiling(blocks, size, heap_end)
    BY <1>4, <1>5, <1>6, HeapSizes DEF Tiling, HEAP_START
  <2>2. heap_end = 1 * PAGE /\ 1 \in 0..MaxPages
    BY <1>5, HeapSizes
  <2> QED BY <2>1, <2>2 DEF HeapTiled
<1>8. CallerTypes
  BY <1>4 DEF CallerTypes, HEAP_START
<1>9. OneCaller /\ CallersSound
  BY DEF OneCaller, CallersSound
<1>10. MergedButSplit
  <2>1. End(0) = PAGE /\ PAGE \notin blocks
    BY <1>5, HeapSizes DEF End
  <2> QED BY <1>5, <2>1 DEF MergedButSplit
<1>11. LiveExact
  <2>1. {x.at - HEADER : x \in live} = {} /\ {a \in blocks : ~free[a]} = {}
    BY <1>5
  <2> QED BY <2>1 DEF LiveExact
<1> QED BY <1>7, <1>8, <1>9, <1>10, <1>11 DEF HeapInv

\* With interrupts off, the others are outside kmalloc.
LEMMA Alone ==
  ASSUME ~Preemptible, NEW t \in Callers, MayStep(t)
  PROVE  \A u \in Callers : u # t => heap_pc[u] = "run"
  BY DEF MayStep

\* kmalloc starts.
LEMMA KmallocStep ==
  ASSUME HeapInv, ~Preemptible, NEW t \in Callers, NEW n \in Requests, kmalloc(t, n)
  PROVE  HeapInv'
<1> USE DEF HeapInv
<1>1. /\ blocks' = blocks /\ size' = size /\ free' = free /\ heap_end' = heap_end /\ block' = block /\ live' = live
      /\ heap_pc' = [heap_pc EXCEPT ![t] = "find"] /\ request' = [request EXCEPT ![t] = n] /\ heap_align(n) # 0
      /\ \A u \in Callers : u # t => heap_pc[u] = "run"
  BY Alone DEF kmalloc, heapVars
<1>2. n \in Nat
  BY HeapAssumption
<1>3. \A u \in Callers : heap_pc'[u] = (IF u = t THEN "find" ELSE "run") /\ request'[t] = n
  BY <1>1 DEF CallerTypes
<1>4. CallerTypes'
  BY <1>1, <1>2 DEF CallerTypes
<1>5. HeapTiled' /\ LiveExact'
  BY <1>1 DEF HeapTiled, LiveExact
<1>6. OneCaller'
  BY <1>3 DEF OneCaller
<1>7. CallersSound'
  BY <1>1, <1>3 DEF CallersSound
<1>8. MergedButSplit'
  <2>1. \A u \in Callers : heap_pc[u] # "take"
    BY <1>1 DEF kmalloc
  <2> QED BY <1>1, <2>1 DEF MergedButSplit, End
<1> QED BY <1>4, <1>5, <1>6, <1>7, <1>8

\* heap_find_free returns a block of the list that fits.
LEMMA FindStep ==
  ASSUME HeapInv, ~Preemptible, NEW t \in Callers, kmalloc_find(t)
  PROVE  HeapInv'
<1> USE DEF HeapInv
<1> DEFINE F == Fitting(heap_align(request[t]))
           b == Min(F)
<1>1. /\ blocks' = blocks /\ size' = size /\ free' = free /\ heap_end' = heap_end /\ request' = request /\ live' = live
      /\ heap_pc' = [heap_pc EXCEPT ![t] = "split"] /\ block' = [block EXCEPT ![t] = b] /\ F # {}
      /\ \A u \in Callers : u # t => heap_pc[u] = "run"
      /\ heap_pc[t] = "find"
  BY Alone DEF kmalloc_find, heapVars
<1>2. b \in F
  <2>1. F \in SUBSET Addresses
    BY DEF Fitting, HeapTiled, Tiling
  <2>2. IsFiniteSet(F) /\ F \in SUBSET Nat
    BY <2>1, AddressesFinite
  <2> QED BY <1>1, <2>2, Extrema
<1>3. b \in blocks /\ b \in Addresses /\ free[b] /\ size[b] >= heap_align(request[t])
  BY <1>2 DEF Fitting, HeapTiled, Tiling
<1> HIDE DEF b, F
<1>4. (\A u \in Callers : heap_pc'[u] = IF u = t THEN "split" ELSE "run") /\ block'[t] = b
  BY <1>1 DEF CallerTypes
<1>5. CallerTypes'
  BY <1>1, <1>3 DEF CallerTypes
<1>6. HeapTiled' /\ LiveExact'
  BY <1>1 DEF HeapTiled, LiveExact
<1>7. OneCaller'
  BY <1>4 DEF OneCaller
<1>8. CallersSound'
  <2>1. request[t] \in Requests /\ heap_align(request[t]) # 0
    BY <1>1 DEF CallersSound
  <2>2. heap_align(request[t]) \in Nat /\ size[b] \in Nat
    <3>1. request[t] \in Nat /\ size[b] \in Addresses
      BY <1>3 DEF CallerTypes
    <3> QED BY <2>1, <3>1, AlignUp, AddressIsNat
  <2>3. heap_align(request[t]) <= size[b]
    BY <1>3, <2>2
  <2> QED BY <1>1, <1>3, <1>4, <2>1, <2>3 DEF CallersSound
<1>9. MergedButSplit'
  <2>1. \A u \in Callers : heap_pc[u] # "take"
    BY <1>1
  <2> QED BY <1>1, <2>1 DEF MergedButSplit, End
<1> QED BY <1>5, <1>6, <1>7, <1>8, <1>9

\* kmalloc gives up.
LEMMA FailStep ==
  ASSUME HeapInv, ~Preemptible, NEW t \in Callers, kmalloc_fail(t)
  PROVE  HeapInv'
<1> USE DEF HeapInv
<1>1. /\ blocks' = blocks /\ size' = size /\ free' = free /\ heap_end' = heap_end /\ block' = block /\ live' = live
      /\ heap_pc' = [heap_pc EXCEPT ![t] = "run"] /\ request' = [request EXCEPT ![t] = 0] /\ heap_pc[t] = "find"
      /\ \A u \in Callers : u # t => heap_pc[u] = "run"
  BY Alone DEF kmalloc_fail, heapVars
<1>2. \A u \in Callers : heap_pc'[u] = "run"
  BY <1>1 DEF CallerTypes
<1>3. CallerTypes'
  BY <1>1 DEF CallerTypes
<1>4. HeapTiled' /\ LiveExact' /\ OneCaller' /\ CallersSound'
  BY <1>1, <1>2 DEF HeapTiled, LiveExact, OneCaller, CallersSound
<1>5. MergedButSplit'
  <2>1. \A u \in Callers : heap_pc[u] # "take"
    BY <1>1
  <2> QED BY <1>1, <2>1 DEF MergedButSplit, End
<1> QED BY <1>3, <1>4, <1>5

\* kmalloc takes the block.
LEMMA TakeStep ==
  ASSUME HeapInv, ~Preemptible, NEW t \in Callers, kmalloc_take(t)
  PROVE  HeapInv'
<1> USE DEF HeapInv
<1> DEFINE b == block[t]
           n == heap_align(request[t])
           new == [at |-> b + HEADER, len |-> request[t]]
<1>1. /\ blocks' = blocks /\ size' = size /\ heap_end' = heap_end
      /\ free' = [free EXCEPT ![b] = FALSE] /\ live' = live \union {new}
      /\ heap_pc' = [heap_pc EXCEPT ![t] = "run"] /\ request' = [request EXCEPT ![t] = 0]
      /\ block' = [block EXCEPT ![t] = HEAP_START] /\ heap_pc[t] = "take"
      /\ \A u \in Callers : u # t => heap_pc[u] = "run"
  BY Alone DEF kmalloc_take
<1>2. /\ b \in blocks /\ free[b] /\ n <= size[b] /\ size[b] - n <= HEADER
      /\ request[t] \in Requests /\ n # 0 /\ request[t] \in Nat
  BY <1>1 DEF CallersSound, CallerTypes
<1>3. /\ b \in Nat /\ b \in Addresses /\ HEAP_START \in Addresses /\ size[b] \in Nat
      /\ b + HEADER < EndOf(size, b) /\ EndOf(size, b) <= heap_end /\ heap_end \in Addresses
      /\ EndOf(size, b) \in Nat /\ heap_end \in Nat
  <2>1. Tiling(blocks, size, heap_end)
    BY DEF HeapTiled
  <2>2. b \in Addresses /\ HEAP_START \in Addresses /\ heap_end \in Addresses
    BY <1>2, <2>1 DEF Tiling
  <2> QED BY <1>2, <2>1, <2>2, TilingEnds
<1>4. b + HEADER \in Addresses
  <2>1. b % ALIGNMENT = 0 /\ HEADER % ALIGNMENT = 0
    BY <1>3, AddressIsNat, HeapAssumption
  <2>2. b \in Int /\ HEADER \in Int /\ ALIGNMENT \in Nat \ {0} /\ b + HEADER \in Nat
    BY <1>3, HeapSizes
  <2>3. (b + HEADER) % ALIGNMENT = 0
    BY <2>1, <2>2, AlignedSum
  <2>4. b + HEADER <= heap_end
    BY <1>3, <2>2
  <2> QED BY <1>3, <2>2, <2>3, <2>4, NatIsAddress
<1>5. n \in Nat /\ request[t] <= n /\ n < request[t] + ALIGNMENT
  BY <1>2, AlignUp
<1>6. \A u \in Callers : heap_pc'[u] = "run"
  BY <1>1 DEF CallerTypes
<1>7. /\ \A a \in Addresses : free'[a] = (IF a = b THEN FALSE ELSE free[a])
      /\ free' \in [Addresses -> BOOLEAN]
  BY <1>1, <1>3 DEF CallerTypes
<1>8. new.at = b + HEADER /\ new.len = request[t] /\ new.at - HEADER = b
  BY <1>3, HeapSizes
<1> HIDE DEF new
<1>9. CallerTypes'
  <2>1. \A x \in live' : x.at \in Addresses /\ x.len \in Requests
    BY <1>1, <1>2, <1>4, <1>8 DEF CallerTypes
  <2> QED BY <1>1, <1>3, <1>7, <2>1 DEF CallerTypes
<1>10. HeapTiled' /\ OneCaller' /\ CallersSound'
  BY <1>1, <1>6 DEF HeapTiled, OneCaller, CallersSound
<1>11. MergedButSplit'
  <2> SUFFICES ASSUME NEW a \in blocks, free'[a], End(a)' \in blocks, free'[End(a)'] PROVE FALSE
    BY <1>1 DEF MergedButSplit
  <2>1. End(a)' = End(a) /\ a \in Addresses /\ End(a) \in Addresses
    BY <1>1 DEF End, HeapTiled, Tiling
  <2>2. free[a] /\ free[End(a)] /\ a # b
    BY <1>7, <2>1
  <2>3. PICK u \in Callers : heap_pc[u] = "take" /\ block[u] = a
    BY <2>1, <2>2 DEF MergedButSplit
  <2> QED BY <1>1, <2>2, <2>3
<1>12. LiveExact'
  <2>1. \A a \in blocks : a \in Addresses
    BY DEF HeapTiled, Tiling
  <2>2. \A x \in live : x.at - HEADER \in blocks /\ ~free[x.at - HEADER] /\ x.at - HEADER # b /\ x.at # new.at
    BY <1>2, <1>8 DEF LiveExact
  <2>3. {x.at - HEADER : x \in live'} = {a \in blocks : ~free'[a]}
    <3>1. \A x \in live' : x.at - HEADER \in blocks /\ ~free'[x.at - HEADER]
      BY <1>1, <1>2, <1>7, <1>8, <2>1, <2>2
    <3>2. ASSUME NEW a \in blocks, ~free'[a] PROVE \E x \in live' : x.at - HEADER = a
      <4>1. CASE a = b
        BY <1>1, <1>8, <4>1
      <4>2. CASE a # b
        <5>1. ~free[a]
          BY <1>7, <2>1, <3>2, <4>2
        <5>2. a \in {x.at - HEADER : x \in live}
          BY <5>1 DEF LiveExact
        <5> QED BY <1>1, <5>2
      <4> QED BY <4>1, <4>2
    <3> QED BY <3>1, <3>2
  <2>4. \A x, y \in live' : x.at = y.at => x = y
    BY <1>1, <2>2 DEF LiveExact
  <2>5. new.len <= size[new.at - HEADER] /\ size[new.at - HEADER] - new.len < HEADER + ALIGNMENT
    <3>1. request[t] <= size[b] /\ size[b] - request[t] < HEADER + ALIGNMENT
      BY <1>2, <1>3, <1>5, HeapSizes
    <3> QED BY <1>8, <3>1
  <2>6. \A x \in live' : x.len <= size[x.at - HEADER] /\ size[x.at - HEADER] - x.len < HEADER + ALIGNMENT
    BY <1>1, <2>5 DEF LiveExact
  <2> QED BY <1>1, <2>3, <2>4, <2>6 DEF LiveExact
<1> QED BY <1>9, <1>10, <1>11, <1>12

\* heap_split_block leaves the block that was found, no larger than it must be,
\* and a free one behind it.
LEMMA SplitStep ==
  ASSUME HeapInv, ~Preemptible, NEW t \in Callers, heap_split_block(t)
  PROVE  HeapInv'
<1> USE DEF HeapInv
<1> DEFINE b == block[t]
           n == heap_align(request[t])
           rest == b + HEADER + n
<1>1. /\ heap_end' = heap_end /\ request' = request /\ block' = block /\ live' = live
      /\ heap_pc' = [heap_pc EXCEPT ![t] = "take"] /\ heap_pc[t] = "split"
      /\ \A u \in Callers : u # t => heap_pc[u] = "run"
  BY Alone DEF heap_split_block
<1>2. b \in blocks /\ free[b] /\ n <= size[b] /\ request[t] \in Requests /\ n # 0 /\ request[t] \in Nat
  BY <1>1 DEF CallersSound, CallerTypes
<1>3. n \in Nat \ {0} /\ n % ALIGNMENT = 0
  BY <1>2, AlignUp
<1>4. Tiling(blocks, size, heap_end)
  BY DEF HeapTiled
<1>5. /\ b \in Nat /\ heap_end \in Nat /\ size[b] \in Nat /\ EndOf(size, b) \in Nat
      /\ EndOf(size, b) <= heap_end /\ EndOf(size, b) = b + HEADER + size[b]
      /\ \A a \in blocks : a \in Nat /\ a < heap_end
  BY <1>2, <1>4, TilingEnds
<1>6. \A a \in blocks : a \in Addresses /\ size[a] \in Addresses
  BY <1>4 DEF Tiling
<1>7. \A u \in Callers : heap_pc'[u] = (IF u = t THEN "take" ELSE "run") /\ heap_pc[u] # "take"
  BY <1>1 DEF CallerTypes
<1>8. OneCaller'
  BY <1>7 DEF OneCaller
<1>9. \A a \in blocks : free[a] /\ EndOf(size, a) \in blocks => ~free[EndOf(size, a)]
  BY <1>7 DEF MergedButSplit, End, EndOf
<1> HIDE DEF n
<1>10. CASE ~split_off(b, n)
  <2>1. blocks' = blocks /\ size' = size /\ free' = free
    BY <1>10 DEF heap_split_block, n
  <2>2. size[b] - n <= HEADER
    BY <1>3, <1>5, <1>10, HeapSizes DEF split_off
  <2>3. CallerTypes'
    BY <1>1, <2>1 DEF CallerTypes
  <2>4. HeapTiled' /\ LiveExact'
    BY <1>1, <2>1 DEF HeapTiled, LiveExact
  <2>5. CallersSound'
    BY <1>1, <1>2, <1>7, <2>1, <2>2 DEF CallersSound, n
  <2>6. MergedButSplit'
    BY <1>9, <2>1 DEF MergedButSplit, End, EndOf
  <2> QED BY <1>8, <2>3, <2>4, <2>5, <2>6
<1>11. CASE split_off(b, n)
  <2> DEFINE left == size[b] - n - HEADER
  <2>1. /\ blocks' = blocks \union {rest}
        /\ size' = [size EXCEPT ![rest] = left, ![b] = n]
        /\ free' = [free EXCEPT ![rest] = TRUE]
    BY <1>2, <1>11 DEF heap_split_block, n
  <2>2. left \in Nat \ {0} /\ rest \in Nat /\ b < rest /\ rest < EndOf(size, b) /\ left <= size[b] /\ n <= size[b]
    BY <1>2, <1>3, <1>5, <1>11, HeapSizes DEF split_off
  <2>3. left \in Addresses /\ rest \in Addresses /\ n \in Addresses
    <3>1. /\ size[b] % ALIGNMENT = 0 /\ b % ALIGNMENT = 0 /\ HEADER % ALIGNMENT = 0
          /\ heap_end \in Addresses /\ size[b] \in Addresses
      BY <1>2, <1>4, <1>6, AddressIsNat, HeapAssumption DEF Tiling
    <3>2. size[b] \in Int /\ n \in Int /\ HEADER \in Int /\ b \in Int /\ ALIGNMENT \in Nat \ {0}
      BY <1>3, <1>5, HeapSizes
    <3>3. (size[b] - n) % ALIGNMENT = 0 /\ size[b] - n \in Int
      BY <1>3, <3>1, <3>2, AlignedSum
    <3>4. (b + HEADER) % ALIGNMENT = 0 /\ b + HEADER \in Int
      <4>1. b + HEADER \in Int
        BY <3>2
      <4>2. (b + HEADER) % ALIGNMENT = 0
        BY <3>1, <3>2, AlignedSum
      <4> QED BY <4>1, <4>2
    <3>5. left % ALIGNMENT = 0
      BY <3>1, <3>2, <3>3, AlignedSum
    <3>6. rest % ALIGNMENT = 0
      BY <1>3, <3>2, <3>4, AlignedSum
    <3>7. rest <= heap_end
      BY <1>5, <2>2
    <3> HIDE DEF left, rest
    <3> QED BY <1>2, <1>3, <2>2, <3>1, <3>5, <3>6, <3>7, NatIsAddress
  <2>4. rest \notin blocks
    <3> SUFFICES ASSUME rest \in blocks PROVE FALSE
      OBVIOUS
    <3>1. EndOf(size, b) <= rest
      BY <1>2, <1>4, <2>2 DEF Tiling
    <3> QED BY <1>5, <2>2, <3>1
  <2>5. EndOf(size, b) = rest + HEADER + left
    BY <1>3, <1>5, HeapSizes
  <2>6. rest = b + HEADER + n
    OBVIOUS
  <2> HIDE DEF left, rest
  <2>7. /\ size' \in [Addresses -> Addresses] /\ size'[rest] = left /\ size'[b] = n
        /\ \A a \in Addresses : a # rest /\ a # b => size'[a] = size[a]
    <3>1. size \in [Addresses -> Addresses] /\ rest # b /\ b \in Addresses
      BY <1>2, <1>6, <2>4 DEF CallerTypes
    <3> QED BY <2>1, <2>3, <3>1
  <2>8. /\ free' \in [Addresses -> BOOLEAN] /\ free'[rest]
        /\ \A a \in Addresses : a # rest => free'[a] = free[a]
    BY <2>1, <2>3 DEF CallerTypes
  <2>9. CallerTypes'
    BY <1>1, <2>7, <2>8 DEF CallerTypes
  <2>10. /\ EndOf(size', b) = rest /\ EndOf(size', rest) = EndOf(size, b)
         /\ \A a \in blocks : a # b => EndOf(size', a) = EndOf(size, a)
    BY <1>2, <1>6, <2>4, <2>5, <2>6, <2>7 DEF EndOf
  <2>11. \A a \in blocks : EndOf(size, a) \in blocks \union {heap_end} /\ EndOf(size, a) \in Nat
    BY <1>4, TilingEnds DEF Tiling
  <2>12. HeapTiled'
    <3>1. \A a \in blocks' : size'[a] \in Addresses \ {0} /\ a < heap_end /\ EndOf(size', a) \in blocks' \union {heap_end}
      <4> TAKE a \in blocks'
      <4>1. CASE a = rest
        BY <1>2, <1>5, <2>1, <2>2, <2>3, <2>7, <2>10, <2>11, <4>1
      <4>2. CASE a = b
        BY <1>2, <1>3, <1>5, <2>1, <2>3, <2>7, <2>10, <4>2
      <4>3. CASE a \in blocks /\ a # b
        <5>1. size'[a] = size[a] /\ size[a] \in Addresses \ {0}
          BY <1>4, <1>6, <2>4, <2>7, <4>3 DEF Tiling
        <5> QED BY <1>5, <2>1, <2>10, <2>11, <4>3, <5>1
      <4> QED BY <2>1, <4>1, <4>2, <4>3
    <3>2. ASSUME NEW a \in blocks', NEW c \in blocks', a < c PROVE EndOf(size', a) <= c
      <4>1. CASE a = rest /\ c \in blocks
        <5>1. b < c
          BY <1>5, <2>2, <3>2, <4>1
        <5> QED BY <1>2, <1>4, <2>10, <4>1, <5>1 DEF Tiling
      <4>2. CASE a = b /\ c = rest
        BY <2>2, <2>10, <4>2
      <4>3. CASE a = b /\ c \in blocks
        <5>1. EndOf(size, b) <= c
          BY <1>2, <1>4, <3>2, <4>3 DEF Tiling
        <5> QED BY <1>5, <2>2, <2>10, <4>3, <5>1
      <4>4. CASE a \in blocks /\ a # b /\ c = rest
        <5>1. a \in Nat
          BY <1>5, <4>4
        <5>2. CASE a < b
          <6>1. EndOf(size, a) <= b
            BY <1>2, <1>4, <4>4, <5>2 DEF Tiling
          <6> QED BY <1>5, <2>2, <2>10, <2>11, <4>4, <6>1
        <5>3. CASE b < a
          <6>1. EndOf(size, b) <= a
            BY <1>2, <1>4, <4>4, <5>3 DEF Tiling
          <6> QED BY <1>5, <2>2, <3>2, <4>4, <5>1, <6>1
        <5> QED BY <1>5, <4>4, <5>1, <5>2, <5>3
      <4>5. CASE a \in blocks /\ a # b /\ c \in blocks
        BY <1>4, <2>10, <3>2, <4>5 DEF Tiling
      <4>6. ~(a = rest /\ c = rest)
        BY <2>2, <3>2
      <4> QED BY <2>1, <4>1, <4>2, <4>3, <4>4, <4>5, <4>6
    <3>3. blocks' \in SUBSET Addresses /\ heap_end \in Addresses /\ HEAP_START \in blocks'
      BY <1>4, <2>1, <2>3 DEF Tiling
    <3>4. Tiling(blocks', size', heap_end')
      BY <1>1, <3>1, <3>2, <3>3 DEF Tiling
    <3> QED BY <1>1, <3>4 DEF HeapTiled
  <2>13. CallersSound'
    <3>1. size'[b] - n <= HEADER /\ n <= size'[b] /\ free'[b] /\ b \in blocks'
      BY <1>2, <1>3, <1>6, <2>1, <2>4, <2>7, <2>8, HeapSizes
    <3> QED BY <1>1, <1>2, <1>7, <3>1 DEF CallersSound, n
  <2>14. MergedButSplit'
    <3> SUFFICES ASSUME NEW a \in blocks', a # b, free'[a], EndOf(size', a) \in blocks', free'[EndOf(size', a)]
                 PROVE  FALSE
      BY <1>1, <1>7 DEF MergedButSplit, End, EndOf
    <3>1. CASE a = rest
      <4>1. EndOf(size, b) \in blocks
        BY <1>5, <2>1, <2>2, <2>10, <3>1
      <4> QED BY <1>2, <1>6, <1>9, <2>4, <2>8, <2>10, <3>1, <4>1
    <3>2. CASE a \in blocks
      <4>1. EndOf(size', a) = EndOf(size, a) /\ EndOf(size, a) # rest
        <5>1. EndOf(size, a) \in blocks \union {heap_end}
          BY <2>11, <3>2
        <5>2. rest # heap_end
          BY <1>5, <2>2
        <5> QED BY <2>4, <2>10, <3>2, <5>1, <5>2
      <4>2. EndOf(size, a) \in blocks
        BY <2>1, <4>1
      <4> QED BY <1>6, <1>9, <2>4, <2>8, <3>2, <4>1, <4>2
    <3> QED BY <2>1, <3>1, <3>2
  <2>15. LiveExact'
    <3>1. {a \in blocks' : ~free'[a]} = {a \in blocks : ~free[a]}
      BY <1>6, <2>1, <2>4, <2>8
    <3>2. \A x \in live : x.at - HEADER \in blocks /\ ~free[x.at - HEADER]
      BY DEF LiveExact
    <3>3. \A x \in live : size'[x.at - HEADER] = size[x.at - HEADER]
      BY <1>2, <1>6, <2>4, <2>7, <3>2
    <3> QED BY <1>1, <3>1, <3>3 DEF LiveExact
  <2> QED BY <1>8, <2>9, <2>12, <2>13, <2>14, <2>15
<1> QED BY <1>10, <1>11

\* heap_expand adds a page that fits behind the last block, and joins it to that
\* one when it is free.
LEMMA ExpandStep ==
  ASSUME HeapInv, ~Preemptible, NEW t \in Callers, heap_expand(t)
  PROVE  HeapInv'
<1> USE DEF HeapInv
<1> DEFINE bs == blocks \union {heap_end}
           sz == [size EXCEPT ![heap_end] = PAGE - HEADER]
           fr == [free EXCEPT ![heap_end] = TRUE]
           end == heap_end + PAGE
<1>1. /\ heap_merge(bs, sz, fr, end)
      /\ heap_pc' = heap_pc /\ request' = request /\ block' = block /\ live' = live
      /\ heap_pc[t] = "find" /\ heap_end < MaxPages * PAGE
      /\ \A u \in Callers : u # t => heap_pc[u] = "run"
  BY Alone DEF heap_expand
<1>2. Tiling(blocks, size, heap_end)
  BY DEF HeapTiled
<1>3. \A u \in Callers : heap_pc[u] \notin {"split", "take"}
  BY <1>1
<1>4. heap_end \in Addresses /\ heap_end \in Nat /\ heap_end % ALIGNMENT = 0 /\ heap_end \notin blocks
  BY <1>2, AddressIsNat DEF Tiling
<1>5. /\ end \in Nat /\ end <= MaxPages * PAGE /\ end % ALIGNMENT = 0
      /\ \E k \in 0..MaxPages : end = k * PAGE
  <2>1. PICK k \in 0..MaxPages : heap_end = k * PAGE
    BY DEF HeapTiled
  <2>2. k # MaxPages
    BY <1>1, <1>4, <2>1
  <2>3. k + 1 \in 0..MaxPages /\ MaxPages - (k + 1) \in Nat /\ k \in Nat /\ MaxPages \in Nat /\ PAGE \in Nat
    BY <2>1, <2>2, HeapSizes
  <2>4. end = (k + 1) * PAGE /\ (MaxPages - (k + 1)) * PAGE = MaxPages * PAGE - (k + 1) * PAGE
    BY <2>1, <2>3
  <2>5. (MaxPages - (k + 1)) * PAGE \in Nat /\ MaxPages * PAGE \in Nat /\ (k + 1) * PAGE \in Nat
    BY <2>3
  <2>6. end <= MaxPages * PAGE
    BY <2>4, <2>5
  <2>7. end % ALIGNMENT = 0
    <3>1. PAGE % ALIGNMENT = 0 /\ PAGE \in Int /\ heap_end \in Int /\ ALIGNMENT \in Nat \ {0}
      BY <1>4, HeapAssumption
    <3> QED BY <1>4, <3>1, AlignedSum
  <2> QED BY <2>3, <2>4, <2>5, <2>6, <2>7
<1>6. end \in Addresses
  BY <1>5, HeapSizes DEF Addresses, HEAP_START
<1>7. PAGE - HEADER \in Addresses \ {0}
  <2>1. PAGE % ALIGNMENT = 0 /\ HEADER % ALIGNMENT = 0 /\ PAGE \in Int /\ HEADER \in Int /\ ALIGNMENT \in Nat \ {0}
    BY HeapAssumption
  <2>2. (PAGE - HEADER) % ALIGNMENT = 0
    BY <2>1, AlignedSum
  <2>3. PAGE - HEADER \in Nat \ {0} /\ PAGE - HEADER <= end
    BY <1>4, HeapSizes
  <2> QED BY <1>6, <2>2, <2>3, NatIsAddress
<1>8. /\ sz[heap_end] = PAGE - HEADER /\ \A a \in blocks : sz[a] = size[a] /\ EndOf(sz, a) = EndOf(size, a)
  BY <1>2, <1>4 DEF CallerTypes, Tiling, EndOf
<1>9. fr \in [Addresses -> BOOLEAN] /\ fr[heap_end] /\ \A a \in blocks : fr[a] = free[a]
  BY <1>2, <1>4 DEF CallerTypes, Tiling
<1>10. EndOf(sz, heap_end) = end /\ heap_end < end
  BY <1>4, <1>8, HeapSizes DEF EndOf
<1> HIDE DEF sz, fr, end
<1>11. \A a \in blocks : /\ size[a] \in Addresses \ {0} /\ a \in Nat /\ a < heap_end /\ EndOf(size, a) \in Nat
                          /\ EndOf(size, a) \in bs /\ EndOf(size, a) <= heap_end
  BY <1>2, TilingEnds DEF Tiling
<1>12. Tiling(bs, sz, end)
  <2>1. \A a \in bs : sz[a] \in Addresses \ {0} /\ a < end /\ EndOf(sz, a) \in bs \union {end}
    BY <1>4, <1>5, <1>7, <1>8, <1>10, <1>11
  <2>2. \A a, c \in bs : a < c => EndOf(sz, a) <= c
    <3> SUFFICES ASSUME NEW a \in bs, NEW c \in bs, a < c PROVE EndOf(sz, a) <= c
      OBVIOUS
    <3>1. a \in blocks
      BY <1>4, <1>11
    <3>2. CASE c = heap_end
      BY <1>8, <1>11, <3>1, <3>2
    <3>3. CASE c \in blocks
      BY <1>2, <1>8, <3>1, <3>3 DEF Tiling
    <3> QED BY <3>2, <3>3
  <2> QED BY <1>2, <1>4, <1>6, <2>1, <2>2 DEF Tiling
<1>13. \A a \in bs : fr[a] /\ EndOf(sz, a) \in bs /\ fr[EndOf(sz, a)] => a = heap_end \/ EndOf(sz, a) = heap_end
  <2> SUFFICES ASSUME NEW a \in blocks, fr[a], EndOf(sz, a) \in blocks, fr[EndOf(sz, a)] PROVE FALSE
    OBVIOUS
  <2>1. free[a] /\ EndOf(size, a) \in blocks /\ free[EndOf(size, a)]
    BY <1>8, <1>9
  <2> QED BY <1>3, <2>1 DEF MergedButSplit, End, EndOf
<1> HIDE DEF bs
<1>14. /\ Tiling(blocks', size', heap_end')
       /\ size' \in [Addresses -> Addresses] /\ free' \in [Addresses -> BOOLEAN] /\ heap_end' = end
       /\ \A a \in blocks' : free'[a] /\ EndOf(size', a) \in blocks' => ~free'[EndOf(size', a)]
       /\ {a \in blocks' : ~free'[a]} = {a \in bs : ~fr[a]}
       /\ \A a \in bs : ~fr[a] => size'[a] = sz[a]
  BY <1>1, <1>3, <1>9, <1>12, <1>13, MergeResult
<1>15. {a \in bs : ~fr[a]} = {a \in blocks : ~free[a]}
  BY <1>9 DEF bs
<1>16. CallerTypes' /\ OneCaller'
  BY <1>1, <1>14 DEF CallerTypes, OneCaller
<1>17. HeapTiled'
  BY <1>5, <1>14 DEF HeapTiled
<1>18. CallersSound'
  BY <1>1, <1>3 DEF CallersSound
<1>19. MergedButSplit'
  BY <1>14 DEF MergedButSplit, End, EndOf
<1>20. LiveExact'
  <2>1. \A x \in live : x.at - HEADER \in blocks /\ ~free[x.at - HEADER]
    BY DEF LiveExact
  <2>2. \A x \in live : size'[x.at - HEADER] = size[x.at - HEADER]
    BY <1>8, <1>9, <1>14, <2>1 DEF bs
  <2> QED BY <1>1, <1>14, <1>15, <2>2 DEF LiveExact
<1> QED BY <1>16, <1>17, <1>18, <1>19, <1>20

\* kfree gives a block back and joins it to its free neighbours.
LEMMA KfreeStep ==
  ASSUME HeapInv, ~Preemptible, NEW t \in Callers, NEW x \in live, kfree(t, x)
  PROVE  HeapInv'
<1> USE DEF HeapInv
<1> DEFINE b == x.at - HEADER
           fr == [free EXCEPT ![b] = TRUE]
<1>1. /\ heap_merge(blocks, size, fr, heap_end)
      /\ heap_pc' = heap_pc /\ request' = request /\ block' = block /\ live' = live \ {x}
      /\ b \in blocks /\ ~free[b]
      /\ \A u \in Callers : heap_pc[u] = "run"
  BY Alone DEF kfree
<1>2. Tiling(blocks, size, heap_end)
  BY DEF HeapTiled
<1>3. \A a \in blocks : a \in Addresses
  BY <1>2 DEF Tiling
<1>4. fr \in [Addresses -> BOOLEAN] /\ fr[b] /\ \A a \in blocks : a # b => fr[a] = free[a]
  BY <1>1, <1>3 DEF CallerTypes
<1> HIDE DEF fr, b
<1>5. \A a \in blocks : fr[a] /\ EndOf(size, a) \in blocks /\ fr[EndOf(size, a)] => a = b \/ EndOf(size, a) = b
  BY <1>1, <1>4 DEF MergedButSplit, End, EndOf
<1>6. /\ Tiling(blocks', size', heap_end')
      /\ size' \in [Addresses -> Addresses] /\ free' \in [Addresses -> BOOLEAN] /\ heap_end' = heap_end
      /\ \A a \in blocks' : free'[a] /\ EndOf(size', a) \in blocks' => ~free'[EndOf(size', a)]
      /\ {a \in blocks' : ~free'[a]} = {a \in blocks : ~fr[a]}
      /\ \A a \in blocks : ~fr[a] => size'[a] = size[a]
  <2>1. \A u \in Callers : heap_pc[u] \notin {"split", "take"}
    BY <1>1
  <2> QED BY <1>1, <1>2, <1>4, <1>5, <2>1, MergeResult
<1>7. CallerTypes' /\ OneCaller' /\ CallersSound'
  BY <1>1, <1>6 DEF CallerTypes, OneCaller, CallersSound
<1>8. HeapTiled'
  BY <1>6 DEF HeapTiled
<1>9. MergedButSplit'
  BY <1>6 DEF MergedButSplit, End, EndOf
<1>10. \A y \in live' : y \in live /\ y.at - HEADER \in blocks /\ ~free[y.at - HEADER] /\ y.at - HEADER # b
  <2> TAKE y \in live'
  <2>1. y \in live /\ y # x
    BY <1>1
  <2>2. y.at # x.at
    BY <2>1 DEF LiveExact
  <2>3. y.at \in Nat /\ x.at \in Nat
    BY <2>1, AddressIsNat DEF CallerTypes
  <2>4. y.at - HEADER # b
    BY <2>2, <2>3, HeapSizes DEF b
  <2> QED BY <2>1, <2>4 DEF LiveExact
<1>11. LiveExact'
  <2>1. {y.at - HEADER : y \in live'} = {a \in blocks : ~fr[a]}
    <3>1. \A y \in live' : y.at - HEADER \in blocks /\ ~fr[y.at - HEADER]
      BY <1>4, <1>10
    <3>2. ASSUME NEW a \in blocks, ~fr[a] PROVE \E y \in live' : y.at - HEADER = a
      <4>1. a # b /\ ~free[a]
        BY <1>4, <3>2
      <4>2. PICK y \in live : y.at - HEADER = a
        BY <4>1 DEF LiveExact
      <4>3. y # x
        BY <4>1, <4>2 DEF b
      <4> QED BY <1>1, <4>2, <4>3
    <3> QED BY <3>1, <3>2
  <2>2. \A y \in live' : size'[y.at - HEADER] = size[y.at - HEADER]
    BY <1>4, <1>6, <1>10
  <2>3. \A y \in live' : y.len <= size'[y.at - HEADER] /\ size'[y.at - HEADER] - y.len < HEADER + ALIGNMENT
    BY <1>10, <2>2 DEF LiveExact
  <2>4. \A y, z \in live' : y.at = z.at => y = z
    BY <1>10 DEF LiveExact
  <2> QED BY <1>6, <2>1, <2>3, <2>4 DEF LiveExact
<1> QED BY <1>7, <1>8, <1>9, <1>11

\* Every step of the heap preserves the invariant.
LEMMA HeapInvNext == ASSUME ~Preemptible PROVE HeapInv /\ [HeapNext]_allHeapVars => HeapInv'
<1> SUFFICES ASSUME HeapInv, [HeapNext]_allHeapVars PROVE HeapInv'
  OBVIOUS
<1>1. CASE UNCHANGED allHeapVars
  <2> USE <1>1 DEF allHeapVars
  <2>1. CallerTypes' /\ OneCaller'
    BY DEF HeapInv, CallerTypes, OneCaller
  <2>2. HeapTiled'
    BY DEF HeapInv, HeapTiled
  <2>3. CallersSound'
    BY DEF HeapInv, CallersSound
  <2>4. MergedButSplit'
    BY DEF HeapInv, MergedButSplit, End
  <2>5. LiveExact'
    BY DEF HeapInv, LiveExact
  <2> QED BY <2>1, <2>2, <2>3, <2>4, <2>5 DEF HeapInv
<1>2. CASE HeapNext
  BY <1>2, KmallocStep, FindStep, ExpandStep, FailStep, SplitStep, TakeStep, KfreeStep DEF HeapNext
<1> QED BY <1>1, <1>2

----------------------------------------------------------------------------
(* The theorems.                                                           *)

\* The invariant holds whatever sequence of kmalloc and kfree calls is made, for
\* every size of page, header, alignment and request, when the callers have
\* disabled interrupts.
THEOREM HeapInvariance == ~Preemptible => (HeapSpec => []HeapInv)
<1> SUFFICES ASSUME ~Preemptible PROVE HeapSpec => []HeapInv
  OBVIOUS
<1> QED BY HeapInvInit, HeapInvNext, PTL DEF HeapSpec

\* The blocks tile the heap, as heap_validate demands: heap_split_block,
\* heap_expand and heap_merge leave neither gaps nor overlaps, and never an
\* unaligned size.
THEOREM HeapTypeCorrect == ~Preemptible => (HeapSpec => []HeapTypeOK)
<1>1. HeapInv => HeapTypeOK
  BY DEF HeapInv, CallerTypes, HeapTiled, Tiling, EndOf, End, HeapTypeOK
<1> QED BY <1>1, HeapInvariance, PTL

\* What kmalloc handed out and kfree did not take back are exactly the blocks in
\* use: none is given out twice, none is lost, each is large enough.
THEOREM LiveExactCorrect == ~Preemptible => (HeapSpec => []LiveExact)
<1>1. HeapInv => LiveExact
  BY DEF HeapInv
<1> QED BY <1>1, HeapInvariance, PTL

\* heap_merge leaves no two free neighbours.
THEOREM CoalescedCorrect == ~Preemptible => (HeapSpec => []Coalesced)
<1>1. HeapInv => Coalesced
  BY DEF HeapInv, MergedButSplit, Coalesced
<1> QED BY <1>1, HeapInvariance, PTL
=============================================================================
