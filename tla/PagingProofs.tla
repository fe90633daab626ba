---------------------------- MODULE PagingProofs ----------------------------
(***************************************************************************)
(* What the operators of Paging do to a memory, for the proofs about user and  *)
(* kernel address spaces, and the facts about numbers those proofs share.     *)
(***************************************************************************)
EXTENDS Paging, FiniteSetTheorems, WellFoundedInduction, TLAPS

\* Numbers of frames and pages.
LEMMA Sizes ==
  /\ NumFrames \in Nat /\ NumPages \in Nat \ {0} /\ TableEntries \in Nat \ {0}
  /\ Frames \in SUBSET Nat /\ Pages \in SUBSET Nat /\ 0 \notin Frames
  /\ IsFiniteSet(Frames) /\ IsFiniteSet(Pages)
<1>1. NumFrames \in Nat /\ NumPages \in Nat \ {0} /\ TableEntries \in Nat \ {0}
  BY PagingAssumption
<1>2. Frames \in SUBSET Nat /\ Pages \in SUBSET Nat /\ 0 \notin Frames
  BY <1>1 DEF Frames, Pages
<1>3. IsFiniteSet(Frames) /\ IsFiniteSet(Pages)
  BY <1>1, FS_Interval DEF Frames, Pages
<1> QED BY <1>1, <1>2, <1>3

\* A page belongs to a table.
LEMMA TableOfPage == \A v \in Pages : Table(v) \in Tables
  BY DEF Tables

\* A set of numbers has a least element, so that Min names one.
LEMMA Least ==
  ASSUME NEW S \in SUBSET Nat, S # {}
  PROVE  Min(S) \in S /\ \A x \in S : Min(S) <= x
<1> DEFINE R == OpToRel(<, Nat)
<1>1. IsWellFoundedOn(R, Nat)
  BY NatLessThanWellFounded
<1>2. \A x, y \in Nat : x < y => << x, y >> \in R
  BY DEF OpToRel
<1> HIDE DEF R
<1>3. PICK m \in S : \A y \in S : << y, m >> \notin R
  BY <1>1, WFMin
<1>4. m \in Nat /\ \A y \in S : y \in Nat /\ ~(y < m)
  BY <1>2, <1>3
<1>5. \A y \in S : m <= y
  BY <1>4
<1> QED BY <1>5, Zenon DEF Min

\* What holds at 0 and is inherited by the next number holds up to n: the set
\* S of the numbers at which it holds is all of them.
LEMMA UpTo ==
  ASSUME NEW n \in Nat, NEW S, 0 \in S, \A i \in 0..(n - 1) : i \in S => i + 1 \in S
  PROVE  \A i \in 0..n : i \in S
<1> DEFINE B == {i \in 0..n : i \notin S}
<1> SUFFICES ASSUME B # {} PROVE FALSE
  OBVIOUS
<1>1. B \in SUBSET Nat
  OBVIOUS
<1> DEFINE k == Min(B)
<1>2. k \in B /\ \A x \in B : k <= x
  BY <1>1, Least
<1>3. k \in 0..n /\ k \notin S
  BY <1>2
<1>4. \A x \in 0..n : x \notin S => k <= x
  BY <1>2
<1> HIDE DEF k, B
<1>5. k # 0
  BY <1>3
<1>6. k - 1 \in 0..(n - 1) /\ k - 1 \in 0..n /\ ~(k <= k - 1) /\ (k - 1) + 1 = k
  BY <1>3, <1>5
<1>7. k - 1 \in S
  BY <1>4, <1>6
<1> QED BY <1>3, <1>6, <1>7

----------------------------------------------------------------------------
(* Memories.                                                               *)

\* The parts of a memory.
LEMMA MemoryParts ==
  ASSUME NEW m \in Memory
  PROVE  /\ m.used \in SUBSET Frames
         /\ m.tables \in [Frames -> [Tables -> Frames \union {0}]]
         /\ m.pages \in [Frames -> [Pages -> Frames \union {0}]]
         /\ m = [used |-> m.used, tables |-> m.tables, pages |-> m.pages]
  BY DEF Memory

\* A memory is its three parts.
LEMMA SameMemory ==
  ASSUME NEW m \in Memory, NEW n \in Memory, m.used = n.used,
         \A d \in Frames, x \in Tables : m.tables[d][x] = n.tables[d][x],
         \A d \in Frames, v \in Pages : m.pages[d][v] = n.pages[d][v]
  PROVE  m = n
<1>1. m.tables = n.tables
  <2>1. \A d \in Frames : m.tables[d] = n.tables[d]
    BY MemoryParts
  <2> QED BY <2>1, MemoryParts
<1>2. m.pages = n.pages
  <2>1. \A d \in Frames : m.pages[d] = n.pages[d]
    BY MemoryParts
  <2> QED BY <2>1, MemoryParts
<1> QED BY <1>1, <1>2, MemoryParts

\* The first free frame.
LEMMA AllocFacts ==
  ASSUME NEW m \in Memory
  PROVE  \/ pmm_alloc_page(m) = 0
         \/ pmm_alloc_page(m) \in Frames \ m.used
<1>1. CASE Frames \subseteq m.used
  BY <1>1 DEF pmm_alloc_page
<1>2. CASE ~(Frames \subseteq m.used)
  <2>1. Frames \ m.used \in SUBSET Nat /\ Frames \ m.used # {}
    BY <1>2, Sizes
  <2>2. Min(Frames \ m.used) \in Frames \ m.used
    BY <2>1, Least
  <2> QED BY <1>2, <2>2 DEF pmm_alloc_page
<1> QED BY <1>1, <1>2

\* One entry of a function of functions.
LEMMA EntryChanged ==
  ASSUME NEW A, NEW I, NEW V, NEW F \in [A -> [I -> V]], NEW a \in A, NEW i \in I, NEW c \in V
  PROVE  /\ [F EXCEPT ![a][i] = c] \in [A -> [I -> V]]
         /\ \A b \in A, j \in I : [F EXCEPT ![a][i] = c][b][j] = IF b = a /\ j = i THEN c ELSE F[b][j]
  OBVIOUS

\* One entry of a memory.
LEMMA RecordEntry ==
  ASSUME NEW u, NEW t, NEW p, NEW d, NEW i, NEW c, NEW m, m = [used |-> u, tables |-> t, pages |-> p]
  PROVE  /\ [m EXCEPT !.pages[d][i] = c] = [used |-> u, tables |-> t, pages |-> [p EXCEPT ![d][i] = c]]
         /\ [m EXCEPT !.tables[d][i] = c] = [used |-> u, tables |-> [t EXCEPT ![d][i] = c], pages |-> p]
  OBVIOUS

\* paging_map into a table that is there.
LEMMA MapInTable ==
  ASSUME NEW m \in Memory, NEW d \in Frames, NEW v \in Pages, NEW f \in Frames, m.tables[d][Table(v)] # 0
  PROVE  LET n == paging_map(m, d, v, f) IN
         /\ n \in Memory /\ n.used = m.used /\ n.tables = m.tables
         /\ \A e \in Frames, w \in Pages : n.pages[e][w] = IF e = d /\ w = v THEN f ELSE m.pages[e][w]
<1> DEFINE P == [m.pages EXCEPT ![d][v] = f]
<1>1. P \in [Frames -> [Pages -> Frames \union {0}]]
      /\ \A e \in Frames, w \in Pages : P[e][w] = IF e = d /\ w = v THEN f ELSE m.pages[e][w]
  BY MemoryParts, EntryChanged
<1>2. paging_map(m, d, v, f) = [used |-> m.used, tables |-> m.tables, pages |-> P]
  <2>1. paging_map(m, d, v, f) = [m EXCEPT !.pages[d][v] = f]
    BY DEF paging_map
  <2>2. m = [used |-> m.used, tables |-> m.tables, pages |-> m.pages]
    BY MemoryParts
  <2>3. [m EXCEPT !.pages[d][v] = f] = [used |-> m.used, tables |-> m.tables, pages |-> P]
    BY <2>2, RecordEntry
  <2> QED BY <2>1, <2>3
<1> HIDE DEF P
<1> QED BY <1>1, <1>2, MemoryParts DEF Memory

\* paging_map when there is neither table nor frame.
LEMMA MapRefused ==
  ASSUME NEW m, NEW d, NEW v, NEW f, m.tables[d][Table(v)] = 0, pmm_alloc_page(m) = 0
  PROVE  paging_map(m, d, v, f) = m
  BY DEF paging_map

\* paging_map that makes the table.
LEMMA MapWithTable ==
  ASSUME NEW m \in Memory, NEW d \in Frames, NEW v \in Pages, NEW f \in Frames, m.tables[d][Table(v)] = 0,
         pmm_alloc_page(m) # 0
  PROVE  LET n == paging_map(m, d, v, f)
             tf == pmm_alloc_page(m) IN
         /\ tf \in Frames \ m.used
         /\ n \in Memory /\ n.used = m.used \union {tf}
         /\ \A e \in Frames, x \in Tables :
              n.tables[e][x] = IF e = d /\ x = Table(v) THEN tf ELSE m.tables[e][x]
         /\ \A e \in Frames, w \in Pages : n.pages[e][w] = IF e = d /\ w = v THEN f ELSE m.pages[e][w]
<1> DEFINE tf == pmm_alloc_page(m)
           P == [m.pages EXCEPT ![d][v] = f]
           T == [m.tables EXCEPT ![d][Table(v)] = tf]
<1>1. tf \in Frames \ m.used
  BY AllocFacts
<1>2. P \in [Frames -> [Pages -> Frames \union {0}]]
      /\ \A e \in Frames, w \in Pages : P[e][w] = IF e = d /\ w = v THEN f ELSE m.pages[e][w]
  BY MemoryParts, EntryChanged
<1>3. T \in [Frames -> [Tables -> Frames \union {0}]]
      /\ \A e \in Frames, x \in Tables : T[e][x] = IF e = d /\ x = Table(v) THEN tf ELSE m.tables[e][x]
  <2>1. tf \in Frames \union {0} /\ Table(v) \in Tables /\ m.tables \in [Frames -> [Tables -> Frames \union {0}]]
    BY <1>1, MemoryParts, TableOfPage
  <2> HIDE DEF tf
  <2> QED BY <2>1, EntryChanged
<1>4. paging_map(m, d, v, f) = [used |-> m.used \union {tf}, tables |-> T, pages |-> P]
  <2> DEFINE n == [m EXCEPT !.pages[d][v] = f]
             k == [used |-> m.used \union {tf}, tables |-> m.tables, pages |-> P]
  <2>1. paging_map(m, d, v, f) = [Taken(n, tf) EXCEPT !.tables[d][Table(v)] = tf]
    BY DEF paging_map
  <2>2. m = [used |-> m.used, tables |-> m.tables, pages |-> m.pages]
    BY MemoryParts
  <2>3. n = [used |-> m.used, tables |-> m.tables, pages |-> P]
    BY <2>2, RecordEntry
  <2>4. k = [used |-> m.used \union {tf}, tables |-> m.tables, pages |-> P]
    OBVIOUS
  <2> HIDE DEF n, k, P, T, tf
  <2>6. Taken(n, tf) = k
    BY <2>3, <2>4 DEF Taken
  <2>5. [k EXCEPT !.tables[d][Table(v)] = tf] = [used |-> m.used \union {tf}, tables |-> T, pages |-> P]
    BY <2>4, RecordEntry DEF T
  <2> QED BY <2>1, <2>5, <2>6
<1> HIDE DEF P, T
<1> QED BY <1>1, <1>2, <1>3, <1>4, MemoryParts DEF Memory

\* A frame is marked, or freed.
LEMMA TakenFacts ==
  ASSUME NEW m \in Memory, NEW f \in Frames
  PROVE  /\ Taken(m, f) \in Memory /\ Taken(m, f).used = m.used \union {f}
         /\ Taken(m, f).tables = m.tables /\ Taken(m, f).pages = m.pages
<1>1. m = [used |-> m.used, tables |-> m.tables, pages |-> m.pages]
  BY MemoryParts
<1>2. Taken(m, f) = [used |-> m.used \union {f}, tables |-> m.tables, pages |-> m.pages]
  BY <1>1 DEF Taken
<1> QED BY <1>2, MemoryParts DEF Memory

LEMMA FreeFacts ==
  ASSUME NEW m \in Memory, NEW f
  PROVE  /\ pmm_free_page(m, f) \in Memory /\ pmm_free_page(m, f).used = m.used \ {f}
         /\ pmm_free_page(m, f).tables = m.tables /\ pmm_free_page(m, f).pages = m.pages
<1>1. m = [used |-> m.used, tables |-> m.tables, pages |-> m.pages]
  BY MemoryParts
<1>2. pmm_free_page(m, f) = [used |-> m.used \ {f}, tables |-> m.tables, pages |-> m.pages]
  BY <1>1 DEF pmm_free_page
<1> QED BY <1>2, MemoryParts DEF Memory

\* paging_unmap of a page without a table.
LEMMA UnmapNone ==
  ASSUME NEW m, NEW d, NEW v, m.tables[d][Table(v)] = 0
  PROVE  paging_unmap(m, d, v) = m
  BY DEF paging_unmap

\* The pages once one of them is cleared.
LEMMA ClearedFacts ==
  ASSUME NEW m \in Memory, NEW d \in Frames, NEW v \in Pages
  PROVE  LET n == [m EXCEPT !.pages[d][v] = 0] IN
         /\ n \in Memory /\ n.used = m.used /\ n.tables = m.tables
         /\ \A e \in Frames, w \in Pages : n.pages[e][w] = IF e = d /\ w = v THEN 0 ELSE m.pages[e][w]
<1> DEFINE P == [m.pages EXCEPT ![d][v] = 0]
<1>1. P \in [Frames -> [Pages -> Frames \union {0}]]
      /\ \A e \in Frames, w \in Pages : P[e][w] = IF e = d /\ w = v THEN 0 ELSE m.pages[e][w]
  <2>1. 0 \in Frames \union {0} /\ m.pages \in [Frames -> [Pages -> Frames \union {0}]]
    BY MemoryParts
  <2> QED BY <2>1, EntryChanged
<1>2. m = [used |-> m.used, tables |-> m.tables, pages |-> m.pages]
  BY MemoryParts
<1>3. [m EXCEPT !.pages[d][v] = 0] = [used |-> m.used, tables |-> m.tables, pages |-> P]
  BY <1>2, RecordEntry
<1> HIDE DEF P
<1> QED BY <1>1, <1>3, MemoryParts DEF Memory

\* paging_unmap of a page that shares its table.
LEMMA UnmapShared ==
  ASSUME NEW m \in Memory, NEW d \in Frames, NEW v \in Pages, m.tables[d][Table(v)] # 0,
         NEW w \in Pages, w # v, Table(w) = Table(v), m.pages[d][w] # 0
  PROVE  LET n == paging_unmap(m, d, v) IN
         /\ n \in Memory /\ n.used = m.used /\ n.tables = m.tables
         /\ \A e \in Frames, z \in Pages : n.pages[e][z] = IF e = d /\ z = v THEN 0 ELSE m.pages[e][z]
<1> DEFINE n == [m EXCEPT !.pages[d][v] = 0]
<1>1. /\ n \in Memory /\ n.used = m.used /\ n.tables = m.tables
      /\ \A e \in Frames, z \in Pages : n.pages[e][z] = IF e = d /\ z = v THEN 0 ELSE m.pages[e][z]
  BY ClearedFacts
<1>2. (\E z \in Pages : Table(z) = Table(v) /\ n.pages[d][z] # 0) => paging_unmap(m, d, v) = n
  BY DEF paging_unmap
<1> HIDE DEF n
<1>3. \E z \in Pages : Table(z) = Table(v) /\ n.pages[d][z] # 0
  BY <1>1
<1> QED BY <1>1, <1>2, <1>3

\* paging_unmap of the only page in its table.
LEMMA UnmapLast ==
  ASSUME NEW m \in Memory, NEW d \in Frames, NEW v \in Pages, m.tables[d][Table(v)] # 0,
         \A w \in Pages : w # v /\ Table(w) = Table(v) => m.pages[d][w] = 0
  PROVE  LET n == paging_unmap(m, d, v) IN
         /\ n \in Memory /\ n.used = m.used \ {m.tables[d][Table(v)]}
         /\ \A e \in Frames, x \in Tables :
              n.tables[e][x] = IF e = d /\ x = Table(v) THEN 0 ELSE m.tables[e][x]
         /\ \A e \in Frames, z \in Pages : n.pages[e][z] = IF e = d /\ z = v THEN 0 ELSE m.pages[e][z]
<1> DEFINE n == [m EXCEPT !.pages[d][v] = 0]
           tf == m.tables[d][Table(v)]
           k == pmm_free_page(n, tf)
           T == [m.tables EXCEPT ![d][Table(v)] = 0]
<1>1. /\ n \in Memory /\ n.used = m.used /\ n.tables = m.tables
      /\ \A e \in Frames, z \in Pages : n.pages[e][z] = IF e = d /\ z = v THEN 0 ELSE m.pages[e][z]
  BY ClearedFacts
<1>2. ~(\E z \in Pages : Table(z) = Table(v) /\ n.pages[d][z] # 0) =>
        paging_unmap(m, d, v) = [k EXCEPT !.tables[d][Table(v)] = 0]
  BY DEF paging_unmap
<1> HIDE DEF n
<1>3. ~ \E z \in Pages : Table(z) = Table(v) /\ n.pages[d][z] # 0
  BY <1>1
<1>4. k \in Memory /\ k.used = m.used \ {tf} /\ k.tables = m.tables /\ k.pages = n.pages
  BY <1>1, FreeFacts
<1>5. k = [used |-> m.used \ {tf}, tables |-> m.tables, pages |-> n.pages]
  BY <1>4, MemoryParts
<1> HIDE DEF k, tf, T
<1>6. [k EXCEPT !.tables[d][Table(v)] = 0] = [used |-> m.used \ {tf}, tables |-> T, pages |-> n.pages]
  BY <1>5, RecordEntry DEF T
<1>7. T \in [Frames -> [Tables -> Frames \union {0}]]
      /\ \A e \in Frames, x \in Tables : T[e][x] = IF e = d /\ x = Table(v) THEN 0 ELSE m.tables[e][x]
  <2>1. 0 \in Frames \union {0} /\ Table(v) \in Tables /\ m.tables \in [Frames -> [Tables -> Frames \union {0}]]
    BY MemoryParts, TableOfPage
  <2> QED BY <2>1, EntryChanged DEF T
<1>8. m.used \ {tf} \in SUBSET Frames /\ n.pages \in [Frames -> [Pages -> Frames \union {0}]]
  BY <1>1, MemoryParts
<1>9. paging_unmap(m, d, v) = [used |-> m.used \ {tf}, tables |-> T, pages |-> n.pages]
  BY <1>2, <1>3, <1>6
<1> QED BY <1>1, <1>7, <1>8, <1>9 DEF Memory, tf

=============================================================================
