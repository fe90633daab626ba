------------------------ MODULE AddressSpaceProofs -------------------------
(***************************************************************************)
(* Proofs about user address spaces (AddressSpace): for any number of frames,   *)
(* pages, threads, processes and images every frame has one owner, stacks are    *)
(* distinct and mapped, and an operation that fails gives back all it took.      *)
(***************************************************************************)
EXTENDS AddressSpace, PagingProofs, SequenceTheorems

\* A set of pages has a greatest element, so that Max names one.
LEMMA Greatest ==
  ASSUME NEW S \in SUBSET Pages, S # {}
  PROVE  Max(S) \in S /\ \A x \in S : Max(S) >= x
<1> DEFINE R == {NumPages - x : x \in S}
<1>1. \A x \in S : x \in Nat /\ x <= NumPages - 1 /\ NumPages \in Nat
  BY Sizes DEF Pages
<1>2. R \in SUBSET Nat /\ R # {}
  BY <1>1
<1>3. Min(R) \in R /\ \A y \in R : Min(R) <= y
  BY <1>2, Least
<1>4. PICK m \in S : \A y \in R : NumPages - m <= y
  BY <1>3
<1>5. \A x \in S : NumPages - m <= NumPages - x
  BY <1>4
<1>6. \A x \in S : m >= x
  BY <1>1, <1>5
<1> QED BY <1>6, Zenon DEF Max

----------------------------------------------------------------------------
(* Memories.                                                               *)

\* Every frame in use is in the base B or in exactly one entry of a table or
\* directory, and everything in an entry is in use.
Owned(m, B) ==
  /\ \A f \in m.used : \/ f \in B
                       \/ \E d \in Frames, x \in Tables : m.tables[d][x] = f
                       \/ \E d \in Frames, v \in Pages : m.pages[d][v] = f
  /\ B \subseteq m.used
  /\ \A d \in Frames, x \in Tables : m.tables[d][x] # 0 => m.tables[d][x] \in m.used \ B
  /\ \A d \in Frames, v \in Pages : m.pages[d][v] # 0 => m.pages[d][v] \in m.used \ B
  /\ \A d, e \in Frames, x, y \in Tables :
       m.tables[d][x] # 0 /\ m.tables[d][x] = m.tables[e][y] => d = e /\ x = y
  /\ \A d, e \in Frames, v, w \in Pages :
       m.pages[d][v] # 0 /\ m.pages[d][v] = m.pages[e][w] => d = e /\ v = w
  /\ \A d, e \in Frames, x \in Tables, v \in Pages :
       m.tables[d][x] # 0 => m.tables[d][x] # m.pages[e][v]

\* A page is mapped through a table, and no table is empty.
Shaped(m) ==
  /\ \A d \in Frames, v \in Pages : m.pages[d][v] # 0 => m.tables[d][Table(v)] # 0
  /\ \A d \in Frames, x \in Tables : m.tables[d][x] # 0 =>
       \E v \in Pages : Table(v) = x /\ m.pages[d][v] # 0

\* What is not a directory has no entries.
Blank(m, D) ==
  \A d \in Frames \ D : /\ \A x \in Tables : m.tables[d][x] = 0
                        /\ \A v \in Pages : m.pages[d][v] = 0

\* A memory with the directories D in which the frames K belong to others: the
\* kernel and the kernel stacks.
Sound(m, D, K) ==
  /\ m \in Memory /\ D \subseteq Frames /\ K \subseteq Frames /\ D \intersect K = {}
  /\ Owned(m, D \union K) /\ Shaped(m) /\ Blank(m, D)

\* What is in use follows from the entries.
LEMMA SameEntries ==
  ASSUME NEW B, NEW m \in Memory, NEW n \in Memory, Owned(m, B), Owned(n, B),
         \A d \in Frames, x \in Tables : m.tables[d][x] = n.tables[d][x],
         \A d \in Frames, v \in Pages : m.pages[d][v] = n.pages[d][v]
  PROVE  m = n
<1>0. 0 \notin Frames /\ m.used \subseteq Frames /\ n.used \subseteq Frames
  BY Sizes, MemoryParts
<1>1. \A f \in m.used : f \in n.used
  BY <1>0 DEF Owned
<1>2. \A f \in n.used : f \in m.used
  BY <1>0 DEF Owned
<1>3. m.used = n.used
  BY <1>1, <1>2
<1> QED BY <1>3, SameMemory

----------------------------------------------------------------------------
(* Who owns what, after a change of one entry.                              *)

\* A free frame is entered as a page.
LEMMA OwnPage ==
  ASSUME NEW B, NEW m \in Memory, NEW n \in Memory, Owned(m, B), NEW d \in Frames, NEW v \in Pages,
         m.pages[d][v] = 0, NEW f \in Frames \ m.used,
         n.used = m.used \union {f}, n.tables = m.tables,
         \A e \in Frames, w \in Pages : n.pages[e][w] = IF e = d /\ w = v THEN f ELSE m.pages[e][w]
  PROVE  Owned(n, B)
<1>0. 0 \notin Frames /\ m.used \subseteq Frames /\ f # 0
  BY Sizes, MemoryParts
<1>1. \A g \in n.used : \/ g \in B
                        \/ \E e \in Frames, x \in Tables : n.tables[e][x] = g
                        \/ \E e \in Frames, w \in Pages : n.pages[e][w] = g
  <2> SUFFICES ASSUME NEW g \in n.used, g \notin B,
                      ~ \E e \in Frames, x \in Tables : n.tables[e][x] = g
               PROVE  \E e \in Frames, w \in Pages : n.pages[e][w] = g
    OBVIOUS
  <2>1. CASE g = f
    BY <2>1
  <2>2. CASE g # f
    <3>1. PICK e \in Frames, w \in Pages : m.pages[e][w] = g
      BY <2>2 DEF Owned
    <3>2. ~(e = d /\ w = v)
      BY <1>0, <3>1, <2>2
    <3> QED BY <3>1, <3>2
  <2> QED BY <2>1, <2>2
<1>2. B \subseteq n.used /\ f \notin B
  BY DEF Owned
<1>3. \A e \in Frames, x \in Tables : n.tables[e][x] # 0 => n.tables[e][x] \in n.used \ B
  BY DEF Owned
<1>4. \A e \in Frames, w \in Pages : n.pages[e][w] # 0 => n.pages[e][w] \in n.used \ B
  BY <1>2 DEF Owned
<1>5. \A e, c \in Frames, x, y \in Tables :
        n.tables[e][x] # 0 /\ n.tables[e][x] = n.tables[c][y] => e = c /\ x = y
  BY DEF Owned
<1>6. \A e, c \in Frames, w, z \in Pages :
        n.pages[e][w] # 0 /\ n.pages[e][w] = n.pages[c][z] => e = c /\ w = z
  BY <1>0 DEF Owned
<1>7. \A e, c \in Frames, x \in Tables, w \in Pages :
        n.tables[e][x] # 0 => n.tables[e][x] # n.pages[c][w]
  BY <1>0 DEF Owned
<1> QED BY <1>1, <1>2, <1>3, <1>4, <1>5, <1>6, <1>7 DEF Owned

\* A free frame is entered as a page table.
LEMMA OwnTable ==
  ASSUME NEW B, NEW m \in Memory, NEW n \in Memory, Owned(m, B), NEW d \in Frames, NEW x \in Tables,
         m.tables[d][x] = 0, NEW f \in Frames \ m.used,
         n.used = m.used \union {f}, n.pages = m.pages,
         \A e \in Frames, y \in Tables : n.tables[e][y] = IF e = d /\ y = x THEN f ELSE m.tables[e][y]
  PROVE  Owned(n, B)
<1>0. 0 \notin Frames /\ m.used \subseteq Frames /\ f # 0
  BY Sizes, MemoryParts
<1>1. \A g \in n.used : \/ g \in B
                        \/ \E e \in Frames, y \in Tables : n.tables[e][y] = g
                        \/ \E e \in Frames, w \in Pages : n.pages[e][w] = g
  <2> SUFFICES ASSUME NEW g \in n.used, g \notin B,
                      ~ \E e \in Frames, w \in Pages : n.pages[e][w] = g
               PROVE  \E e \in Frames, y \in Tables : n.tables[e][y] = g
    OBVIOUS
  <2>1. CASE g = f
    BY <2>1
  <2>2. CASE g # f
    <3>1. PICK e \in Frames, y \in Tables : m.tables[e][y] = g
      BY <2>2 DEF Owned
    <3>2. ~(e = d /\ y = x)
      BY <1>0, <3>1, <2>2
    <3> QED BY <3>1, <3>2
  <2> QED BY <2>1, <2>2
<1>2. B \subseteq n.used /\ f \notin B
  BY DEF Owned
<1>3. \A e \in Frames, y \in Tables : n.tables[e][y] # 0 => n.tables[e][y] \in n.used \ B
  BY <1>2 DEF Owned
<1>4. \A e \in Frames, w \in Pages : n.pages[e][w] # 0 => n.pages[e][w] \in n.used \ B
  BY DEF Owned
<1>5. \A e, c \in Frames, z, y \in Tables :
        n.tables[e][z] # 0 /\ n.tables[e][z] = n.tables[c][y] => e = c /\ z = y
  BY <1>0 DEF Owned
<1>6. \A e, c \in Frames, w, z \in Pages :
        n.pages[e][w] # 0 /\ n.pages[e][w] = n.pages[c][z] => e = c /\ w = z
  BY DEF Owned
<1>7. \A e, c \in Frames, y \in Tables, w \in Pages :
        n.tables[e][y] # 0 => n.tables[e][y] # n.pages[c][w]
  BY <1>0 DEF Owned
<1> QED BY <1>1, <1>2, <1>3, <1>4, <1>5, <1>6, <1>7 DEF Owned

\* A page is taken out and its frame freed.
LEMMA DropPage ==
  ASSUME NEW B, NEW m \in Memory, NEW n \in Memory, Owned(m, B), NEW d \in Frames, NEW v \in Pages,
         m.pages[d][v] # 0, n.used = m.used \ {m.pages[d][v]}, n.tables = m.tables,
         \A e \in Frames, w \in Pages : n.pages[e][w] = IF e = d /\ w = v THEN 0 ELSE m.pages[e][w]
  PROVE  Owned(n, B)
<1> DEFINE f == m.pages[d][v]
<1>0. f \in m.used /\ f \notin B /\ f # 0
  BY DEF Owned
<1>1. \A g \in n.used : \/ g \in B
                        \/ \E e \in Frames, x \in Tables : n.tables[e][x] = g
                        \/ \E e \in Frames, w \in Pages : n.pages[e][w] = g
  <2> SUFFICES ASSUME NEW g \in n.used, g \notin B,
                      ~ \E e \in Frames, x \in Tables : n.tables[e][x] = g
               PROVE  \E e \in Frames, w \in Pages : n.pages[e][w] = g
    OBVIOUS
  <2>1. g # f /\ g \in m.used
    OBVIOUS
  <2>2. PICK e \in Frames, w \in Pages : m.pages[e][w] = g
    BY <2>1 DEF Owned
  <2>3. ~(e = d /\ w = v)
    BY <2>1, <2>2
  <2> QED BY <2>2, <2>3
<1>2. B \subseteq n.used
  BY <1>0 DEF Owned
<1>3. \A e \in Frames, x \in Tables : n.tables[e][x] # 0 => n.tables[e][x] \in n.used \ B
  BY <1>0 DEF Owned
<1>4. \A e \in Frames, w \in Pages : n.pages[e][w] # 0 => n.pages[e][w] \in n.used \ B
  BY <1>0 DEF Owned
<1>5. \A e, c \in Frames, x, y \in Tables :
        n.tables[e][x] # 0 /\ n.tables[e][x] = n.tables[c][y] => e = c /\ x = y
  BY DEF Owned
<1>6. \A e, c \in Frames, w, z \in Pages :
        n.pages[e][w] # 0 /\ n.pages[e][w] = n.pages[c][z] => e = c /\ w = z
  BY DEF Owned
<1>7. \A e, c \in Frames, x \in Tables, w \in Pages :
        n.tables[e][x] # 0 => n.tables[e][x] # n.pages[c][w]
  BY DEF Owned
<1> QED BY <1>1, <1>2, <1>3, <1>4, <1>5, <1>6, <1>7 DEF Owned

\* A page table is taken out and its frame freed.
LEMMA DropTable ==
  ASSUME NEW B, NEW m \in Memory, NEW n \in Memory, Owned(m, B), NEW d \in Frames, NEW x \in Tables,
         m.tables[d][x] # 0, n.used = m.used \ {m.tables[d][x]}, n.pages = m.pages,
         \A e \in Frames, y \in Tables : n.tables[e][y] = IF e = d /\ y = x THEN 0 ELSE m.tables[e][y]
  PROVE  Owned(n, B)
<1> DEFINE f == m.tables[d][x]
<1>0. f \in m.used /\ f \notin B /\ f # 0
  BY DEF Owned
<1>1. \A g \in n.used : \/ g \in B
                        \/ \E e \in Frames, y \in Tables : n.tables[e][y] = g
                        \/ \E e \in Frames, w \in Pages : n.pages[e][w] = g
  <2> SUFFICES ASSUME NEW g \in n.used, g \notin B,
                      ~ \E e \in Frames, w \in Pages : n.pages[e][w] = g
               PROVE  \E e \in Frames, y \in Tables : n.tables[e][y] = g
    OBVIOUS
  <2>1. g # f /\ g \in m.used
    OBVIOUS
  <2>2. PICK e \in Frames, y \in Tables : m.tables[e][y] = g
    BY <2>1 DEF Owned
  <2>3. ~(e = d /\ y = x)
    BY <2>1, <2>2
  <2> QED BY <2>2, <2>3
<1>2. B \subseteq n.used
  BY <1>0 DEF Owned
<1>3. \A e \in Frames, y \in Tables : n.tables[e][y] # 0 => n.tables[e][y] \in n.used \ B
  BY <1>0 DEF Owned
<1>4. \A e \in Frames, w \in Pages : n.pages[e][w] # 0 => n.pages[e][w] \in n.used \ B
  BY <1>0 DEF Owned
<1>5. \A e, c \in Frames, z, y \in Tables :
        n.tables[e][z] # 0 /\ n.tables[e][z] = n.tables[c][y] => e = c /\ z = y
  BY DEF Owned
<1>6. \A e, c \in Frames, w, z \in Pages :
        n.pages[e][w] # 0 /\ n.pages[e][w] = n.pages[c][z] => e = c /\ w = z
  BY DEF Owned
<1>7. \A e, c \in Frames, y \in Tables, w \in Pages :
        n.tables[e][y] # 0 => n.tables[e][y] # n.pages[c][w]
  BY DEF Owned
<1> QED BY <1>1, <1>2, <1>3, <1>4, <1>5, <1>6, <1>7 DEF Owned

\* Free frames are taken by somebody else, a directory or a kernel stack.
LEMMA OwnBase ==
  ASSUME NEW B, NEW m \in Memory, NEW n \in Memory, Owned(m, B), NEW S \in SUBSET (Frames \ m.used),
         n.used = m.used \union S, n.tables = m.tables, n.pages = m.pages
  PROVE  Owned(n, B \union S)
  BY DEF Owned

\* They are given back.
LEMMA DropBase ==
  ASSUME NEW B, NEW m \in Memory, NEW n \in Memory, Owned(m, B), NEW S \in SUBSET B,
         n.used = m.used \ S, n.tables = m.tables, n.pages = m.pages
  PROVE  Owned(n, B \ S)
  BY DEF Owned

\* A directory goes with all that hangs off it.
LEMMA DropDirectory ==
  ASSUME NEW B, NEW m \in Memory, NEW n \in Memory, Owned(m, B), NEW d \in Frames, d \in B,
         n.used = m.used \ SpaceFrames(m, d),
         \A e \in Frames, x \in Tables : n.tables[e][x] = IF e = d THEN 0 ELSE m.tables[e][x],
         \A e \in Frames, v \in Pages : n.pages[e][v] = IF e = d THEN 0 ELSE m.pages[e][v]
  PROVE  Owned(n, B \ {d})
<1>0. 0 \notin Frames /\ m.used \subseteq Frames
  BY Sizes, MemoryParts
<1>1. \A g : g \in SpaceFrames(m, d) <=> \/ g = d \/ \E x \in Tables : m.tables[d][x] = g
                                         \/ \E v \in Pages : m.pages[d][v] = g
  BY DEF SpaceFrames
<1>2. \A g \in n.used : \/ g \in B \ {d}
                        \/ \E e \in Frames, x \in Tables : n.tables[e][x] = g
                        \/ \E e \in Frames, w \in Pages : n.pages[e][w] = g
  <2> SUFFICES ASSUME NEW g \in n.used, g \notin B \ {d}
               PROVE  \/ \E e \in Frames, x \in Tables : n.tables[e][x] = g
                      \/ \E e \in Frames, w \in Pages : n.pages[e][w] = g
    OBVIOUS
  <2>1. g \in m.used /\ g \notin SpaceFrames(m, d)
    OBVIOUS
  <2>2. g # d /\ g \notin B /\ (\A x \in Tables : m.tables[d][x] # g) /\ (\A v \in Pages : m.pages[d][v] # g)
    BY <1>1, <2>1
  <2>3. CASE \E e \in Frames, x \in Tables : m.tables[e][x] = g
    BY <2>2, <2>3
  <2>4. CASE \E e \in Frames, w \in Pages : m.pages[e][w] = g
    BY <2>2, <2>4
  <2> QED BY <2>1, <2>2, <2>3, <2>4 DEF Owned
<1>3. B \ {d} \subseteq n.used
  <2> SUFFICES ASSUME NEW g \in B, g # d PROVE g \in n.used
    OBVIOUS
  <2>1. g \in m.used /\ g # 0
    BY <1>0 DEF Owned
  <2>2. (\A x \in Tables : m.tables[d][x] # g) /\ (\A v \in Pages : m.pages[d][v] # g)
    BY <2>1 DEF Owned
  <2> QED BY <1>1, <2>1, <2>2
<1>4. \A e \in Frames, x \in Tables : n.tables[e][x] # 0 => n.tables[e][x] \in n.used \ (B \ {d})
  <2> SUFFICES ASSUME NEW e \in Frames, NEW x \in Tables, n.tables[e][x] # 0
               PROVE  n.tables[e][x] \in n.used \ (B \ {d})
    OBVIOUS
  <2> DEFINE g == m.tables[e][x]
  <2>1. e # d /\ n.tables[e][x] = g /\ g # 0
    OBVIOUS
  <2>2. g \in m.used /\ g \notin B
    BY <2>1 DEF Owned
  <2>3. (\A y \in Tables : m.tables[d][y] # g) /\ (\A v \in Pages : m.pages[d][v] # g) /\ g # d
    BY <2>1, <2>2 DEF Owned
  <2> QED BY <1>1, <2>1, <2>2, <2>3
<1>5. \A e \in Frames, v \in Pages : n.pages[e][v] # 0 => n.pages[e][v] \in n.used \ (B \ {d})
  <2> SUFFICES ASSUME NEW e \in Frames, NEW v \in Pages, n.pages[e][v] # 0
               PROVE  n.pages[e][v] \in n.used \ (B \ {d})
    OBVIOUS
  <2> DEFINE g == m.pages[e][v]
  <2>1. e # d /\ n.pages[e][v] = g /\ g # 0
    OBVIOUS
  <2>2. g \in m.used /\ g \notin B
    BY <2>1 DEF Owned
  <2>3. (\A y \in Tables : m.tables[d][y] # g) /\ (\A w \in Pages : m.pages[d][w] # g) /\ g # d
    BY <2>1, <2>2 DEF Owned
  <2> QED BY <1>1, <2>1, <2>2, <2>3
<1>6. \A e, c \in Frames, x, y \in Tables :
        n.tables[e][x] # 0 /\ n.tables[e][x] = n.tables[c][y] => e = c /\ x = y
  BY DEF Owned
<1>7. \A e, c \in Frames, w, z \in Pages :
        n.pages[e][w] # 0 /\ n.pages[e][w] = n.pages[c][z] => e = c /\ w = z
  BY DEF Owned
<1>8. \A e, c \in Frames, x \in Tables, w \in Pages :
        n.tables[e][x] # 0 => n.tables[e][x] # n.pages[c][w]
  BY DEF Owned
<1> QED BY <1>2, <1>3, <1>4, <1>5, <1>6, <1>7, <1>8 DEF Owned

----------------------------------------------------------------------------
(* What the operations of paging.c do to the parts of a memory.               *)

----------------------------------------------------------------------------
(* Mapping and unmapping a page keeps a memory sound.                        *)

\* From m to n, nothing but directory d has changed, and of its pages only
\* those in S.
Beside(m, n, d, S) ==
  /\ \A e \in Frames \ {d}, x \in Tables : n.tables[e][x] = m.tables[e][x]
  /\ \A e \in Frames, v \in Pages : ~(e = d /\ v \in S) => n.pages[e][v] = m.pages[e][v]

\* A frame mapped through a table that is there.
LEMMA MapShared ==
  ASSUME NEW D, NEW K, NEW m, Sound(m, D, K), NEW d \in D, NEW v \in Pages, m.pages[d][v] = 0,
         NEW f \in Frames \ m.used, m.tables[d][Table(v)] # 0
  PROVE  LET n == paging_map(Taken(m, f), d, v, f) IN
         /\ Sound(n, D, K) /\ Beside(m, n, d, {v}) /\ n.pages[d][v] = f
         /\ pmm_free_page(paging_unmap(n, d, v), f) = m
<1> DEFINE k == Taken(m, f)
           n == paging_map(k, d, v, f)
           u == paging_unmap(n, d, v)
           z == pmm_free_page(u, f)
<1>0. /\ m \in Memory /\ d \in Frames /\ D \subseteq Frames /\ K \subseteq Frames /\ D \intersect K = {}
      /\ Owned(m, D \union K) /\ Shaped(m) /\ Blank(m, D) /\ f # 0 /\ Table(v) \in Tables
  BY Sizes, TableOfPage DEF Sound
<1>1. k \in Memory /\ k.used = m.used \union {f} /\ k.tables = m.tables /\ k.pages = m.pages
  BY <1>0, TakenFacts
<1> HIDE DEF k
<1>2. /\ n \in Memory /\ n.used = m.used \union {f} /\ n.tables = m.tables
      /\ \A e \in Frames, w \in Pages : n.pages[e][w] = IF e = d /\ w = v THEN f ELSE m.pages[e][w]
  <2>1. f \in Frames /\ k.tables[d][Table(v)] # 0
    BY <1>1
  <2>2. /\ n \in Memory /\ n.used = k.used /\ n.tables = k.tables
        /\ \A e \in Frames, w \in Pages : n.pages[e][w] = IF e = d /\ w = v THEN f ELSE k.pages[e][w]
    BY <1>0, <1>1, <2>1, MapInTable
  <2> QED BY <1>1, <2>2
<1> HIDE DEF n
<1>3. Owned(n, D \union K)
  BY <1>0, <1>2, OwnPage
<1>4. PICK w \in Pages : Table(w) = Table(v) /\ m.pages[d][w] # 0
  BY <1>0 DEF Shaped
<1>5. Shaped(n)
  <2>1. \A e \in Frames, y \in Pages : n.pages[e][y] # 0 => n.tables[e][Table(y)] # 0
    BY <1>0, <1>2 DEF Shaped
  <2>2. ASSUME NEW e \in Frames, NEW x \in Tables, n.tables[e][x] # 0
        PROVE  \E y \in Pages : Table(y) = x /\ n.pages[e][y] # 0
    <3>1. PICK y \in Pages : Table(y) = x /\ m.pages[e][y] # 0
      BY <1>0, <1>2, <2>2 DEF Shaped
    <3>2. n.pages[e][y] # 0
      BY <1>0, <1>2, <3>1
    <3> QED BY <3>1, <3>2
  <2> QED BY <2>1, <2>2 DEF Shaped
<1>6. Blank(n, D)
  BY <1>0, <1>2 DEF Blank
<1>7. Sound(n, D, K) /\ Beside(m, n, d, {v}) /\ n.pages[d][v] = f
  BY <1>0, <1>2, <1>3, <1>5, <1>6 DEF Sound, Beside
<1>8. /\ u \in Memory /\ u.used = n.used /\ u.tables = n.tables
      /\ \A e \in Frames, y \in Pages : u.pages[e][y] = IF e = d /\ y = v THEN 0 ELSE n.pages[e][y]
  <2>1. w # v /\ n.tables[d][Table(v)] # 0 /\ n.pages[d][w] # 0
    BY <1>0, <1>2, <1>4
  <2> QED BY <1>0, <1>2, <1>4, <2>1, UnmapShared
<1> HIDE DEF u
<1>9. z \in Memory /\ z.used = u.used \ {f} /\ z.tables = u.tables /\ z.pages = u.pages
  BY <1>8, FreeFacts
<1> HIDE DEF z
<1>10. z = m
  <2>1. z.used = m.used
    BY <1>2, <1>8, <1>9
  <2>2. \A e \in Frames, x \in Tables : z.tables[e][x] = m.tables[e][x]
    BY <1>2, <1>8, <1>9
  <2>3. \A e \in Frames, y \in Pages : z.pages[e][y] = m.pages[e][y]
    BY <1>2, <1>8, <1>9
  <2> QED BY <1>0, <1>9, <2>1, <2>2, <2>3, SameMemory
<1> QED BY <1>7, <1>10 DEF k, n, u, z

\* A frame mapped through a new table.
LEMMA MapFirst ==
  ASSUME NEW D, NEW K, NEW m, Sound(m, D, K), NEW d \in D, NEW v \in Pages, m.pages[d][v] = 0,
         NEW f \in Frames \ m.used, m.tables[d][Table(v)] = 0, pmm_alloc_page(Taken(m, f)) # 0
  PROVE  LET n == paging_map(Taken(m, f), d, v, f) IN
         /\ Sound(n, D, K) /\ Beside(m, n, d, {v}) /\ n.pages[d][v] = f
         /\ pmm_free_page(paging_unmap(n, d, v), f) = m
<1> DEFINE k == Taken(m, f)
           tf == pmm_alloc_page(k)
           n == paging_map(k, d, v, f)
           u == paging_unmap(n, d, v)
           z == pmm_free_page(u, f)
<1>0. /\ m \in Memory /\ d \in Frames /\ D \subseteq Frames /\ K \subseteq Frames /\ D \intersect K = {}
      /\ Owned(m, D \union K) /\ Shaped(m) /\ Blank(m, D) /\ f # 0 /\ Table(v) \in Tables
  BY Sizes, TableOfPage DEF Sound
<1>1. k \in Memory /\ k.used = m.used \union {f} /\ k.tables = m.tables /\ k.pages = m.pages
  BY <1>0, TakenFacts
<1>1a. tf # 0
  OBVIOUS
<1> HIDE DEF k
<1>2. /\ tf \in Frames \ (m.used \union {f}) /\ n \in Memory /\ n.used = m.used \union {f} \union {tf}
      /\ \A e \in Frames, x \in Tables :
           n.tables[e][x] = IF e = d /\ x = Table(v) THEN tf ELSE m.tables[e][x]
      /\ \A e \in Frames, w \in Pages : n.pages[e][w] = IF e = d /\ w = v THEN f ELSE m.pages[e][w]
  <2>1. f \in Frames /\ k.tables[d][Table(v)] = 0
    BY <1>1
  <2>2. /\ tf \in Frames \ k.used /\ n \in Memory /\ n.used = k.used \union {tf}
        /\ \A e \in Frames, x \in Tables :
             n.tables[e][x] = IF e = d /\ x = Table(v) THEN tf ELSE k.tables[e][x]
        /\ \A e \in Frames, w \in Pages : n.pages[e][w] = IF e = d /\ w = v THEN f ELSE k.pages[e][w]
    BY <1>0, <1>1, <1>1a, <2>1, MapWithTable
  <2> QED BY <1>1, <2>2
<1> HIDE DEF n, tf
<1>3. Owned(n, D \union K)
  <2> DEFINE h == [used |-> m.used \union {f}, tables |-> m.tables, pages |-> n.pages]
  <2>1. /\ h \in Memory /\ h.used = m.used \union {f} /\ h.tables = m.tables /\ h.pages = n.pages
    BY <1>0, <1>2, MemoryParts DEF Memory
  <2> HIDE DEF h
  <2>2. Owned(h, D \union K)
    BY <1>0, <1>2, <2>1, OwnPage
  <2>3. /\ tf \in Frames \ h.used /\ h.tables[d][Table(v)] = 0
        /\ n.used = h.used \union {tf} /\ n.pages = h.pages
        /\ \A e \in Frames, x \in Tables :
             n.tables[e][x] = IF e = d /\ x = Table(v) THEN tf ELSE h.tables[e][x]
    BY <1>2, <2>1
  <2> QED BY <1>0, <1>2, <2>1, <2>2, <2>3, OwnTable
<1>4. \A w \in Pages : w # v /\ Table(w) = Table(v) => m.pages[d][w] = 0
  BY <1>0 DEF Shaped
<1>4a. tf # 0
  BY <1>2, Sizes
<1>5. Shaped(n)
  <2>1. ASSUME NEW e \in Frames, NEW y \in Pages, n.pages[e][y] # 0 PROVE n.tables[e][Table(y)] # 0
    <3>1. CASE e = d /\ y = v
      BY <1>0, <1>2, <1>4a, <3>1
    <3>2. CASE ~(e = d /\ y = v)
      <4>1. m.tables[e][Table(y)] # 0 /\ Table(y) \in Tables
        BY <1>0, <1>2, <2>1, <3>2, TableOfPage DEF Shaped
      <4> QED BY <1>2, <1>4a, <4>1
    <3> QED BY <3>1, <3>2
  <2>2. ASSUME NEW e \in Frames, NEW x \in Tables, n.tables[e][x] # 0
        PROVE  \E y \in Pages : Table(y) = x /\ n.pages[e][y] # 0
    <3>1. CASE e = d /\ x = Table(v)
      BY <1>0, <1>2, <3>1
    <3>2. CASE ~(e = d /\ x = Table(v))
      <4>1. PICK y \in Pages : Table(y) = x /\ m.pages[e][y] # 0
        BY <1>0, <1>2, <2>2, <3>2 DEF Shaped
      <4>2. n.pages[e][y] # 0
        BY <1>0, <1>2, <4>1
      <4> QED BY <4>1, <4>2
    <3> QED BY <3>1, <3>2
  <2> QED BY <2>1, <2>2 DEF Shaped
<1>6. Blank(n, D)
  BY <1>0, <1>2 DEF Blank
<1>7. Sound(n, D, K) /\ Beside(m, n, d, {v}) /\ n.pages[d][v] = f
  BY <1>0, <1>2, <1>3, <1>5, <1>6 DEF Sound, Beside
<1>8. /\ u \in Memory /\ u.used = n.used \ {tf}
      /\ \A e \in Frames, x \in Tables : u.tables[e][x] = IF e = d /\ x = Table(v) THEN 0 ELSE n.tables[e][x]
      /\ \A e \in Frames, y \in Pages : u.pages[e][y] = IF e = d /\ y = v THEN 0 ELSE n.pages[e][y]
  <2>1. n.tables[d][Table(v)] = tf /\ tf # 0
    BY <1>0, <1>2, <1>4a
  <2>2. \A w \in Pages : w # v /\ Table(w) = Table(v) => n.pages[d][w] = 0
    BY <1>0, <1>2, <1>4
  <2> QED BY <1>0, <1>2, <2>1, <2>2, UnmapLast
<1> HIDE DEF u
<1>9. z \in Memory /\ z.used = u.used \ {f} /\ z.tables = u.tables /\ z.pages = u.pages
  BY <1>8, FreeFacts
<1> HIDE DEF z
<1>10. z = m
  <2>1. z.used = m.used
    BY <1>2, <1>8, <1>9
  <2>2. \A e \in Frames, x \in Tables : z.tables[e][x] = m.tables[e][x]
    BY <1>2, <1>8, <1>9
  <2>3. \A e \in Frames, y \in Pages : z.pages[e][y] = m.pages[e][y]
    BY <1>2, <1>8, <1>9
  <2> QED BY <1>0, <1>9, <2>1, <2>2, <2>3, SameMemory
<1> QED BY <1>7, <1>10 DEF k, n, u, z

\* Taking a free frame and mapping it at a page that is not mapped: it works, or
\* paging_translate tells; undoing it gives the memory back as it was either way.
LEMMA MapSound ==
  ASSUME NEW D, NEW K, NEW m, Sound(m, D, K), NEW d \in D, NEW v \in Pages, m.pages[d][v] = 0,
         NEW f \in Frames \ m.used
  PROVE  LET n == paging_map(Taken(m, f), d, v, f) IN
         /\ pmm_free_page(paging_unmap(n, d, v), f) = m
         /\ paging_translate(n, d, v) = f =>
              Sound(n, D, K) /\ Beside(m, n, d, {v}) /\ unload_page(d, n, v) = m
<1> DEFINE k == Taken(m, f)
           n == paging_map(k, d, v, f)
<1>1. CASE m.tables[d][Table(v)] # 0
  <2>1. /\ Sound(n, D, K) /\ Beside(m, n, d, {v}) /\ n.pages[d][v] = f
        /\ pmm_free_page(paging_unmap(n, d, v), f) = m
    BY <1>1, MapShared
  <2> HIDE DEF n
  <2> QED BY <2>1 DEF unload_page, paging_translate, n
<1>2. CASE m.tables[d][Table(v)] = 0 /\ pmm_alloc_page(k) # 0
  <2>1. /\ Sound(n, D, K) /\ Beside(m, n, d, {v}) /\ n.pages[d][v] = f
        /\ pmm_free_page(paging_unmap(n, d, v), f) = m
    BY <1>2, MapFirst
  <2> HIDE DEF n
  <2> QED BY <2>1 DEF unload_page, paging_translate, n
<1>3. CASE m.tables[d][Table(v)] = 0 /\ pmm_alloc_page(k) = 0
  <2>0. m \in Memory /\ d \in Frames /\ f \in Frames /\ f # 0
    BY Sizes DEF Sound
  <2>1. k \in Memory /\ k.used = m.used \union {f} /\ k.tables = m.tables /\ k.pages = m.pages
    BY <2>0, TakenFacts
  <2> HIDE DEF k
  <2>2. n = k
    BY <1>3, <2>1, MapRefused
  <2> HIDE DEF n
  <2>3. paging_unmap(n, d, v) = k
    BY <1>3, <2>1, <2>2, UnmapNone
  <2> DEFINE z == pmm_free_page(k, f)
  <2>4. z \in Memory /\ z.used = k.used \ {f} /\ z.tables = k.tables /\ z.pages = k.pages
    BY <2>1, FreeFacts
  <2> HIDE DEF z
  <2>5. z.used = m.used
    BY <2>1, <2>4
  <2>6. z = m
    BY <2>0, <2>1, <2>4, <2>5, SameMemory
  <2>7. paging_translate(n, d, v) # f
    BY <2>0, <2>1, <2>2 DEF paging_translate
  <2> QED BY <2>3, <2>6, <2>7 DEF z, k, n
<1> QED BY <1>1, <1>2, <1>3

\* Unmapping a page that is not mapped changes nothing.
LEMMA UnloadNothing ==
  ASSUME NEW D, NEW K, NEW m, Sound(m, D, K), NEW d \in D, NEW v \in Pages, m.pages[d][v] = 0
  PROVE  unload_page(d, m, v) = m
<1> DEFINE u == paging_unmap(m, d, v)
           z == pmm_free_page(u, 0)
<1>0. m \in Memory /\ d \in Frames /\ Shaped(m) /\ 0 \notin m.used /\ Table(v) \in Tables
  BY Sizes, MemoryParts, TableOfPage DEF Sound
<1>1. u = m
  <2>1. CASE m.tables[d][Table(v)] = 0
    BY <2>1, UnmapNone
  <2>2. CASE m.tables[d][Table(v)] # 0
    <3>1. PICK w \in Pages : Table(w) = Table(v) /\ m.pages[d][w] # 0
      BY <1>0, <2>2 DEF Shaped
    <3>2. /\ u \in Memory /\ u.used = m.used /\ u.tables = m.tables
          /\ \A e \in Frames, y \in Pages : u.pages[e][y] = IF e = d /\ y = v THEN 0 ELSE m.pages[e][y]
      BY <1>0, <2>2, <3>1, UnmapShared
    <3> HIDE DEF u
    <3>3. \A e \in Frames, y \in Pages : u.pages[e][y] = m.pages[e][y]
      BY <3>2
    <3> QED BY <1>0, <3>2, <3>3, SameMemory
  <2> QED BY <2>1, <2>2
<1> HIDE DEF u
<1>2. z \in Memory /\ z.used = m.used /\ z.tables = m.tables /\ z.pages = m.pages
  <2>1. u \in Memory
    BY <1>0, <1>1
  <2>2. z \in Memory /\ z.used = u.used \ {0} /\ z.tables = u.tables /\ z.pages = u.pages
    BY <2>1, FreeFacts
  <2> HIDE DEF z
  <2> QED BY <1>0, <1>1, <2>2
<1>3. z = m
  BY <1>0, <1>2, SameMemory
<1> QED BY <1>3 DEF z, u, unload_page, paging_translate

\* Unmapping a page and freeing its frame, which thread_destroy does with the
\* page of a user stack.
LEMMA UnloadSound ==
  ASSUME NEW D, NEW K, NEW m, Sound(m, D, K), NEW d \in D, NEW v \in Pages
  PROVE  Sound(unload_page(d, m, v), D, K) /\ Beside(m, unload_page(d, m, v), d, {v})
<1> DEFINE f == m.pages[d][v]
           u == paging_unmap(m, d, v)
           z == pmm_free_page(u, f)
<1>0. /\ m \in Memory /\ d \in Frames /\ D \subseteq Frames /\ K \subseteq Frames /\ D \intersect K = {}
      /\ Owned(m, D \union K) /\ Shaped(m) /\ Blank(m, D) /\ Table(v) \in Tables
  BY Sizes, TableOfPage DEF Sound
<1>1. unload_page(d, m, v) = z
  BY DEF unload_page, paging_translate
<1>2. CASE f = 0
  <2>1. unload_page(d, m, v) = m
    BY <1>2, UnloadNothing
  <2> QED BY <2>1 DEF Beside
<1>3. CASE f # 0
  <2>0. m.tables[d][Table(v)] # 0
    BY <1>0, <1>3 DEF Shaped
  <2>1. CASE \E w \in Pages : w # v /\ Table(w) = Table(v) /\ m.pages[d][w] # 0
    <3>1. PICK w \in Pages : w # v /\ Table(w) = Table(v) /\ m.pages[d][w] # 0
      BY <2>1
    <3>2. /\ u \in Memory /\ u.used = m.used /\ u.tables = m.tables
          /\ \A e \in Frames, y \in Pages : u.pages[e][y] = IF e = d /\ y = v THEN 0 ELSE m.pages[e][y]
      BY <1>0, <2>0, <3>1, UnmapShared
    <3> HIDE DEF u
    <3>3. z \in Memory /\ z.used = m.used \ {f} /\ z.tables = m.tables /\ z.pages = u.pages
      BY <3>2, FreeFacts
    <3> HIDE DEF z
    <3>4. \A e \in Frames, y \in Pages : z.pages[e][y] = IF e = d /\ y = v THEN 0 ELSE m.pages[e][y]
      BY <3>2, <3>3
    <3>5. Owned(z, D \union K)
      BY <1>0, <1>3, <3>3, <3>4, DropPage
    <3>6. Shaped(z)
      <4>1. \A e \in Frames, y \in Pages : z.pages[e][y] # 0 => z.tables[e][Table(y)] # 0
        BY <1>0, <3>3, <3>4 DEF Shaped
      <4>2. ASSUME NEW e \in Frames, NEW x \in Tables, z.tables[e][x] # 0
            PROVE  \E y \in Pages : Table(y) = x /\ z.pages[e][y] # 0
        <5>1. PICK y \in Pages : Table(y) = x /\ m.pages[e][y] # 0
          BY <1>0, <3>3, <4>2 DEF Shaped
        <5>2. CASE e = d /\ y = v
          BY <3>1, <3>4, <5>1, <5>2
        <5>3. CASE ~(e = d /\ y = v)
          BY <3>4, <5>1, <5>3
        <5> QED BY <5>2, <5>3
      <4> QED BY <4>1, <4>2 DEF Shaped
    <3>7. Blank(z, D)
      BY <1>0, <3>3, <3>4 DEF Blank
    <3>8. Sound(z, D, K) /\ Beside(m, z, d, {v})
      BY <1>0, <3>3, <3>4, <3>5, <3>6, <3>7 DEF Sound, Beside
    <3> QED BY <1>1, <3>8
  <2>2. CASE ~ \E w \in Pages : w # v /\ Table(w) = Table(v) /\ m.pages[d][w] # 0
    <3> DEFINE tf == m.tables[d][Table(v)]
    <3>1. \A w \in Pages : w # v /\ Table(w) = Table(v) => m.pages[d][w] = 0
      BY <2>2
    <3>2. /\ u \in Memory /\ u.used = m.used \ {tf}
          /\ \A e \in Frames, x \in Tables : u.tables[e][x] = IF e = d /\ x = Table(v) THEN 0 ELSE m.tables[e][x]
          /\ \A e \in Frames, y \in Pages : u.pages[e][y] = IF e = d /\ y = v THEN 0 ELSE m.pages[e][y]
      BY <1>0, <2>0, <3>1, UnmapLast
    <3> HIDE DEF u
    <3>3. z \in Memory /\ z.used = u.used \ {f} /\ z.tables = u.tables /\ z.pages = u.pages
      BY <3>2, FreeFacts
    <3> HIDE DEF z
    <3>4. /\ \A e \in Frames, y \in Pages : z.pages[e][y] = IF e = d /\ y = v THEN 0 ELSE m.pages[e][y]
          /\ \A e \in Frames, x \in Tables : z.tables[e][x] = IF e = d /\ x = Table(v) THEN 0 ELSE m.tables[e][x]
      BY <3>2, <3>3
    <3>5. Owned(z, D \union K)
      <4> DEFINE h == [used |-> m.used \ {f}, tables |-> m.tables, pages |-> z.pages]
      <4>1. /\ h \in Memory /\ h.used = m.used \ {f} /\ h.tables = m.tables /\ h.pages = z.pages
        BY <1>0, <3>3, MemoryParts DEF Memory
      <4> HIDE DEF h
      <4>2. Owned(h, D \union K)
        BY <1>0, <1>3, <3>4, <4>1, DropPage
      <4>3. h.tables[d][Table(v)] = tf /\ tf # 0
        BY <2>0, <4>1
      <4>4. z.used = h.used \ {tf} /\ z.pages = h.pages
        BY <3>2, <3>3, <4>1
      <4>5. \A e \in Frames, x \in Tables : z.tables[e][x] = IF e = d /\ x = Table(v) THEN 0 ELSE h.tables[e][x]
        BY <3>4, <4>1
      <4> HIDE DEF tf
      <4> QED BY <1>0, <3>3, <4>1, <4>2, <4>3, <4>4, <4>5, DropTable
    <3>6. Shaped(z)
      <4>1. ASSUME NEW e \in Frames, NEW y \in Pages, z.pages[e][y] # 0 PROVE z.tables[e][Table(y)] # 0
        <5>1. ~(e = d /\ y = v) /\ m.pages[e][y] # 0
          BY <3>4, <4>1
        <5>2. m.tables[e][Table(y)] # 0 /\ Table(y) \in Tables
          BY <1>0, <5>1, TableOfPage DEF Shaped
        <5>3. ~(e = d /\ Table(y) = Table(v))
          BY <3>1, <5>1
        <5> QED BY <3>4, <5>2, <5>3
      <4>2. ASSUME NEW e \in Frames, NEW x \in Tables, z.tables[e][x] # 0
            PROVE  \E y \in Pages : Table(y) = x /\ z.pages[e][y] # 0
        <5>1. m.tables[e][x] # 0 /\ ~(e = d /\ x = Table(v))
          BY <3>4, <4>2
        <5>2. PICK y \in Pages : Table(y) = x /\ m.pages[e][y] # 0
          BY <1>0, <5>1 DEF Shaped
        <5>3. z.pages[e][y] # 0
          BY <3>4, <5>1, <5>2
        <5> QED BY <5>2, <5>3
      <4> QED BY <4>1, <4>2 DEF Shaped
    <3>7. Blank(z, D)
      BY <1>0, <3>4 DEF Blank
    <3>8. Sound(z, D, K) /\ Beside(m, z, d, {v})
      BY <1>0, <3>3, <3>4, <3>5, <3>6, <3>7 DEF Sound, Beside
    <3> QED BY <1>1, <3>8
  <2> QED BY <2>1, <2>2
<1> QED BY <1>2, <1>3

----------------------------------------------------------------------------
(* Directories and kernel stacks.                                           *)

\* A free frame becomes a directory.
LEMMA CreateSound ==
  ASSUME NEW D, NEW K, NEW m, Sound(m, D, K), NEW f \in Frames \ m.used
  PROVE  /\ Sound(Taken(m, f), D \union {f}, K) /\ f \notin D
         /\ \A v \in Pages : Taken(m, f).pages[f][v] = 0
<1> DEFINE n == Taken(m, f)
<1>0. /\ m \in Memory /\ D \subseteq Frames /\ K \subseteq Frames /\ D \intersect K = {}
      /\ Owned(m, D \union K) /\ Shaped(m) /\ Blank(m, D) /\ f \in Frames
  BY DEF Sound
<1>1. n \in Memory /\ n.used = m.used \union {f} /\ n.tables = m.tables /\ n.pages = m.pages
  BY <1>0, TakenFacts
<1> HIDE DEF n
<1>2. f \notin D \union K
  BY <1>0 DEF Owned
<1>3. Owned(n, (D \union K) \union {f})
  BY <1>0, <1>1, OwnBase
<1>4. (D \union K) \union {f} = (D \union {f}) \union K
  OBVIOUS
<1>5. Shaped(n)
  BY <1>0, <1>1 DEF Shaped
<1>6. Blank(n, D \union {f})
  BY <1>0, <1>1 DEF Blank
<1>7. Sound(n, D \union {f}, K)
  BY <1>0, <1>1, <1>2, <1>3, <1>4, <1>5, <1>6 DEF Sound
<1>8. \A v \in Pages : n.pages[f][v] = 0
  BY <1>0, <1>1, <1>2 DEF Blank
<1> QED BY <1>2, <1>7, <1>8 DEF n

\* A directory is destroyed; the others do not notice.
LEMMA DestroySound ==
  ASSUME NEW D, NEW K, NEW m, Sound(m, D, K), NEW d \in D
  PROVE  /\ Sound(paging_destroy_directory(m, d), D \ {d}, K)
         /\ Beside(m, paging_destroy_directory(m, d), d, Pages)
<1> DEFINE n == paging_destroy_directory(m, d)
           T == [m.tables EXCEPT ![d] = [x \in Tables |-> 0]]
           P == [m.pages EXCEPT ![d] = [v \in Pages |-> 0]]
<1>0. /\ m \in Memory /\ D \subseteq Frames /\ K \subseteq Frames /\ D \intersect K = {}
      /\ Owned(m, D \union K) /\ Shaped(m) /\ Blank(m, D) /\ d \in Frames
  BY DEF Sound
<1>1. /\ T \in [Frames -> [Tables -> Frames \union {0}]]
      /\ \A e \in Frames, x \in Tables : T[e][x] = IF e = d THEN 0 ELSE m.tables[e][x]
  BY <1>0, MemoryParts
<1>2. /\ P \in [Frames -> [Pages -> Frames \union {0}]]
      /\ \A e \in Frames, v \in Pages : P[e][v] = IF e = d THEN 0 ELSE m.pages[e][v]
  BY <1>0, MemoryParts
<1>3. n = [used |-> m.used \ SpaceFrames(m, d), tables |-> T, pages |-> P]
  BY DEF paging_destroy_directory
<1> HIDE DEF n, T, P
<1>4. m.used \ SpaceFrames(m, d) \in SUBSET Frames
  BY <1>0, MemoryParts
<1>5. n \in Memory /\ n.used = m.used \ SpaceFrames(m, d) /\ n.tables = T /\ n.pages = P
  BY <1>1, <1>2, <1>3, <1>4 DEF Memory
<1>6. /\ \A e \in Frames, x \in Tables : n.tables[e][x] = IF e = d THEN 0 ELSE m.tables[e][x]
      /\ \A e \in Frames, v \in Pages : n.pages[e][v] = IF e = d THEN 0 ELSE m.pages[e][v]
  BY <1>1, <1>2, <1>5
<1>7. Owned(n, (D \union K) \ {d})
  BY <1>0, <1>5, <1>6, DropDirectory
<1>8. (D \union K) \ {d} = (D \ {d}) \union K
  BY <1>0
<1>9. Shaped(n)
  <2>1. \A e \in Frames, y \in Pages : n.pages[e][y] # 0 => n.tables[e][Table(y)] # 0
    BY <1>0, <1>6, TableOfPage DEF Shaped
  <2>2. \A e \in Frames, x \in Tables : n.tables[e][x] # 0 =>
          \E y \in Pages : Table(y) = x /\ n.pages[e][y] # 0
    BY <1>0, <1>6 DEF Shaped
  <2> QED BY <2>1, <2>2 DEF Shaped
<1>10. Blank(n, D \ {d})
  BY <1>0, <1>6 DEF Blank
<1>11. Sound(n, D \ {d}, K)
  BY <1>0, <1>5, <1>7, <1>8, <1>9, <1>10 DEF Sound
<1>12. Beside(m, n, d, Pages)
  BY <1>6 DEF Beside
<1> QED BY <1>11, <1>12 DEF n

\* A kernel stack is taken.
LEMMA StackTaken ==
  ASSUME NEW D, NEW K, NEW m, Sound(m, D, K), NEW S \in SUBSET (Frames \ m.used)
  PROVE  LET n == [m EXCEPT !.used = @ \union S] IN
         /\ Sound(n, D, K \union S) /\ n.tables = m.tables /\ n.pages = m.pages
         /\ S \intersect (D \union K) = {}
<1> DEFINE n == [m EXCEPT !.used = @ \union S]
<1>0. /\ m \in Memory /\ D \subseteq Frames /\ K \subseteq Frames /\ D \intersect K = {}
      /\ Owned(m, D \union K) /\ Shaped(m) /\ Blank(m, D)
  BY DEF Sound
<1>1. m = [used |-> m.used, tables |-> m.tables, pages |-> m.pages]
  BY <1>0, MemoryParts
<1>2. n = [used |-> m.used \union S, tables |-> m.tables, pages |-> m.pages]
  BY <1>1
<1> HIDE DEF n
<1>3. n \in Memory /\ n.used = m.used \union S /\ n.tables = m.tables /\ n.pages = m.pages
  BY <1>0, <1>2, MemoryParts DEF Memory
<1>4. S \intersect (D \union K) = {}
  BY <1>0 DEF Owned
<1>5. Owned(n, (D \union K) \union S)
  BY <1>0, <1>3, OwnBase
<1>6. (D \union K) \union S = D \union (K \union S)
  OBVIOUS
<1>7. Shaped(n) /\ Blank(n, D)
  BY <1>0, <1>3 DEF Shaped, Blank
<1>8. Sound(n, D, K \union S)
  BY <1>0, <1>3, <1>4, <1>5, <1>6, <1>7 DEF Sound
<1> QED BY <1>3, <1>4, <1>8 DEF n

\* A kernel stack is given back.
LEMMA StackFreed ==
  ASSUME NEW D, NEW K, NEW m, Sound(m, D, K), NEW S \in SUBSET K
  PROVE  LET n == [m EXCEPT !.used = @ \ S] IN
         Sound(n, D, K \ S) /\ n.tables = m.tables /\ n.pages = m.pages
<1> DEFINE n == [m EXCEPT !.used = @ \ S]
<1>0. /\ m \in Memory /\ D \subseteq Frames /\ K \subseteq Frames /\ D \intersect K = {}
      /\ Owned(m, D \union K) /\ Shaped(m) /\ Blank(m, D)
  BY DEF Sound
<1>1. m = [used |-> m.used, tables |-> m.tables, pages |-> m.pages]
  BY <1>0, MemoryParts
<1>2. n = [used |-> m.used \ S, tables |-> m.tables, pages |-> m.pages]
  BY <1>1
<1> HIDE DEF n
<1>3. n \in Memory /\ n.used = m.used \ S /\ n.tables = m.tables /\ n.pages = m.pages
  BY <1>0, <1>2, MemoryParts DEF Memory
<1>5. Owned(n, (D \union K) \ S)
  BY <1>0, <1>3, DropBase
<1>6. (D \union K) \ S = D \union (K \ S)
  BY <1>0
<1>7. Shaped(n) /\ Blank(n, D)
  BY <1>0, <1>3 DEF Shaped, Blank
<1>8. Sound(n, D, K \ S)
  BY <1>0, <1>3, <1>5, <1>6, <1>7 DEF Sound
<1> QED BY <1>3, <1>8 DEF n

----------------------------------------------------------------------------
(* The folds of elf_load as functions of the number of pages.                 *)

\* All pages of s are loaded into directory d, from the state b on.
LoadAll(d, b, s) == FoldLeft(LAMBDA l, v : load_page(d, l, v), b, s)

\* All pages of s are removed from directory d, in the order of s.
UnloadAll(d, b, s) == FoldLeft(LAMBDA m, v : unload_page(d, m, v), b, s)

\* The function that the fold of load_page over the first k pages of s is defined
\* by, from b on.
IsLoad(g, d, b, s, k) ==
  g = [q \in SUBSET (1..k) |-> IF q = {} THEN b
                               ELSE load_page(d, g[q \ {Max(q)}], s[Max(q)])]

\* There is one.
LEMMA LoadExists ==
  ASSUME NEW d, NEW b, NEW s, NEW n \in Nat
  PROVE  \E g : IsLoad(g, d, b, s, n)
<1> DEFINE S == {k \in 0..n : \E g : IsLoad(g, d, b, s, k)}
<1>1. 0 \in S
  <2> DEFINE g == [q \in SUBSET (1..0) |-> b]
  <2>1. \A q \in SUBSET (1..0) : q = {}
    OBVIOUS
  <2>2. IsLoad(g, d, b, s, 0)
    BY <2>1 DEF IsLoad
  <2> QED BY <2>2
<1>2. ASSUME NEW k \in 0..(n - 1), k \in S PROVE k + 1 \in S
  <2>1. PICK g : IsLoad(g, d, b, s, k)
    BY <1>2
  <2> DEFINE r == [q \in SUBSET (1..(k + 1)) |->
                     IF k + 1 \in q THEN load_page(d, g[q \ {k + 1}], s[k + 1]) ELSE g[q]]
  <2>2. ASSUME NEW q \in SUBSET (1..(k + 1))
        PROVE  r[q] = IF q = {} THEN b ELSE load_page(d, r[q \ {Max(q)}], s[Max(q)])
    <3>1. CASE k + 1 \in q
      <4>1. Max(q) = k + 1
        <5>1. \A y \in q : y \in Int /\ k + 1 >= y
          OBVIOUS
        <5>2. Max(q) \in q /\ \A y \in q : Max(q) >= y
          BY <3>1, <5>1, Zenon DEF Max
        <5>3. Max(q) \in Int /\ k + 1 \in Int /\ k + 1 >= Max(q) /\ Max(q) >= k + 1
          BY <3>1, <5>1, <5>2, Zenon
        <5> QED BY <5>3
      <4>2. q \ {k + 1} \in SUBSET (1..(k + 1)) /\ k + 1 \notin q \ {k + 1} /\ q # {}
        BY <3>1
      <4>3. r[q \ {k + 1}] = g[q \ {k + 1}]
        BY <4>2
      <4>4. r[q] = load_page(d, g[q \ {k + 1}], s[k + 1])
        BY <3>1
      <4> HIDE DEF r
      <4> QED BY <4>1, <4>2, <4>3, <4>4, Zenon
    <3>2. CASE k + 1 \notin q
      <4>1. q \in SUBSET (1..k) /\ q \ {Max(q)} \in SUBSET (1..(k + 1)) /\ k + 1 \notin q \ {Max(q)}
        <5>1. \A y \in q : y \in 1..(k + 1) /\ y # k + 1
          BY <3>2
        <5>2. \A y \in 1..(k + 1) : y # k + 1 => y \in 1..k
          OBVIOUS
        <5> QED BY <3>2, <5>1, <5>2
      <4>2. r[q] = g[q] /\ r[q \ {Max(q)}] = g[q \ {Max(q)}]
        BY <3>2, <4>1
      <4>3. g[q] = IF q = {} THEN b ELSE load_page(d, g[q \ {Max(q)}], s[Max(q)])
        BY <2>1, <4>1, Zenon DEF IsLoad
      <4> HIDE DEF r
      <4> QED BY <4>2, <4>3, Zenon
    <3> QED BY <3>1, <3>2
  <2>3. r = [q \in SUBSET (1..(k + 1)) |-> r[q]]
    OBVIOUS
  <2> HIDE DEF r
  <2>4. IsLoad(r, d, b, s, k + 1)
    BY <2>2, <2>3 DEF IsLoad
  <2>5. k + 1 \in 0..n
    OBVIOUS
  <2> QED BY <2>4, <2>5
<1> HIDE DEF S
<1>3. \A i \in 0..n : i \in S
  BY <1>1, <1>2, UpTo
<1>4. n \in S
  BY <1>3
<1> QED BY <1>4 DEF S

\* The fold, one page after the other.
LEMMA LoadSteps ==
  ASSUME NEW d, NEW b, NEW A, NEW s \in Seq(A)
  PROVE  \E h : /\ h[0] = b
                /\ \A i \in 1..Len(s) : h[i] = load_page(d, h[i - 1], s[i])
                /\ LoadAll(d, b, s) = h[Len(s)]
<1> DEFINE n == Len(s)
           g == CHOOSE f : IsLoad(f, d, b, s, n)
           h == [i \in 0..n |-> g[1..i]]
<1>1. n \in Nat /\ DOMAIN s = 1..n
  OBVIOUS
<1>2. LoadAll(d, b, s) = g[1..n]
  BY <1>1, Zenon DEF LoadAll, FoldLeft, MapThenFoldSet, IsLoad
<1> HIDE DEF n
<1>3. IsLoad(g, d, b, s, n)
  BY <1>1, LoadExists, Zenon
<1> HIDE DEF g
<1>4. ASSUME NEW i \in 1..n PROVE h[i] = load_page(d, h[i - 1], s[i])
  <2>1. Max(1..i) = i
    <3>1. i \in 1..i /\ \A y \in 1..i : i >= y
      BY <1>1
    <3>2. Max(1..i) \in 1..i /\ \A y \in 1..i : Max(1..i) >= y
      BY <3>1, Zenon DEF Max
    <3> QED BY <1>1, <3>1, <3>2
  <2>2. 1..i \in SUBSET (1..n) /\ 1..i # {} /\ (1..i) \ {i} = 1..(i - 1)
    BY <1>1
  <2>3. h[i] = g[1..i] /\ h[i - 1] = g[1..(i - 1)]
    BY <1>1
  <2>4. g[1..i] = load_page(d, g[(1..i) \ {Max(1..i)}], s[Max(1..i)])
    BY <1>3, <2>2, Zenon DEF IsLoad
  <2> HIDE DEF h
  <2> QED BY <2>1, <2>2, <2>3, <2>4, Zenon
<1>5. h[0] = b
  <2>1. 1..0 = {} /\ {} \in SUBSET (1..n)
    OBVIOUS
  <2>2. g[{}] = b
    BY <1>3, <2>1, Zenon DEF IsLoad
  <2> QED BY <1>1, <2>1, <2>2
<1>6. h[n] = g[1..n]
  BY <1>1
<1> HIDE DEF h
<1> QED BY <1>2, <1>4, <1>5, <1>6 DEF n

\* The function that the fold of unload_page over the first k pages of s is defined
\* by, from b on.
IsUnload(g, d, b, s, k) ==
  g = [q \in SUBSET (1..k) |-> IF q = {} THEN b
                               ELSE unload_page(d, g[q \ {Max(q)}], s[Max(q)])]

\* There is one.
LEMMA UnloadExists ==
  ASSUME NEW d, NEW b, NEW s, NEW n \in Nat
  PROVE  \E g : IsUnload(g, d, b, s, n)
<1> DEFINE S == {k \in 0..n : \E g : IsUnload(g, d, b, s, k)}
<1>1. 0 \in S
  <2> DEFINE g == [q \in SUBSET (1..0) |-> b]
  <2>1. \A q \in SUBSET (1..0) : q = {}
    OBVIOUS
  <2>2. IsUnload(g, d, b, s, 0)
    BY <2>1 DEF IsUnload
  <2> QED BY <2>2
<1>2. ASSUME NEW k \in 0..(n - 1), k \in S PROVE k + 1 \in S
  <2>1. PICK g : IsUnload(g, d, b, s, k)
    BY <1>2
  <2> DEFINE r == [q \in SUBSET (1..(k + 1)) |->
                     IF k + 1 \in q THEN unload_page(d, g[q \ {k + 1}], s[k + 1]) ELSE g[q]]
  <2>2. ASSUME NEW q \in SUBSET (1..(k + 1))
        PROVE  r[q] = IF q = {} THEN b ELSE unload_page(d, r[q \ {Max(q)}], s[Max(q)])
    <3>1. CASE k + 1 \in q
      <4>1. Max(q) = k + 1
        <5>1. \A y \in q : y \in Int /\ k + 1 >= y
          OBVIOUS
        <5>2. Max(q) \in q /\ \A y \in q : Max(q) >= y
          BY <3>1, <5>1, Zenon DEF Max
        <5>3. Max(q) \in Int /\ k + 1 \in Int /\ k + 1 >= Max(q) /\ Max(q) >= k + 1
          BY <3>1, <5>1, <5>2, Zenon
        <5> QED BY <5>3
      <4>2. q \ {k + 1} \in SUBSET (1..(k + 1)) /\ k + 1 \notin q \ {k + 1} /\ q # {}
        BY <3>1
      <4>3. r[q \ {k + 1}] = g[q \ {k + 1}]
        BY <4>2
      <4>4. r[q] = unload_page(d, g[q \ {k + 1}], s[k + 1])
        BY <3>1
      <4> HIDE DEF r
      <4> QED BY <4>1, <4>2, <4>3, <4>4, Zenon
    <3>2. CASE k + 1 \notin q
      <4>1. q \in SUBSET (1..k) /\ q \ {Max(q)} \in SUBSET (1..(k + 1)) /\ k + 1 \notin q \ {Max(q)}
        <5>1. \A y \in q : y \in 1..(k + 1) /\ y # k + 1
          BY <3>2
        <5>2. \A y \in 1..(k + 1) : y # k + 1 => y \in 1..k
          OBVIOUS
        <5> QED BY <3>2, <5>1, <5>2
      <4>2. r[q] = g[q] /\ r[q \ {Max(q)}] = g[q \ {Max(q)}]
        BY <3>2, <4>1
      <4>3. g[q] = IF q = {} THEN b ELSE unload_page(d, g[q \ {Max(q)}], s[Max(q)])
        BY <2>1, <4>1, Zenon DEF IsUnload
      <4> HIDE DEF r
      <4> QED BY <4>2, <4>3, Zenon
    <3> QED BY <3>1, <3>2
  <2>3. r = [q \in SUBSET (1..(k + 1)) |-> r[q]]
    OBVIOUS
  <2> HIDE DEF r
  <2>4. IsUnload(r, d, b, s, k + 1)
    BY <2>2, <2>3 DEF IsUnload
  <2>5. k + 1 \in 0..n
    OBVIOUS
  <2> QED BY <2>4, <2>5
<1> HIDE DEF S
<1>3. \A i \in 0..n : i \in S
  BY <1>1, <1>2, UpTo
<1>4. n \in S
  BY <1>3
<1> QED BY <1>4 DEF S

\* The fold, one page after the other.
LEMMA UnloadSteps ==
  ASSUME NEW d, NEW b, NEW A, NEW s \in Seq(A)
  PROVE  \E h : /\ h[0] = b
                /\ \A i \in 1..Len(s) : h[i] = unload_page(d, h[i - 1], s[i])
                /\ UnloadAll(d, b, s) = h[Len(s)]
<1> DEFINE n == Len(s)
           g == CHOOSE f : IsUnload(f, d, b, s, n)
           h == [i \in 0..n |-> g[1..i]]
<1>1. n \in Nat /\ DOMAIN s = 1..n
  OBVIOUS
<1>2. UnloadAll(d, b, s) = g[1..n]
  BY <1>1, Zenon DEF UnloadAll, FoldLeft, MapThenFoldSet, IsUnload
<1> HIDE DEF n
<1>3. IsUnload(g, d, b, s, n)
  BY <1>1, UnloadExists, Zenon
<1> HIDE DEF g
<1>4. ASSUME NEW i \in 1..n PROVE h[i] = unload_page(d, h[i - 1], s[i])
  <2>1. Max(1..i) = i
    <3>1. i \in 1..i /\ \A y \in 1..i : i >= y
      BY <1>1
    <3>2. Max(1..i) \in 1..i /\ \A y \in 1..i : Max(1..i) >= y
      BY <3>1, Zenon DEF Max
    <3> QED BY <1>1, <3>1, <3>2
  <2>2. 1..i \in SUBSET (1..n) /\ 1..i # {} /\ (1..i) \ {i} = 1..(i - 1)
    BY <1>1
  <2>3. h[i] = g[1..i] /\ h[i - 1] = g[1..(i - 1)]
    BY <1>1
  <2>4. g[1..i] = unload_page(d, g[(1..i) \ {Max(1..i)}], s[Max(1..i)])
    BY <1>3, <2>2, Zenon DEF IsUnload
  <2> HIDE DEF h
  <2> QED BY <2>1, <2>2, <2>3, <2>4, Zenon
<1>5. h[0] = b
  <2>1. 1..0 = {} /\ {} \in SUBSET (1..n)
    OBVIOUS
  <2>2. g[{}] = b
    BY <1>3, <2>1, Zenon DEF IsUnload
  <2> QED BY <1>1, <2>1, <2>2
<1>6. h[n] = g[1..n]
  BY <1>1
<1> HIDE DEF h
<1> QED BY <1>2, <1>4, <1>5, <1>6 DEF n

----------------------------------------------------------------------------
(* elf_load.                                                                *)

\* What elf_load knows while it loads.
LoadState(l) ==
  l = [ok |-> l.ok, m |-> l.m, heap |-> l.heap, loaded |-> l.loaded] /\ l.ok \in BOOLEAN

\* From l to r page v was loaded so that it can be unloaded again, or nothing
\* has changed but the verdict.
Loads(l, r, d, v, D, K) ==
  /\ LoadState(r)
  /\ r.ok => /\ Sound(r.m, D, K) /\ Beside(l.m, r.m, d, {v}) /\ unload_page(d, r.m, v) = l.m
             /\ r.loaded = Append(l.loaded, v)
  /\ ~r.ok => r.m = l.m /\ r.loaded = l.loaded

\* That is what load_page does with a page that is not mapped.
LEMMA PageLoaded ==
  ASSUME NEW D, NEW K, NEW l, LoadState(l), l.ok, Sound(l.m, D, K), NEW d \in D, NEW v \in Pages,
         l.m.pages[d][v] = 0
  PROVE  Loads(l, load_page(d, l, v), d, v, D, K)
<1> DEFINE r == load_page(d, l, v)
           f == pmm_alloc_page(l.m)
           n == paging_map(Taken(l.m, f), d, v, f)
           u == pmm_free_page(paging_unmap(n, d, v), f)
<1>0. l.m \in Memory
  BY DEF Sound
<1>1. f = 0 \/ f \in Frames \ l.m.used
  BY <1>0, AllocFacts
<1>2. l = [ok |-> l.ok, m |-> l.m, heap |-> l.heap, loaded |-> l.loaded]
  BY DEF LoadState
<1>3. CASE f = 0
  <2>1. r = [l EXCEPT !.ok = FALSE]
    BY <1>3 DEF load_page
  <2>2. r = [ok |-> FALSE, m |-> l.m, heap |-> l.heap, loaded |-> l.loaded]
    BY <1>2, <2>1
  <2> HIDE DEF r
  <2> QED BY <2>2 DEF LoadState, Loads, r
<1>4. CASE f \in Frames \ l.m.used
  <2>1. f # 0
    BY <1>4, Sizes
  <2>2. /\ u = l.m
        /\ paging_translate(n, d, v) = f => Sound(n, D, K) /\ Beside(l.m, n, d, {v}) /\ unload_page(d, n, v) = l.m
    BY <1>4, MapSound
  <2>3. CASE paging_translate(n, d, v) # f \/ l.heap = 0
    <3>1. r = [l EXCEPT !.ok = FALSE, !.m = u]
      BY <2>1, <2>3 DEF load_page
    <3> HIDE DEF r, u
    <3>2. r = [ok |-> FALSE, m |-> u, heap |-> l.heap, loaded |-> l.loaded]
      BY <1>2, <3>1
    <3> QED BY <2>2, <3>2 DEF LoadState, Loads, r
  <2>4. CASE ~(paging_translate(n, d, v) # f \/ l.heap = 0)
    <3>1. r = [l EXCEPT !.m = n, !.heap = @ - 1, !.loaded = Append(@, v)]
      BY <2>1, <2>4 DEF load_page
    <3>2. Sound(n, D, K) /\ Beside(l.m, n, d, {v}) /\ unload_page(d, n, v) = l.m
      BY <2>2, <2>4
    <3> HIDE DEF r, n
    <3>3. r = [ok |-> l.ok, m |-> n, heap |-> l.heap - 1, loaded |-> Append(l.loaded, v)]
      BY <1>2, <3>1
    <3>4. r.ok = l.ok /\ r.m = n /\ r.loaded = Append(l.loaded, v) /\ LoadState(r)
      BY <3>3 DEF LoadState
    <3> QED BY <3>2, <3>4 DEF Loads, r
  <2> QED BY <2>3, <2>4
<1> QED BY <1>1, <1>3, <1>4

\* Two changes to the same directory.
LEMMA BesideTwice ==
  ASSUME NEW m, NEW n, NEW k, NEW d, NEW S, NEW R, Beside(m, n, d, S), Beside(n, k, d, R)
  PROVE  Beside(m, k, d, S \union R)
  BY DEF Beside

\* The pages loaded so far are those of the first i segments of s, the memory is
\* sound, and undoing the last page leads to the state before.
LoadedTo(h, m, d, s, D, K, i) ==
  /\ LoadState(h[i])
  /\ h[i].ok =>
       /\ Sound(h[i].m, D, K) /\ Beside(m, h[i].m, d, {s[j] : j \in 1..i})
       /\ h[i].loaded \in Seq(Pages) /\ Len(h[i].loaded) = i /\ \A j \in 1..i : h[i].loaded[j] = s[j]
       /\ i > 0 => h[i - 1].ok /\ unload_page(d, h[i].m, s[i]) = h[i - 1].m
  /\ ~h[i].ok => \E k \in 0..i : h[k].ok /\ h[i].m = h[k].m /\ h[i].loaded = h[k].loaded

\* The loop of elf_load.
LEMMA LoadLoop ==
  ASSUME NEW D, NEW K, NEW m, Sound(m, D, K), NEW d \in D, NEW A \in SUBSET Pages, NEW s \in Seq(A),
         IsInjective(s), \A v \in A : m.pages[d][v] = 0, NEW heap,
         NEW h, h[0] = [ok |-> TRUE, m |-> m, heap |-> heap, loaded |-> << >>],
         \A i \in 1..Len(s) : h[i] = load_page(d, h[i - 1], s[i])
  PROVE  \A i \in 0..Len(s) : LoadedTo(h, m, d, s, D, K, i)
<1> DEFINE n == Len(s)
           S == {i \in 0..n : LoadedTo(h, m, d, s, D, K, i)}
<1>0. n \in Nat /\ DOMAIN s = 1..n /\ \A i \in 1..n : s[i] \in A /\ s[i] \in Pages
  OBVIOUS
<1>1. 0 \in S
  <2>1. h[0].ok /\ h[0].m = m /\ h[0].loaded = << >> /\ h[0].ok \in BOOLEAN /\ LoadState(h[0])
    BY DEF LoadState
  <2>2. Beside(m, m, d, {s[j] : j \in 1..0})
    BY DEF Beside
  <2>3. h[0].loaded \in Seq(Pages) /\ Len(h[0].loaded) = 0
    BY <2>1
  <2>4. LoadedTo(h, m, d, s, D, K, 0)
    BY <2>1, <2>2, <2>3 DEF LoadedTo
  <2> QED BY <1>0, <2>4
<1>2. ASSUME NEW i \in 0..(n - 1), i \in S PROVE i + 1 \in S
  <2>0. /\ LoadedTo(h, m, d, s, D, K, i) /\ i + 1 \in 1..n /\ i + 1 \in 0..n /\ (i + 1) - 1 = i /\ i \in Nat
        /\ i \in 0..(i + 1)
    BY <1>0, <1>2
  <2> DEFINE l == h[i]
             r == h[i + 1]
             v == s[i + 1]
  <2>1. r = load_page(d, l, v) /\ v \in A /\ v \in Pages
    BY <1>0, <2>0
  <2>2. CASE ~l.ok
    <3>1. r = l
      BY <2>1, <2>2 DEF load_page
    <3>2. PICK k \in 0..i : h[k].ok /\ l.m = h[k].m /\ l.loaded = h[k].loaded
      BY <2>0, <2>2 DEF LoadedTo
    <3>3. k \in 0..(i + 1)
      BY <2>0
    <3>4. LoadState(r) /\ ~r.ok
      BY <2>0, <2>2, <3>1 DEF LoadedTo
    <3>5. LoadedTo(h, m, d, s, D, K, i + 1)
      BY <3>1, <3>2, <3>3, <3>4 DEF LoadedTo
    <3> QED BY <2>0, <3>5
  <2>3. CASE l.ok
    <3>1. /\ Sound(l.m, D, K) /\ Beside(m, l.m, d, {s[j] : j \in 1..i}) /\ LoadState(l)
          /\ l.loaded \in Seq(Pages) /\ Len(l.loaded) = i /\ \A j \in 1..i : l.loaded[j] = s[j]
      BY <2>0, <2>3 DEF LoadedTo
    <3>2. v \notin {s[j] : j \in 1..i}
      BY <1>0, <2>0 DEF IsInjective
    <3>3. l.m.pages[d][v] = 0
      <4>1. d \in Frames
        BY DEF Sound
      <4> QED BY <2>1, <3>1, <3>2, <4>1 DEF Beside
    <3>4. /\ LoadState(r)
          /\ r.ok => /\ Sound(r.m, D, K) /\ Beside(l.m, r.m, d, {v}) /\ unload_page(d, r.m, v) = l.m
                     /\ r.loaded = Append(l.loaded, v)
          /\ ~r.ok => r.m = l.m /\ r.loaded = l.loaded
      <4> HIDE DEF l, v, r
      <4>1. Loads(l, r, d, v, D, K)
        BY <2>1, <2>3, <3>1, <3>3, PageLoaded
      <4> QED BY <4>1 DEF Loads
    <3>5. CASE ~r.ok
      <4>1. LoadedTo(h, m, d, s, D, K, i + 1)
        BY <2>0, <2>3, <3>4, <3>5 DEF LoadedTo
      <4> QED BY <2>0, <4>1
    <3>6. CASE r.ok
      <4>1. {s[j] : j \in 1..i} \union {v} = {s[j] : j \in 1..(i + 1)}
        <5>1. 1..(i + 1) = 1..i \union {i + 1}
          BY <2>0
        <5> QED BY <5>1
      <4>2. Beside(m, r.m, d, {s[j] : j \in 1..(i + 1)})
        BY <3>1, <3>4, <3>6, <4>1, BesideTwice
      <4>3. r.loaded \in Seq(Pages) /\ Len(r.loaded) = i + 1 /\ \A j \in 1..(i + 1) : r.loaded[j] = s[j]
        <5> HIDE DEF l
        <5>1. r.loaded = Append(l.loaded, v)
          BY <3>4, <3>6
        <5> HIDE DEF r
        <5>2. r.loaded \in Seq(Pages) /\ Len(r.loaded) = i + 1 /\ r.loaded[i + 1] = v
              /\ \A j \in 1..i : r.loaded[j] = l.loaded[j]
          BY <2>1, <3>1, <5>1
        <5>3. \A j \in 1..(i + 1) : j = i + 1 \/ j \in 1..i
          BY <2>0
        <5> QED BY <3>1, <5>2, <5>3
      <4>4. LoadedTo(h, m, d, s, D, K, i + 1)
        BY <2>0, <2>3, <3>4, <3>6, <4>2, <4>3 DEF LoadedTo
      <4> QED BY <2>0, <4>4
    <3> QED BY <3>5, <3>6
  <2> QED BY <2>2, <2>3
<1> HIDE DEF S
<1>3. \A i \in 0..n : i \in S
  BY <1>0, <1>1, <1>2, UpTo
<1> QED BY <1>3 DEF S

\* What elf_load leaves: the image in directory d, or the memory as it was.
LoadResult(l, m, d, A, D, K) ==
  /\ l.ok \in BOOLEAN
  /\ l.ok => Sound(l.m, D, K) /\ Beside(m, l.m, d, A)
  /\ ~l.ok => l.m = m

\* elf_load loads every page or takes back every page it has loaded, last first.
LEMMA ElfLoadSound ==
  ASSUME NEW D, NEW K, NEW m, Sound(m, D, K), NEW d \in D, NEW A \in SUBSET Pages, NEW s \in Seq(A),
         IsInjective(s), \A v \in A : m.pages[d][v] = 0, NEW heap
  PROVE  LoadResult(elf_load(m, d, s, heap), m, d, A, D, K)
<1> DEFINE b == [ok |-> TRUE, m |-> m, heap |-> heap, loaded |-> << >>]
           n == Len(s)
           l == LoadAll(d, b, s)
           e == elf_load(m, d, s, heap)
<1>1. e = IF l.ok THEN l ELSE [l EXCEPT !.m = UnloadAll(d, l.m, Reverse(l.loaded))]
  BY DEF elf_load, LoadAll, UnloadAll
<1> HIDE DEF l, e
<1>2. PICK h : h[0] = b /\ (\A i \in 1..n : h[i] = load_page(d, h[i - 1], s[i])) /\ l = h[n]
  BY LoadSteps DEF l
<1>3. \A i \in 0..n : LoadedTo(h, m, d, s, D, K, i)
  BY <1>2, LoadLoop
<1>4. n \in Nat /\ n \in 0..n /\ \A i \in 1..n : s[i] \in A
  OBVIOUS
<1>5. LoadState(l)
  BY <1>2, <1>3, <1>4 DEF LoadedTo
<1>6. CASE l.ok
  <2>1. e = l /\ Sound(l.m, D, K) /\ Beside(m, l.m, d, {s[j] : j \in 1..n})
    BY <1>1, <1>2, <1>3, <1>4, <1>6 DEF LoadedTo
  <2>2. {s[j] : j \in 1..n} \subseteq A
    BY <1>4
  <2>3. Beside(m, l.m, d, A)
    BY <2>1, <2>2 DEF Beside
  <2> QED BY <1>5, <1>6, <2>1, <2>3 DEF LoadState, LoadResult, e
<1>7. CASE ~l.ok
  <2>1. PICK k \in 0..n : h[k].ok /\ l.m = h[k].m /\ l.loaded = h[k].loaded
    BY <1>2, <1>3, <1>4, <1>7 DEF LoadedTo
  <2>2. k \in Nat /\ k <= n /\ LoadedTo(h, m, d, s, D, K, k)
    BY <1>3, <1>4
  <2>3. l.loaded \in Seq(Pages) /\ Len(l.loaded) = k /\ \A j \in 1..k : l.loaded[j] = s[j]
    BY <2>1, <2>2 DEF LoadedTo
  <2> DEFINE r == Reverse(l.loaded)
             z == UnloadAll(d, l.m, r)
  <2>4. r \in Seq(Pages) /\ Len(r) = k /\ \A j \in 1..k : r[j] = s[k - j + 1]
    <3>1. r = [j \in 1..k |-> l.loaded[(k - j) + 1]]
      BY <2>3 DEF Reverse
    <3>2. \A j \in 1..k : (k - j) + 1 \in 1..k
      BY <2>2
    <3>3. \A j \in 1..k : l.loaded[(k - j) + 1] = s[(k - j) + 1] /\ l.loaded[(k - j) + 1] \in Pages
      BY <2>3, <3>2
    <3> HIDE DEF r
    <3>4. r \in [1..k -> Pages]
      BY <3>1, <3>3
    <3>5. r \in Seq(Pages) /\ Len(r) = k
      BY <2>2, <3>4
    <3> QED BY <3>1, <3>3, <3>5
  <2> HIDE DEF r
  <2>5. PICK u : u[0] = l.m /\ (\A i \in 1..k : u[i] = unload_page(d, u[i - 1], r[i])) /\ z = u[k]
    <3>1. r \in Seq(Pages)
      BY <2>4
    <3>2. \E u : /\ u[0] = l.m
                 /\ \A i \in 1..Len(r) : u[i] = unload_page(d, u[i - 1], r[i])
                 /\ z = u[Len(r)]
      BY <3>1, UnloadSteps
    <3> HIDE DEF z
    <3> QED BY <2>4, <3>2
  <2> HIDE DEF z
  <2> DEFINE S == {j \in 0..k : h[k - j].ok /\ u[j] = h[k - j].m}
  <2>6. 0 \in S
    BY <2>1, <2>2, <2>5
  <2>7. ASSUME NEW j \in 0..(k - 1), j \in S PROVE j + 1 \in S
    <3>1. /\ j + 1 \in 1..k /\ j + 1 \in 0..k /\ (j + 1) - 1 = j /\ k - j \in 0..n /\ k - j > 0 /\ k - j \in 1..n
          /\ k - (j + 1) = (k - j) - 1 /\ (k - (j + 1)) + 1 = k - j
      BY <1>4, <2>2
    <3>2. h[k - j].ok /\ u[j] = h[k - j].m
      BY <2>7
    <3>3. h[(k - j) - 1].ok /\ unload_page(d, h[k - j].m, s[k - j]) = h[(k - j) - 1].m
      BY <1>3, <3>1, <3>2 DEF LoadedTo
    <3>4. u[j + 1] = unload_page(d, u[j], r[j + 1]) /\ r[j + 1] = s[k - j]
      BY <2>4, <2>5, <3>1
    <3>5. h[k - (j + 1)].ok /\ u[j + 1] = h[k - (j + 1)].m
      BY <3>1, <3>2, <3>3, <3>4
    <3> QED BY <3>1, <3>5
  <2>8. k \in S
    <3> HIDE DEF S
    <3>1. \A j \in 0..k : j \in S
      BY <2>2, <2>6, <2>7, UpTo
    <3> QED BY <2>2, <3>1
  <2>9. z = m
    <3>1. k - k = 0 /\ h[0].m = m
      BY <1>2, <2>2
    <3> QED BY <2>5, <2>8, <3>1
  <2>10. e = [l EXCEPT !.m = z]
    BY <1>1, <1>7 DEF z, r
  <2>11. e = [ok |-> l.ok, m |-> m, heap |-> l.heap, loaded |-> l.loaded]
    BY <1>5, <2>9, <2>10 DEF LoadState
  <2>12. e.ok = l.ok /\ e.m = m /\ l.ok \in BOOLEAN
    BY <1>5, <2>11 DEF LoadState
  <2> QED BY <1>7, <2>12 DEF LoadResult, e
<1> QED BY <1>6, <1>7

----------------------------------------------------------------------------
(* The invariant.                                                          *)

\* What the frames outside address spaces are for.
KernelFrames == reserved \union UNION {kernel_stack[t] : t \in Threads}

\* The types of everything but the memory.
RestTypes ==
  /\ reserved \in SUBSET Frames
  /\ page_directory \in [Processes -> Frames \union {0}]
  /\ loaded \in SUBSET Processes
  /\ user_stacks \in [Processes -> Seq(StackPages)]
  /\ user_stack \in [Threads -> StackPages \union {0}]
  /\ kernel_stack \in [Threads -> SUBSET Frames]
  /\ esp_page \in [Threads -> StackPages \union {0}]
  /\ intact \in SUBSET Threads
  /\ execs \in 0..MaxExecs
  /\ panicked \in BOOLEAN

\* The memory is sound, and kernel stacks share nothing.
MemorySound ==
  /\ Sound(mem, Directories, KernelFrames)
  /\ \A t \in Threads : kernel_stack[t] \intersect reserved = {}
  /\ \A t, u \in Threads : t # u => kernel_stack[t] \intersect kernel_stack[u] = {}

\* Processes have directories of their own, and those with threads have one.
DirectoriesSound ==
  /\ \A p, q \in Processes : page_directory[p] = page_directory[q] /\ page_directory[p] # 0 => p = q
  /\ \A t \in Threads : Live(t) => page_directory[process[t]] # 0

\* A stack page is reserved once; the page a thread was created with and the
\* page it runs on are reserved and no other thread's; a thread that does not
\* exist has no kernel stack.
StacksSound ==
  /\ \A t \in Threads : ~Live(t) => kernel_stack[t] = {}
  /\ \A p \in Processes : IsInjective(user_stacks[p])
  /\ \A t \in Threads : Live(t) => {user_stack[t], esp_page[t]} \subseteq ToSet(user_stacks[process[t]])
  /\ \A t, u \in Threads : t # u /\ process[t] = process[u] /\ Live(t) /\ Live(u) =>
       {user_stack[t], esp_page[t]} \intersect {user_stack[u], esp_page[u]} = {}

\* A process that has no image and no thread has nothing mapped.
NothingYet ==
  \A p \in Processes :
    page_directory[p] # 0 /\ p \notin loaded /\ LiveIn(p) = {} /\ ~panicked =>
      \A v \in Pages : mem.pages[page_directory[p]][v] = 0

\* Only threads that exist are intact, and they have their stacks.
IntactSound == (\A t \in intact : Live(t)) /\ OwnStackMapped

SpaceInv ==
  RestTypes /\ MemorySound /\ DirectoriesSound /\ StacksSound /\ NothingYet /\ IntactSound

----------------------------------------------------------------------------
(* Stack reservations.                                                     *)

\* Without the element at position i a sequence closes up.
LEMMA RemoveAtSeq ==
  ASSUME NEW S, NEW s \in Seq(S), NEW i \in 1..Len(s)
  PROVE  /\ RemoveAt(s, i) \in Seq(S)
         /\ Len(RemoveAt(s, i)) = Len(s) - 1
         /\ \A j \in 1..(Len(s) - 1) : RemoveAt(s, i)[j] = IF j < i THEN s[j] ELSE s[j + 1]
<1> DEFINE n == Len(s)
           a == SubSeq(s, 1, i - 1)
           b == SubSeq(s, i + 1, n)
           r == RemoveAt(s, i)
<1>1. n \in Nat /\ i \in 1..n
  OBVIOUS
<1>2. a \in Seq(S) /\ Len(a) = i - 1 /\ \A j \in 1..(i - 1) : a[j] = s[j]
  OBVIOUS
<1>3. b \in Seq(S) /\ Len(b) = n - i /\ \A j \in 1..(n - i) : b[j] = s[i + j]
  OBVIOUS
<1>4. r = a \o b
  BY DEF RemoveAt
<1> HIDE DEF a, b, r, n
<1>5. r \in Seq(S) /\ Len(r) = (i - 1) + (n - i)
  <2>1. a \o b \in Seq(S) /\ Len(a \o b) = Len(a) + Len(b)
    BY <1>2, <1>3, ConcatProperties
  <2> QED BY <1>2, <1>3, <1>4, <2>1
<1>6. ASSUME NEW j \in 1..(n - 1) PROVE r[j] = IF j < i THEN s[j] ELSE s[j + 1]
  <2>1. CASE j < i
    <3>1. j \in 1..(i - 1)
      BY <1>1, <2>1
    <3>2. r[j] = a[j]
      BY <1>2, <1>3, <1>4, <3>1
    <3> QED BY <1>2, <2>1, <3>1, <3>2
  <2>2. CASE ~(j < i)
    <3>1. j - (i - 1) \in 1..(n - i) /\ i + (j - (i - 1)) = j + 1 /\ j > i - 1 /\ j <= (i - 1) + (n - i)
      BY <1>1, <2>2
    <3>2. r[j] = b[j - (i - 1)]
      BY <1>1, <1>2, <1>3, <1>4, <3>1
    <3>3. b[j - (i - 1)] = s[j + 1]
      BY <1>3, <3>1
    <3> QED BY <2>2, <3>2, <3>3
  <2> QED BY <2>1, <2>2
<1>7. (i - 1) + (n - i) = n - 1
  BY <1>1
<1> QED BY <1>5, <1>6, <1>7 DEF r, n

\* usermode_stack_release takes out the reservation of v and no other.
LEMMA Released ==
  ASSUME NEW S, NEW s \in Seq(S), IsInjective(s), NEW v \in ToSet(s)
  PROVE  LET r == usermode_stack_release(s, v) IN
         r \in Seq(S) /\ IsInjective(r) /\ ToSet(r) = ToSet(s) \ {v}
<1> DEFINE n == Len(s)
           I == {i \in 1..n : s[i] = v}
           k == Min(I)
           r == RemoveAt(s, k)
<1>1. n \in Nat /\ DOMAIN s = 1..n /\ ToSet(s) = {s[i] : i \in 1..n}
  BY DEF ToSet
<1>2. I # {} /\ I \in SUBSET Nat
  BY <1>1
<1>3. k \in 1..n /\ s[k] = v
  BY <1>2, Least
<1>4. usermode_stack_release(s, v) = r
  <2>1. SelectInSeq(s, LAMBDA w : w = v) = k
    BY <1>2 DEF SelectInSeq
  <2>2. \E i \in 1..Len(s) : s[i] = v
    BY <1>3
  <2> QED BY <2>1, <2>2 DEF usermode_stack_release, RemoveFirst
<1> HIDE DEF k, I
<1>5. /\ r \in Seq(S) /\ Len(r) = n - 1
      /\ \A j \in 1..(n - 1) : r[j] = IF j < k THEN s[j] ELSE s[j + 1]
  BY <1>3, RemoveAtSeq
<1> HIDE DEF r
<1>6. DOMAIN r = 1..(n - 1) /\ ToSet(r) = {r[j] : j \in 1..(n - 1)}
  BY <1>5 DEF ToSet
<1>7. \A i, j \in 1..n : s[i] = s[j] => i = j
  BY <1>1 DEF IsInjective
<1> HIDE DEF n
<1>8. IsInjective(r)
  <2> SUFFICES ASSUME NEW i \in 1..(n - 1), NEW j \in 1..(n - 1), r[i] = r[j] PROVE i = j
    BY <1>6 DEF IsInjective
  <2>1. i \in 1..n /\ i + 1 \in 1..n /\ j \in 1..n /\ j + 1 \in 1..n
    BY <1>1
  <2> QED BY <1>1, <1>3, <1>5, <1>7, <2>1
<1>9. \A u \in ToSet(r) : u \in ToSet(s) /\ u # v
  <2> SUFFICES ASSUME NEW j \in 1..(n - 1) PROVE r[j] \in ToSet(s) /\ r[j] # v
    BY <1>6
  <2>1. j \in 1..n /\ j + 1 \in 1..n /\ j # j + 1
    BY <1>1
  <2>2. CASE j < k
    <3>1. r[j] = s[j] /\ j # k
      BY <1>1, <1>3, <1>5, <2>2
    <3> QED BY <1>1, <1>3, <1>7, <2>1, <3>1
  <2>3. CASE ~(j < k)
    <3>1. r[j] = s[j + 1] /\ j + 1 # k
      BY <1>1, <1>3, <1>5, <2>3
    <3> QED BY <1>1, <1>3, <1>7, <2>1, <3>1
  <2> QED BY <2>2, <2>3
<1>10. \A u \in ToSet(s) : u # v => u \in ToSet(r)
  <2> SUFFICES ASSUME NEW i \in 1..n, s[i] # v PROVE s[i] \in ToSet(r)
    BY <1>1
  <2>1. i # k
    BY <1>3
  <2>2. CASE i < k
    <3>1. i \in 1..(n - 1) /\ r[i] = s[i]
      BY <1>1, <1>3, <1>5, <2>2
    <3> QED BY <1>6, <3>1
  <2>3. CASE i > k
    <3>1. i - 1 \in 1..(n - 1) /\ ~(i - 1 < k) /\ (i - 1) + 1 = i
      BY <1>1, <1>3, <2>3
    <3>2. r[i - 1] = s[i]
      BY <1>5, <3>1
    <3> QED BY <1>6, <3>1, <3>2
  <2> QED BY <1>3, <2>1, <2>2, <2>3
<1>11. ToSet(r) = ToSet(s) \ {v}
  BY <1>9, <1>10
<1> QED BY <1>4, <1>5, <1>8, <1>11

\* user_stack_reserve adds a reservation.
LEMMA Reserved ==
  ASSUME NEW S, NEW s \in Seq(S), IsInjective(s), NEW v \in S, v \notin ToSet(s)
  PROVE  LET r == user_stack_reserve(s, v) IN
         r \in Seq(S) /\ IsInjective(r) /\ ToSet(r) = ToSet(s) \union {v}
<1> DEFINE n == Len(s)
           r == Append(s, v)
<1>1. n \in Nat /\ DOMAIN s = 1..n /\ ToSet(s) = {s[i] : i \in 1..n}
  BY DEF ToSet
<1>2. r \in Seq(S) /\ Len(r) = n + 1 /\ r[n + 1] = v /\ \A i \in 1..n : r[i] = s[i]
  OBVIOUS
<1> HIDE DEF r, n
<1>3. DOMAIN r = 1..(n + 1) /\ ToSet(r) = {r[i] : i \in 1..(n + 1)}
  BY <1>2 DEF ToSet
<1>4. \A i \in 1..(n + 1) : i \in 1..n \/ i = n + 1
  BY <1>1
<1>5. \A i \in 1..n : i \in 1..(n + 1) /\ s[i] # v
  BY <1>1
<1>6. n + 1 \in 1..(n + 1)
  BY <1>1
<1>7. ToSet(r) = ToSet(s) \union {v}
  <2>1. \A u \in ToSet(r) : u \in ToSet(s) \union {v}
    BY <1>1, <1>2, <1>3, <1>4
  <2>2. \A u \in ToSet(s) \union {v} : u \in ToSet(r)
    BY <1>1, <1>2, <1>3, <1>5, <1>6
  <2> QED BY <2>1, <2>2
<1>8. \A i, j \in 1..n : s[i] = s[j] => i = j
  BY <1>1 DEF IsInjective
<1>9. IsInjective(r)
  <2> SUFFICES ASSUME NEW i \in 1..(n + 1), NEW j \in 1..(n + 1), r[i] = r[j] PROVE i = j
    BY <1>3 DEF IsInjective
  <2> QED BY <1>2, <1>4, <1>5, <1>8
<1> QED BY <1>2, <1>7, <1>9 DEF r, user_stack_reserve

\* user_stack_alloc finds a stack page that is neither reserved nor mapped.
LEMMA StackFound ==
  ASSUME NEW m, NEW d, NEW stacks, user_stack_alloc(m, d, stacks) # 0
  PROVE  LET v == user_stack_alloc(m, d, stacks) IN
         v \in StackPages /\ v \in Pages /\ v \notin ToSet(stacks) /\ m.pages[d][v] = 0
<1> DEFINE S == {v \in StackPages : v \notin ToSet(stacks) /\ paging_translate(m, d, v) = 0}
<1>1. user_stack_alloc(m, d, stacks) = IF S = {} THEN 0 ELSE Max(S)
  BY DEF user_stack_alloc
<1>2. S \in SUBSET Pages /\ S # {}
  BY <1>1 DEF StackPages
<1>3. Max(S) \in S
  BY <1>2, Greatest
<1>4. user_stack_alloc(m, d, stacks) \in S
  BY <1>1, <1>2, <1>3
<1> QED BY <1>4 DEF StackPages, paging_translate

\* The frames of a new kernel stack are free.
LEMMA KernelStackFree == ASSUME NEW m PROVE KernelStack(m) \in SUBSET (Frames \ m.used)
  BY DEF KernelStack

\* Page 0 is not a stack page, and an image has no page twice.
LEMMA StackPagesFacts ==
  /\ 0 \notin StackPages /\ StackPages \subseteq Pages
  /\ \A image \in Images : image \in Seq(Pages) /\ IsInjective(image)
<1>1. StackStart \in Nat \ {0}
  BY SpaceAssumption
<1>2. 0 \notin StackPages /\ StackPages \subseteq Pages
  BY <1>1 DEF StackPages
<1> QED BY <1>2, SpaceAssumption

----------------------------------------------------------------------------
(* The steps.                                                              *)

\* What FailureRestoresMemory says of a step.
Restores ==
  page_directory' = page_directory /\ user_stack' = user_stack /\ loaded' = loaded /\ ~panicked' =>
    mem' = mem

\* What the invariant says of directories.
LEMMA DirectoryFacts ==
  ASSUME SpaceInv
  PROVE  /\ Directories \subseteq Frames /\ KernelFrames \subseteq Frames /\ mem \in Memory
         /\ \A p \in Processes : page_directory[p] # 0 =>
              page_directory[p] \in Directories /\ page_directory[p] \in Frames
         /\ \A t \in Threads : process[t] \in Processes
         /\ \A t \in intact : t \in Threads /\ Live(t) /\ page_directory[process[t]] \in Frames
                              /\ esp_page[t] \in Pages
<1>1. Directories \subseteq Frames /\ KernelFrames \subseteq Frames /\ mem \in Memory
  BY DEF SpaceInv, MemorySound, Sound
<1>2. \A p \in Processes : page_directory[p] # 0 =>
        page_directory[p] \in Directories /\ page_directory[p] \in Frames
  BY DEF SpaceInv, RestTypes, Directories
<1>3. \A t \in Threads : process[t] \in Processes
  BY SpaceAssumption
<1>4. ASSUME NEW t \in intact
      PROVE  t \in Threads /\ Live(t) /\ page_directory[process[t]] \in Frames /\ esp_page[t] \in Pages
  <2>1. t \in Threads /\ Live(t)
    BY DEF SpaceInv, RestTypes, IntactSound
  <2>2. page_directory[process[t]] # 0
    BY <2>1 DEF SpaceInv, DirectoriesSound
  <2>3. esp_page[t] \in ToSet(user_stacks[process[t]]) /\ user_stacks[process[t]] \in Seq(StackPages)
    BY <1>3, <2>1 DEF SpaceInv, StacksSound, RestTypes
  <2>4. esp_page[t] \in StackPages
    BY <2>3 DEF ToSet
  <2> QED BY <1>2, <1>3, <2>1, <2>2, <2>4, StackPagesFacts
<1> QED BY <1>1, <1>2, <1>3, <1>4

\* pmm_init leaves a sound memory.
LEMMA SpaceInvInit == SpaceInit => SpaceInv
<1> SUFFICES ASSUME SpaceInit PROVE SpaceInv
  OBVIOUS
<1>1. PICK n \in 0..NumFrames : reserved = 1..n
  BY DEF SpaceInit
<1>2. reserved \subseteq Frames
  BY <1>1, Sizes DEF Frames
<1>3. RestTypes
  <2>1. MaxExecs \in Nat /\ << >> \in Seq(StackPages)
    BY SpaceAssumption
  <2>2. reserved \in SUBSET Frames /\ loaded \in SUBSET Processes /\ intact \in SUBSET Threads
    BY <1>2 DEF SpaceInit
  <2>3. execs = 0 /\ panicked = FALSE
    BY DEF SpaceInit
  <2>3a. execs \in 0..MaxExecs
    BY <2>1, <2>3
  <2>3b. panicked \in BOOLEAN
    BY <2>3
  <2>4. user_stacks \in [Processes -> Seq(StackPages)]
    BY <2>1 DEF SpaceInit
  <2>5. page_directory \in [Processes -> Frames \union {0}] /\ kernel_stack \in [Threads -> SUBSET Frames]
    BY DEF SpaceInit
  <2>6. user_stack \in [Threads -> StackPages \union {0}] /\ esp_page \in [Threads -> StackPages \union {0}]
    BY DEF SpaceInit
  <2> QED BY <2>2, <2>3a, <2>3b, <2>4, <2>5, <2>6 DEF RestTypes
<1>4. Directories = {} /\ KernelFrames = reserved
  BY DEF SpaceInit, Directories, KernelFrames
<1>5. MemorySound
  <2>1. /\ mem \in Memory /\ mem.used = reserved
        /\ \A d \in Frames, x \in Tables : mem.tables[d][x] = 0
        /\ \A d \in Frames, v \in Pages : mem.pages[d][v] = 0
    BY <1>2 DEF SpaceInit, FreshMemory, Memory
  <2>2. Sound(mem, {}, reserved)
    BY <1>2, <2>1 DEF Sound, Owned, Shaped, Blank
  <2>3. \A t \in Threads : kernel_stack[t] = {}
    BY DEF SpaceInit
  <2> QED BY <1>4, <2>2, <2>3 DEF MemorySound
<1>6. \A t \in Threads : ~Live(t)
  BY DEF SpaceInit, Live
<1>7. DirectoriesSound /\ NothingYet
  BY <1>6, SpaceAssumption DEF SpaceInit, DirectoriesSound, NothingYet
<1>8. StacksSound
  <2>1. IsInjective(<< >>)
    BY DEF IsInjective
  <2> QED BY <1>6, <2>1 DEF SpaceInit, StacksSound
<1>9. IntactSound
  BY DEF SpaceInit, IntactSound, OwnStackMapped
<1> QED BY <1>3, <1>5, <1>7, <1>8, <1>9 DEF SpaceInv

\* Nothing happens.
LEMMA SpaceStutter == SpaceInv /\ UNCHANGED vars => SpaceInv' /\ Restores
<1> SUFFICES ASSUME SpaceInv, UNCHANGED vars PROVE SpaceInv' /\ Restores
  OBVIOUS
<1>1. RestTypes' /\ MemorySound'
  BY DEF vars, SpaceInv, RestTypes, MemorySound, Directories, KernelFrames
<1>2. DirectoriesSound' /\ StacksSound'
  BY DEF vars, SpaceInv, DirectoriesSound, StacksSound, Live
<1>3. NothingYet' /\ IntactSound' /\ Restores
  BY DEF vars, SpaceInv, NothingYet, IntactSound, OwnStackMapped, Live, LiveIn, Restores
<1> QED BY <1>1, <1>2, <1>3 DEF SpaceInv

\* process_create.
LEMMA CreateStep ==
  ASSUME SpaceInv, NEW p \in Processes, process_create(p)
  PROVE  SpaceInv' /\ Restores
<1> DEFINE d == pmm_alloc_page(mem)
<1>1. /\ ~panicked /\ page_directory[p] = 0 /\ d # 0 /\ mem' = Taken(mem, d)
      /\ page_directory' = [page_directory EXCEPT ![p] = d]
      /\ reserved' = reserved /\ loaded' = loaded /\ user_stacks' = user_stacks /\ user_stack' = user_stack
      /\ kernel_stack' = kernel_stack /\ esp_page' = esp_page /\ intact' = intact /\ execs' = execs
      /\ panicked' = panicked
  BY DEF process_create
<1>2. d \in Frames \ mem.used
  BY <1>1, AllocFacts, DirectoryFacts
<1> HIDE DEF d
<1>3. /\ Sound(mem', Directories \union {d}, KernelFrames) /\ d \notin Directories
      /\ \A v \in Pages : mem'.pages[d][v] = 0
  BY <1>1, <1>2, CreateSound DEF SpaceInv, MemorySound
<1>4. mem'.pages = mem.pages
  BY <1>1, <1>2, DirectoryFacts, TakenFacts
<1>5. RestTypes'
  BY <1>1, <1>2 DEF SpaceInv, RestTypes
<1>6. page_directory \in [Processes -> Frames \union {0}] /\ d # 0
  BY <1>1 DEF SpaceInv, RestTypes
<1>7. Directories' = Directories \union {d} /\ KernelFrames' = KernelFrames
  <2>1. page_directory'[p] = d /\ \A q \in Processes : q # p => page_directory'[q] = page_directory[q]
    BY <1>1, <1>6
  <2>2. Directories' = {page_directory'[q] : q \in Processes} \ {0}
    BY DEF Directories
  <2>3. \A e \in Directories' : e \in Directories \union {d}
    BY <2>1, <2>2 DEF Directories
  <2>4. \A e \in Directories \union {d} : e \in Directories'
    BY <1>1, <1>6, <2>1, <2>2 DEF Directories
  <2> QED BY <1>1, <2>3, <2>4 DEF KernelFrames
<1>8. MemorySound'
  BY <1>1, <1>3, <1>7 DEF SpaceInv, MemorySound
<1>9. \A t \in Threads : Live(t)' = Live(t)
  BY <1>1 DEF Live
<1>9a. \A q \in Processes : LiveIn(q)' = LiveIn(q)
  BY <1>1 DEF LiveIn, Live
<1>10. DirectoriesSound'
  <2>1. \A q \in Processes : page_directory[q] # d
    BY <1>3, <1>6 DEF Directories
  <2>2. \A q, r \in Processes : page_directory'[q] = page_directory'[r] /\ page_directory'[q] # 0 => q = r
    BY <1>1, <1>6, <2>1 DEF SpaceInv, DirectoriesSound
  <2>3. \A t \in Threads : Live(t) => page_directory'[process[t]] # 0
    BY <1>1, <1>6, DirectoryFacts DEF SpaceInv, DirectoriesSound
  <2> QED BY <1>9, <2>2, <2>3 DEF DirectoriesSound
<1>11. StacksSound'
  BY <1>1, <1>9 DEF SpaceInv, StacksSound
<1>12. NothingYet'
  <2> SUFFICES ASSUME NEW q \in Processes, page_directory'[q] # 0, q \notin loaded', LiveIn(q)' = {}, ~panicked'
               PROVE  \A v \in Pages : mem'.pages[page_directory'[q]][v] = 0
    BY DEF NothingYet
  <2>1. CASE q = p
    BY <1>1, <1>3, <1>6, <2>1
  <2>2. CASE q # p
    <3>1. page_directory'[q] = page_directory[q]
      BY <1>1, <1>6, <2>2
    <3> QED BY <1>1, <1>4, <1>9a, <3>1 DEF SpaceInv, NothingYet
  <2> QED BY <2>1, <2>2
<1>13. IntactSound'
  <2>1. \A t \in intact : page_directory'[process[t]] = page_directory[process[t]]
    BY <1>1, <1>6, Sizes, DirectoryFacts
  <2>2. \A t \in intact : mem'.pages[page_directory'[process[t]]][esp_page'[t]] # 0
    BY <1>1, <1>4, <2>1 DEF SpaceInv, IntactSound, OwnStackMapped, paging_translate
  <2>3. \A t \in intact' : Live(t)'
    BY <1>1, <1>9, DirectoryFacts
  <2> QED BY <1>1, <2>2, <2>3 DEF IntactSound, OwnStackMapped, paging_translate
<1>14. Restores
  BY <1>1, <1>6 DEF Restores
<1> QED BY <1>5, <1>8, <1>10, <1>11, <1>12, <1>13, <1>14 DEF SpaceInv

\* The other processes do not notice what is done in the directory of p.
LEMMA OthersKept ==
  ASSUME SpaceInv, NEW p \in Processes, NEW q \in Processes, q # p, page_directory[q] # 0, NEW n, NEW S,
         Beside(mem, n, page_directory[p], S)
  PROVE  \A v \in Pages : n.pages[page_directory[q]][v] = mem.pages[page_directory[q]][v]
<1>1. page_directory[q] \in Frames /\ page_directory[q] # page_directory[p]
  BY DirectoryFacts DEF SpaceInv, DirectoriesSound
<1> QED BY <1>1 DEF Beside

\* load.
LEMMA LoadStep ==
  ASSUME SpaceInv, NEW p \in Processes, NEW image \in Images, NEW heap, load(p, image, heap)
  PROVE  SpaceInv' /\ Restores
<1> DEFINE d == page_directory[p]
           l == elf_load(mem, d, image, heap)
           A == Pages
<1>1. /\ ~panicked /\ d # 0 /\ p \notin loaded /\ LiveIn(p) = {}
      /\ mem' = l.m /\ loaded' = loaded \union {p} /\ panicked' = ~l.ok
      /\ reserved' = reserved /\ page_directory' = page_directory /\ user_stacks' = user_stacks
      /\ user_stack' = user_stack /\ kernel_stack' = kernel_stack /\ esp_page' = esp_page
      /\ intact' = intact /\ execs' = execs
  BY DEF load
<1>2. d \in Directories /\ Sound(mem, Directories, KernelFrames) /\ \A v \in A : mem.pages[d][v] = 0
  BY <1>1, DirectoryFacts DEF SpaceInv, MemorySound, NothingYet
<1>3. LoadResult(l, mem, d, A, Directories, KernelFrames)
  <2>1. image \in Seq(A) /\ IsInjective(image) /\ A \in SUBSET Pages
    BY StackPagesFacts
  <2> HIDE DEF A
  <2> QED BY <1>2, <2>1, ElfLoadSound
<1> HIDE DEF l
<1>4. Sound(mem', Directories, KernelFrames) /\ Beside(mem, mem', d, A)
  <2>1. CASE l.ok
    BY <1>1, <1>3, <2>1 DEF LoadResult
  <2>2. CASE ~l.ok
    BY <1>1, <1>2, <1>3, <2>2 DEF LoadResult, Beside
  <2> QED BY <2>1, <2>2
<1>5. panicked' \in BOOLEAN
  BY <1>1
<1>6. RestTypes'
  BY <1>1, <1>5 DEF SpaceInv, RestTypes
<1>7. Directories' = Directories /\ KernelFrames' = KernelFrames
  BY <1>1 DEF Directories, KernelFrames
<1>8. MemorySound'
  BY <1>1, <1>4, <1>7 DEF SpaceInv, MemorySound
<1>9. (\A t \in Threads : Live(t)' = Live(t)) /\ \A q \in Processes : LiveIn(q)' = LiveIn(q)
  BY <1>1 DEF Live, LiveIn
<1>10. DirectoriesSound' /\ StacksSound'
  BY <1>1, <1>9 DEF SpaceInv, DirectoriesSound, StacksSound
<1>11. \A q \in Processes : q # p /\ page_directory[q] # 0 =>
         \A v \in Pages : mem'.pages[page_directory[q]][v] = mem.pages[page_directory[q]][v]
  BY <1>4, OthersKept
<1>12. NothingYet'
  <2> SUFFICES ASSUME NEW q \in Processes, page_directory'[q] # 0, q \notin loaded', LiveIn(q)' = {}, ~panicked'
               PROVE  \A v \in Pages : mem'.pages[page_directory'[q]][v] = 0
    BY DEF NothingYet
  <2>1. q # p /\ q \notin loaded /\ LiveIn(q) = {} /\ page_directory[q] # 0
    BY <1>1, <1>9
  <2> QED BY <1>1, <1>11, <2>1 DEF SpaceInv, NothingYet
<1>13. IntactSound'
  <2>1. ASSUME NEW t \in intact PROVE mem'.pages[page_directory[process[t]]][esp_page[t]] # 0
    <3>1. t \in Threads /\ Live(t) /\ process[t] \in Processes /\ esp_page[t] \in Pages
          /\ page_directory[process[t]] # 0
      BY DirectoryFacts DEF SpaceInv, DirectoriesSound
    <3>2. process[t] # p
      BY <1>1, <3>1 DEF LiveIn
    <3>3. mem.pages[page_directory[process[t]]][esp_page[t]] # 0
      BY DEF SpaceInv, IntactSound, OwnStackMapped, paging_translate
    <3> QED BY <1>11, <3>1, <3>2, <3>3
  <2>2. \A t \in intact' : Live(t)'
    BY <1>1, <1>9, DirectoryFacts
  <2> QED BY <1>1, <2>1, <2>2 DEF IntactSound, OwnStackMapped, paging_translate
<1>14. Restores
  BY <1>1 DEF Restores
<1> QED BY <1>6, <1>8, <1>10, <1>12, <1>13, <1>14 DEF SpaceInv

\* A step that leaves memory, processes and threads alone: at most a stack page is
\* reserved, and an assertion may have fired.
LEMMA QuietStep ==
  ASSUME SpaceInv, ~panicked, mem' = mem, reserved' = reserved, page_directory' = page_directory,
         loaded' = loaded, user_stack' = user_stack, kernel_stack' = kernel_stack, esp_page' = esp_page,
         intact' = intact, panicked' \in BOOLEAN, execs' \in 0..MaxExecs,
         user_stacks' \in [Processes -> Seq(StackPages)],
         \A p \in Processes : IsInjective(user_stacks'[p]) /\ ToSet(user_stacks[p]) \subseteq ToSet(user_stacks'[p])
  PROVE  SpaceInv' /\ Restores
<1>1. RestTypes'
  BY DEF SpaceInv, RestTypes
<1>2. Directories' = Directories /\ KernelFrames' = KernelFrames
  BY DEF Directories, KernelFrames
<1>3. MemorySound'
  BY <1>2 DEF SpaceInv, MemorySound
<1>4. (\A t \in Threads : Live(t)' = Live(t)) /\ \A q \in Processes : LiveIn(q)' = LiveIn(q)
  BY DEF Live, LiveIn
<1>5. DirectoriesSound'
  BY <1>4 DEF SpaceInv, DirectoriesSound
<1>6. StacksSound'
  <2>1. \A t \in Threads : Live(t) => {user_stack[t], esp_page[t]} \subseteq ToSet(user_stacks'[process[t]])
    BY DirectoryFacts DEF SpaceInv, StacksSound
  <2> QED BY <1>4, <2>1 DEF SpaceInv, StacksSound
<1>7. NothingYet'
  BY <1>4 DEF SpaceInv, NothingYet
<1>8. IntactSound'
  BY <1>4, DirectoryFacts DEF SpaceInv, IntactSound, OwnStackMapped
<1>9. Restores
  BY DEF Restores
<1> QED BY <1>1, <1>3, <1>5, <1>6, <1>7, <1>8, <1>9 DEF SpaceInv

\* The reservations of process p, with another page.
LEMMA ReservedMore ==
  ASSUME SpaceInv, NEW p \in Processes, NEW v \in StackPages, v \notin ToSet(user_stacks[p]), NEW s,
         s = [user_stacks EXCEPT ![p] = user_stack_reserve(@, v)]
  PROVE  /\ s \in [Processes -> Seq(StackPages)]
         /\ \A q \in Processes : IsInjective(s[q]) /\ ToSet(user_stacks[q]) \subseteq ToSet(s[q])
         /\ v \in ToSet(s[p])
<1>1. user_stacks \in [Processes -> Seq(StackPages)] /\ \A q \in Processes : IsInjective(user_stacks[q])
  BY DEF SpaceInv, RestTypes, StacksSound
<1> DEFINE r == user_stack_reserve(user_stacks[p], v)
<1>2. r \in Seq(StackPages) /\ IsInjective(r) /\ ToSet(r) = ToSet(user_stacks[p]) \union {v}
  BY <1>1, Reserved
<1>3. s = [user_stacks EXCEPT ![p] = r]
  OBVIOUS
<1> HIDE DEF r
<1>4. s \in [Processes -> Seq(StackPages)] /\ s[p] = r /\ \A q \in Processes : q # p => s[q] = user_stacks[q]
  BY <1>1, <1>2, <1>3
<1> QED BY <1>1, <1>2, <1>4

\* user_thread_create, with the reservation kept or not.
LEMMA ThreadCreateStep ==
  ASSUME SpaceInv, NEW t \in Threads, NEW heap, NEW keep \in BOOLEAN, user_thread_create(t, heap, keep)
  PROVE  SpaceInv' /\ Restores
<1> DEFINE p == process[t]
           d == page_directory[p]
           v == user_stack_alloc(mem, d, user_stacks[p])
           f == pmm_alloc_page(mem)
           m1 == paging_map(Taken(mem, f), d, v, f)
           ks == KernelStack(m1)
<1>1. /\ ~panicked /\ d # 0 /\ ~Live(t) /\ v # 0
      /\ reserved' = reserved /\ page_directory' = page_directory /\ loaded' = loaded /\ execs' = execs
  BY DEF user_thread_create
<1>2. /\ p \in Processes /\ d \in Directories /\ d \in Frames /\ Sound(mem, Directories, KernelFrames)
      /\ execs \in 0..MaxExecs /\ panicked \in BOOLEAN
      /\ user_stacks \in [Processes -> Seq(StackPages)] /\ \A q \in Processes : IsInjective(user_stacks[q])
  BY <1>1, DirectoryFacts DEF SpaceInv, MemorySound, RestTypes, StacksSound
<1>3. v \in StackPages /\ v \in Pages /\ v \notin ToSet(user_stacks[p]) /\ mem.pages[d][v] = 0
  BY <1>1, StackFound
<1> DEFINE more == [user_stacks EXCEPT ![p] = user_stack_reserve(@, v)]
<1>4. /\ more \in [Processes -> Seq(StackPages)] /\ v \in ToSet(more[p])
      /\ \A q \in Processes : IsInjective(more[q]) /\ ToSet(user_stacks[q]) \subseteq ToSet(more[q])
  <2> HIDE DEF v, d, p
  <2> QED BY <1>2, <1>3, ReservedMore
<1>5. CASE f = 0
  <2>1. /\ user_stacks' = [user_stacks EXCEPT ![p] = IF keep THEN user_stack_reserve(@, v) ELSE @]
        /\ mem' = mem /\ user_stack' = user_stack /\ kernel_stack' = kernel_stack /\ esp_page' = esp_page
        /\ intact' = intact /\ panicked' = panicked
    BY <1>5 DEF user_thread_create
  <2>2. user_stacks' = more \/ user_stacks' = user_stacks
    BY <1>2, <2>1
  <2>3. /\ user_stacks' \in [Processes -> Seq(StackPages)]
        /\ \A q \in Processes : IsInjective(user_stacks'[q]) /\ ToSet(user_stacks[q]) \subseteq ToSet(user_stacks'[q])
    <3> HIDE DEF more
    <3> QED BY <1>2, <1>4, <2>2
  <2> HIDE DEF more, v, d, p, f
  <2> QED BY <1>1, <1>2, <2>1, <2>3, QuietStep
<1>6. CASE f # 0 /\ paging_translate(m1, d, v) # f
  <2>1. /\ panicked' = TRUE /\ mem' = mem /\ user_stacks' = user_stacks /\ user_stack' = user_stack
        /\ kernel_stack' = kernel_stack /\ esp_page' = esp_page /\ intact' = intact
    BY <1>6 DEF user_thread_create
  <2> HIDE DEF more, v, d, p, f, m1, ks
  <2> QED BY <1>1, <1>2, <2>1, QuietStep
<1>7. ASSUME f # 0 PROVE f \in Frames \ mem.used
  BY <1>7, AllocFacts, DirectoryFacts
<1>8. CASE f # 0 /\ paging_translate(m1, d, v) = f /\ (ks = {} \/ heap < 3)
  <2>1. /\ mem' = pmm_free_page(paging_unmap(m1, d, v), f)
        /\ user_stacks' = user_stacks /\ user_stack' = user_stack
        /\ kernel_stack' = kernel_stack /\ esp_page' = esp_page /\ intact' = intact /\ panicked' = panicked
    BY <1>8 DEF user_thread_create
  <2>2. pmm_free_page(paging_unmap(m1, d, v), f) = mem
    <3>1. f \in Frames \ mem.used /\ m1 = paging_map(Taken(mem, f), d, v, f)
      BY <1>7, <1>8
    <3>2. Sound(mem, Directories, KernelFrames) /\ d \in Directories /\ v \in Pages /\ mem.pages[d][v] = 0
      BY <1>2, <1>3
    <3> HIDE DEF more, v, d, p, f, m1, ks
    <3>3. /\ pmm_free_page(paging_unmap(m1, d, v), f) = mem
          /\ paging_translate(m1, d, v) = f =>
               Sound(m1, Directories, KernelFrames) /\ Beside(mem, m1, d, {v})
      BY <3>1, <3>2, MapSound
    <3> QED BY <3>3
  <2> HIDE DEF more, v, d, p, f, m1, ks
  <2> QED BY <1>1, <1>2, <2>1, <2>2, QuietStep
<1>9. CASE f # 0 /\ paging_translate(m1, d, v) = f /\ ~(ks = {} \/ heap < 3)
  <2>1. /\ mem' = [m1 EXCEPT !.used = @ \union ks] /\ user_stacks' = more
        /\ user_stack' = [user_stack EXCEPT ![t] = v] /\ kernel_stack' = [kernel_stack EXCEPT ![t] = ks]
        /\ esp_page' = [esp_page EXCEPT ![t] = v] /\ intact' = intact \union {t} /\ panicked' = panicked
    BY <1>9 DEF user_thread_create
  <2>2. Sound(m1, Directories, KernelFrames) /\ Beside(mem, m1, d, {v}) /\ m1.pages[d][v] = f
    BY <1>2, <1>3, <1>7, <1>9, MapSound DEF paging_translate
  <2>3. ks \in SUBSET (Frames \ m1.used)
    BY KernelStackFree
  <2> HIDE DEF more, v, d, p, f, m1, ks
  <2>4. /\ Sound(mem', Directories, KernelFrames \union ks) /\ mem'.pages = m1.pages
        /\ ks \intersect (Directories \union KernelFrames) = {}
    BY <2>1, <2>2, <2>3, StackTaken
  <2>5. user_stack \in [Threads -> StackPages \union {0}] /\ esp_page \in [Threads -> StackPages \union {0}]
        /\ kernel_stack \in [Threads -> SUBSET Frames] /\ ks \in SUBSET Frames /\ v # 0
    BY <1>3, <2>3, StackPagesFacts DEF SpaceInv, RestTypes
  <2>6. /\ user_stack'[t] = v /\ esp_page'[t] = v /\ kernel_stack'[t] = ks
        /\ \A u \in Threads : u # t => user_stack'[u] = user_stack[u] /\ esp_page'[u] = esp_page[u]
                                       /\ kernel_stack'[u] = kernel_stack[u]
    BY <2>1, <2>5
  <2>7. RestTypes'
    <3>1. user_stack' \in [Threads -> StackPages \union {0}] /\ esp_page' \in [Threads -> StackPages \union {0}]
          /\ kernel_stack' \in [Threads -> SUBSET Frames]
      BY <1>3, <2>1, <2>5
    <3> QED BY <1>1, <1>4, <2>1, <3>1 DEF SpaceInv, RestTypes
  <2>8. kernel_stack[t] = {}
    BY <1>1 DEF SpaceInv, StacksSound
  <2>9. Directories' = Directories /\ KernelFrames' = KernelFrames \union ks
    <3>1. \A g \in KernelFrames' : g \in KernelFrames \union ks
      BY <1>1, <2>6 DEF KernelFrames
    <3>2. \A g \in KernelFrames \union ks : g \in KernelFrames'
      BY <1>1, <2>6, <2>8 DEF KernelFrames
    <3> QED BY <1>1, <3>1, <3>2 DEF Directories
  <2>10. MemorySound'
    <3>1. ks \intersect reserved = {} /\ \A u \in Threads : ks \intersect kernel_stack[u] = {}
      BY <2>4 DEF KernelFrames
    <3>2. \A u \in Threads : kernel_stack'[u] \intersect reserved = {}
      BY <2>6, <3>1 DEF SpaceInv, MemorySound
    <3>3. \A u, w \in Threads : u # w => kernel_stack'[u] \intersect kernel_stack'[w] = {}
      BY <2>6, <3>1 DEF SpaceInv, MemorySound
    <3> QED BY <1>1, <2>4, <2>9, <3>2, <3>3 DEF MemorySound
  <2>11. Live(t)' /\ \A u \in Threads : u # t => Live(u)' = Live(u)
    BY <2>5, <2>6 DEF Live
  <2>12. \A q \in Processes : q # p => LiveIn(q)' = LiveIn(q)
    BY <2>11 DEF LiveIn, p
  <2>13. t \in LiveIn(p)'
    BY <2>11 DEF LiveIn, p
  <2>14. DirectoriesSound'
    BY <1>1, <2>11 DEF SpaceInv, DirectoriesSound, d, p
  <2>15. StacksSound'
    <3>1. \A u \in Threads : ~Live(u)' => kernel_stack'[u] = {}
      BY <2>6, <2>11 DEF SpaceInv, StacksSound
    <3>2. \A u \in Threads : Live(u)' => {user_stack'[u], esp_page'[u]} \subseteq ToSet(user_stacks'[process[u]])
      BY <1>4, <2>1, <2>6, <2>11, DirectoryFacts DEF SpaceInv, StacksSound, p
    <3>3. ASSUME NEW u \in Threads, NEW w \in Threads, u # w, process[u] = process[w], Live(u)', Live(w)'
          PROVE  {user_stack'[u], esp_page'[u]} \intersect {user_stack'[w], esp_page'[w]} = {}
      <4>1. \A z \in Threads : z # t /\ process[z] = p /\ Live(z)' => user_stack[z] # v /\ esp_page[z] # v
        BY <1>3, <2>11 DEF SpaceInv, StacksSound, p
      <4>2. CASE u = t
        BY <2>6, <3>3, <4>1, <4>2 DEF p
      <4>3. CASE w = t
        BY <2>6, <3>3, <4>1, <4>3 DEF p
      <4>4. CASE u # t /\ w # t
        BY <2>6, <2>11, <3>3, <4>4 DEF SpaceInv, StacksSound
      <4> QED BY <4>2, <4>3, <4>4
    <3> QED BY <1>4, <2>1, <3>1, <3>2, <3>3 DEF StacksSound
  <2>16. \A q \in Processes : q # p /\ page_directory[q] # 0 =>
           \A w \in Pages : mem'.pages[page_directory[q]][w] = mem.pages[page_directory[q]][w]
    <3>1. Beside(mem, m1, page_directory[p], {v})
      BY <2>2 DEF d
    <3>2. \A q \in Processes : q # p /\ page_directory[q] # 0 =>
            \A w \in Pages : m1.pages[page_directory[q]][w] = mem.pages[page_directory[q]][w]
      BY <1>2, <3>1, OthersKept
    <3> QED BY <2>4, <3>2
  <2>17. NothingYet'
    <3> SUFFICES ASSUME NEW q \in Processes, page_directory'[q] # 0, q \notin loaded', LiveIn(q)' = {}, ~panicked'
                 PROVE  \A w \in Pages : mem'.pages[page_directory'[q]][w] = 0
      BY DEF NothingYet
    <3>1. q # p /\ q \notin loaded /\ LiveIn(q) = {} /\ page_directory[q] # 0
      BY <1>1, <2>12, <2>13
    <3> QED BY <1>1, <2>16, <3>1 DEF SpaceInv, NothingYet
  <2>18. IntactSound'
    <3>1. mem'.pages[d][v] # 0
      BY <1>9, <2>2, <2>4
    <3>2. ASSUME NEW u \in intact, u # t PROVE mem'.pages[page_directory[process[u]]][esp_page[u]] # 0
      <4>1. u \in Threads /\ Live(u) /\ process[u] \in Processes /\ esp_page[u] \in Pages
            /\ page_directory[process[u]] # 0
        BY DirectoryFacts DEF SpaceInv, DirectoriesSound
      <4>2. mem.pages[page_directory[process[u]]][esp_page[u]] # 0
        BY DEF SpaceInv, IntactSound, OwnStackMapped, paging_translate
      <4>3. CASE process[u] # p
        BY <2>16, <4>1, <4>2, <4>3
      <4>4. CASE process[u] = p
        <5>1. esp_page[u] # v
          BY <1>3, <4>1, <4>4 DEF SpaceInv, StacksSound
        <5>2. m1.pages[d][esp_page[u]] = mem.pages[d][esp_page[u]]
          BY <1>2, <2>2, <4>1, <5>1 DEF Beside
        <5> QED BY <2>4, <4>2, <4>4, <5>2 DEF d
      <4> QED BY <4>3, <4>4
    <3>3. \A u \in intact' : Live(u)'
      BY <2>1, <2>11, DirectoryFacts
    <3>4. ASSUME NEW u \in intact' PROVE mem'.pages[page_directory'[process[u]]][esp_page'[u]] # 0
      <4>1. CASE u = t
        BY <1>1, <2>6, <3>1, <4>1 DEF d, p
      <4>2. CASE u # t
        <5>1. u \in intact /\ u \in Threads
          BY <2>1, <4>2, DirectoryFacts
        <5> QED BY <1>1, <2>6, <3>2, <4>2, <5>1
      <4> QED BY <4>1, <4>2
    <3> QED BY <3>3, <3>4 DEF IntactSound, OwnStackMapped, paging_translate
  <2>19. Restores
    <3>1. user_stack'[t] # user_stack[t]
      BY <1>1, <2>5, <2>6 DEF Live
    <3> QED BY <3>1 DEF Restores
  <2> QED BY <2>7, <2>10, <2>14, <2>15, <2>17, <2>18, <2>19 DEF SpaceInv
<1> QED BY <1>5, <1>6, <1>8, <1>9

\* destroy.
LEMMA DestroyStep ==
  ASSUME SpaceInv, NEW t \in Threads, destroy(t)
  PROVE  SpaceInv' /\ Restores
<1> DEFINE p == process[t]
           d == page_directory[p]
           ks == kernel_stack[t]
           v == user_stack[t]
           m0 == [mem EXCEPT !.used = @ \ ks]
           m1 == thread_destroy(mem, d, t)
           stacks == usermode_stack_release(user_stacks[p], v)
           last == LiveIn(p) = {t}
<1>1. /\ ~panicked /\ Live(t) /\ user_stack' = [user_stack EXCEPT ![t] = 0]
      /\ kernel_stack' = [kernel_stack EXCEPT ![t] = {}] /\ esp_page' = [esp_page EXCEPT ![t] = 0]
      /\ user_stacks' = [user_stacks EXCEPT ![p] = stacks] /\ panicked' = (last /\ stacks # << >>)
      /\ intact' = intact \ {t} /\ reserved' = reserved /\ execs' = execs
  BY DEF destroy
<1>2. IF last /\ stacks = << >>
      THEN /\ mem' = paging_destroy_directory(m1, d) /\ loaded' = loaded \ {p}
           /\ page_directory' = [page_directory EXCEPT ![p] = 0]
      ELSE mem' = m1 /\ page_directory' = page_directory /\ loaded' = loaded
  BY DEF destroy
<1>3. /\ p \in Processes /\ d # 0 /\ d \in Directories /\ d \in Frames
      /\ Sound(mem, Directories, KernelFrames)
      /\ user_stacks \in [Processes -> Seq(StackPages)] /\ \A q \in Processes : IsInjective(user_stacks[q])
      /\ page_directory \in [Processes -> Frames \union {0}]
  BY <1>1, DirectoryFacts DEF SpaceInv, DirectoriesSound, MemorySound, RestTypes, StacksSound
<1>4. /\ user_stack \in [Threads -> StackPages \union {0}] /\ esp_page \in [Threads -> StackPages \union {0}]
      /\ kernel_stack \in [Threads -> SUBSET Frames] /\ loaded \in SUBSET Processes
  BY DEF SpaceInv, RestTypes
<1>5. v \in StackPages /\ v \in Pages /\ v \in ToSet(user_stacks[p])
  BY <1>1, <1>4, StackPagesFacts DEF SpaceInv, StacksSound, Live
<1>6. stacks \in Seq(StackPages) /\ IsInjective(stacks) /\ ToSet(stacks) = ToSet(user_stacks[p]) \ {v}
  <2> HIDE DEF v, p
  <2> QED BY <1>3, <1>5, Released
<1>7. Sound(m0, Directories, KernelFrames \ ks) /\ m0.tables = mem.tables /\ m0.pages = mem.pages
  <2>1. ks \in SUBSET KernelFrames
    BY DEF KernelFrames
  <2>2. m0 = [mem EXCEPT !.used = @ \ ks]
    OBVIOUS
  <2>3. Sound(mem, Directories, KernelFrames)
    BY <1>3
  <2> HIDE DEF ks, m0, d, p, v
  <2> QED BY <2>1, <2>2, <2>3, StackFreed
<1>8. m1 = unload_page(d, m0, v)
  BY DEF thread_destroy
<1> HIDE DEF m0, m1, stacks, last
<1>9. Sound(m1, Directories, KernelFrames \ ks) /\ Beside(m0, m1, d, {v})
  BY <1>3, <1>5, <1>7, <1>8, UnloadSound
<1> HIDE DEF ks, v, d, p
<1>10. Beside(mem, m1, d, {v})
  BY <1>7, <1>9 DEF Beside
<1>11. /\ user_stack'[t] = 0 /\ esp_page'[t] = 0 /\ kernel_stack'[t] = {}
       /\ \A u \in Threads : u # t => user_stack'[u] = user_stack[u] /\ esp_page'[u] = esp_page[u]
                                      /\ kernel_stack'[u] = kernel_stack[u]
  BY <1>1, <1>4
<1>12. KernelFrames' = KernelFrames \ ks
  <2>1. ks \intersect reserved = {} /\ \A u \in Threads : u # t => ks \intersect kernel_stack[u] = {}
    BY DEF SpaceInv, MemorySound, ks
  <2>2. \A g \in KernelFrames' : g \in KernelFrames /\ g \notin ks
    BY <1>1, <1>11, <2>1 DEF KernelFrames
  <2>3. \A g \in KernelFrames : g \notin ks => g \in KernelFrames'
    BY <1>1, <1>11 DEF KernelFrames, ks
  <2> QED BY <2>2, <2>3
<1>13. user_stacks'[p] = stacks /\ \A q \in Processes : q # p => user_stacks'[q] = user_stacks[q]
  BY <1>1, <1>3
<1>14. Sound(mem', Directories', KernelFrames')
  <2>1. CASE last /\ stacks = << >>
    <3>1. page_directory'[p] = 0 /\ \A q \in Processes : q # p => page_directory'[q] = page_directory[q]
      BY <1>2, <1>3, <2>1
    <3>2. \A q \in Processes : q # p => page_directory[q] # d
      BY <1>3 DEF SpaceInv, DirectoriesSound, d
    <3>3. \A e \in Directories' : e \in Directories \ {d}
      BY <3>1, <3>2 DEF Directories
    <3>4. \A e \in Directories \ {d} : e \in Directories'
      BY <3>1 DEF Directories, d
    <3>5. Directories' = Directories \ {d}
      BY <3>3, <3>4
    <3> QED BY <1>2, <1>3, <1>9, <1>12, <2>1, <3>5, DestroySound
  <2>2. CASE ~(last /\ stacks = << >>)
    BY <1>2, <1>9, <1>12, <2>2 DEF Directories
  <2> QED BY <2>1, <2>2
<1>15. RestTypes'
  <2>1. page_directory' \in [Processes -> Frames \union {0}] /\ loaded' \in SUBSET Processes
    BY <1>2, <1>3, <1>4
  <2>2. user_stacks' \in [Processes -> Seq(StackPages)]
    BY <1>1, <1>3, <1>6
  <2>3. /\ user_stack' \in [Threads -> StackPages \union {0}] /\ esp_page' \in [Threads -> StackPages \union {0}]
        /\ kernel_stack' \in [Threads -> SUBSET Frames]
    BY <1>1, <1>4
  <2>4. panicked' \in BOOLEAN
    BY <1>1
  <2> QED BY <1>1, <2>1, <2>2, <2>3, <2>4 DEF SpaceInv, RestTypes
<1>16. MemorySound'
  <2>1. \A u \in Threads : kernel_stack'[u] \intersect reserved = {}
    BY <1>11 DEF SpaceInv, MemorySound
  <2>2. \A u, w \in Threads : u # w => kernel_stack'[u] \intersect kernel_stack'[w] = {}
    BY <1>11 DEF SpaceInv, MemorySound
  <2> QED BY <1>1, <1>14, <2>1, <2>2 DEF MemorySound
<1>17. ~Live(t)' /\ \A u \in Threads : u # t => Live(u)' = Live(u)
  BY <1>11 DEF Live
<1>18. \A q \in Processes : q # p => LiveIn(q)' = LiveIn(q)
  BY <1>17 DEF LiveIn, p
<1>19. \A u \in Threads : u # t /\ process[u] = p /\ Live(u) => ~last
  BY DEF last, LiveIn
<1>20. \A q \in Processes : q # p => page_directory'[q] = page_directory[q]
  BY <1>2, <1>3
<1>21. ~last => page_directory' = page_directory /\ mem' = m1
  BY <1>2
<1>22. DirectoriesSound'
  <2>1. \A q, r \in Processes : page_directory'[q] = page_directory'[r] /\ page_directory'[q] # 0 => q = r
    BY <1>2, <1>3, <1>20 DEF SpaceInv, DirectoriesSound
  <2>2. ASSUME NEW u \in Threads, Live(u)' PROVE page_directory'[process[u]] # 0
    <3>1. u # t /\ Live(u) /\ process[u] \in Processes /\ page_directory[process[u]] # 0
      BY <1>17, <2>2, DirectoryFacts DEF SpaceInv, DirectoriesSound
    <3> QED BY <1>19, <1>20, <1>21, <3>1
  <2> QED BY <2>1, <2>2 DEF DirectoriesSound
<1>23. StacksSound'
  <2>1. \A u \in Threads : ~Live(u)' => kernel_stack'[u] = {}
    BY <1>11, <1>17 DEF SpaceInv, StacksSound
  <2>2. ASSUME NEW u \in Threads, Live(u)'
        PROVE  {user_stack'[u], esp_page'[u]} \subseteq ToSet(user_stacks'[process[u]])
    <3>1. u # t /\ Live(u) /\ process[u] \in Processes
      BY <1>17, <2>2, DirectoryFacts
    <3>2. user_stack'[u] = user_stack[u] /\ esp_page'[u] = esp_page[u]
      BY <1>11, <3>1
    <3>3. {user_stack[u], esp_page[u]} \subseteq ToSet(user_stacks[process[u]])
      BY <3>1 DEF SpaceInv, StacksSound
    <3>4. process[u] = p => user_stack[u] # v /\ esp_page[u] # v
      BY <1>1, <3>1 DEF SpaceInv, StacksSound, p, v
    <3> QED BY <1>6, <1>13, <3>1, <3>2, <3>3, <3>4
  <2>3. \A u, w \in Threads : u # w /\ process[u] = process[w] /\ Live(u)' /\ Live(w)' =>
          {user_stack'[u], esp_page'[u]} \intersect {user_stack'[w], esp_page'[w]} = {}
    BY <1>11, <1>17 DEF SpaceInv, StacksSound
  <2>4. \A q \in Processes : IsInjective(user_stacks'[q])
    BY <1>3, <1>6, <1>13
  <2> QED BY <2>1, <2>2, <2>3, <2>4 DEF StacksSound
<1>24. ASSUME NEW q \in Processes, q # p, page_directory[q] # 0, NEW w \in Pages
       PROVE  mem'.pages[page_directory'[q]][w] = mem.pages[page_directory[q]][w]
  <2>1. Beside(mem, m1, page_directory[p], {v})
    BY <1>10 DEF d
  <2>2. m1.pages[page_directory[q]][w] = mem.pages[page_directory[q]][w]
    BY <1>3, <1>24, <2>1, OthersKept
  <2>3. page_directory[q] \in Frames \ {d}
    BY <1>3, <1>24 DEF SpaceInv, DirectoriesSound, d
  <2>4. CASE last /\ stacks = << >>
    <3>1. \A e \in Frames \ {d}, z \in Pages : paging_destroy_directory(m1, d).pages[e][z] = m1.pages[e][z]
      <4>1. d \in Directories /\ Sound(m1, Directories, KernelFrames')
        BY <1>3, <1>9, <1>12
      <4>2. Beside(m1, paging_destroy_directory(m1, d), d, Pages)
        BY <4>1, DestroySound
      <4> QED BY <4>2 DEF Beside
    <3> QED BY <1>2, <1>20, <1>24, <2>2, <2>3, <2>4, <3>1
  <2>5. CASE ~(last /\ stacks = << >>)
    BY <1>2, <2>2, <2>5
  <2> QED BY <2>4, <2>5
<1>25. NothingYet'
  <2> SUFFICES ASSUME NEW q \in Processes, page_directory'[q] # 0, q \notin loaded', LiveIn(q)' = {}, ~panicked'
               PROVE  \A w \in Pages : mem'.pages[page_directory'[q]][w] = 0
    BY DEF NothingYet
  <2>1. q # p
    <3> SUFFICES ASSUME q = p PROVE FALSE
      OBVIOUS
    <3>1. CASE last
      <4>1. stacks = << >>
        BY <1>1, <3>1
      <4> QED BY <1>2, <1>3, <3>1, <4>1
    <3>2. CASE ~last
      <4>1. t \in LiveIn(p) /\ LiveIn(p) # {t}
        BY <1>1, <3>2 DEF LiveIn, last, p
      <4>2. PICK u \in LiveIn(p) : u # t
        BY <4>1
      <4>3. u \in LiveIn(p)'
        BY <1>17, <4>2 DEF LiveIn
      <4> QED BY <4>3
    <3> QED BY <3>1, <3>2
  <2>2. q \notin loaded /\ LiveIn(q) = {} /\ page_directory[q] # 0
    BY <1>2, <1>18, <1>20, <2>1
  <2>3. \A w \in Pages : mem.pages[page_directory[q]][w] = 0
    BY <1>1, <2>2 DEF SpaceInv, NothingYet
  <2> QED BY <1>24, <2>1, <2>2, <2>3
<1>26. IntactSound'
  <2>1. \A u \in intact' : Live(u)'
    BY <1>1, <1>17, DirectoryFacts
  <2>2. ASSUME NEW u \in intact' PROVE mem'.pages[page_directory'[process[u]]][esp_page'[u]] # 0
    <3>1. /\ u \in intact /\ u # t /\ u \in Threads /\ Live(u) /\ process[u] \in Processes /\ esp_page[u] \in Pages
          /\ page_directory[process[u]] # 0 /\ esp_page'[u] = esp_page[u]
      BY <1>1, <1>11, DirectoryFacts DEF SpaceInv, DirectoriesSound
    <3>2. mem.pages[page_directory[process[u]]][esp_page[u]] # 0
      BY <3>1 DEF SpaceInv, IntactSound, OwnStackMapped, paging_translate
    <3>3. CASE process[u] # p
      BY <1>24, <3>1, <3>2, <3>3
    <3>4. CASE process[u] = p
      <4>1. mem' = m1 /\ page_directory' = page_directory
        BY <1>19, <1>21, <3>1, <3>4
      <4>2. esp_page[u] # v
        BY <1>1, <3>1, <3>4 DEF SpaceInv, StacksSound, p, v
      <4>3. m1.pages[d][esp_page[u]] = mem.pages[d][esp_page[u]]
        BY <1>3, <1>10, <3>1, <4>2 DEF Beside
      <4> QED BY <3>1, <3>2, <3>4, <4>1, <4>3 DEF d
    <3> QED BY <3>3, <3>4
  <2> QED BY <2>1, <2>2 DEF IntactSound, OwnStackMapped, paging_translate
<1>27. Restores
  <2>1. user_stack'[t] # user_stack[t]
    BY <1>1, <1>11 DEF Live
  <2> QED BY <2>1 DEF Restores
<1> QED BY <1>15, <1>16, <1>22, <1>23, <1>25, <1>26, <1>27 DEF SpaceInv

\* What usermode_stack_create leaves: nothing changed, or a stack page in directory
\* d, mapped and reserved.
StackResult(s, m, d, stacks, D, K) ==
  /\ Sound(s.m, D, K) /\ Beside(m, s.m, d, Pages)
  /\ s.v = 0 => s.stacks = stacks
  /\ s.v # 0 => /\ s.v \in StackPages /\ s.v \in Pages /\ s.v \notin ToSet(stacks) /\ s.m.pages[d][s.v] # 0
                /\ s.stacks = user_stack_reserve(stacks, s.v)

LEMMA StackCreateSound ==
  ASSUME NEW D, NEW K, NEW m, Sound(m, D, K), NEW d \in D, NEW stacks, NEW heap
  PROVE  StackResult(usermode_stack_create(m, d, stacks, heap), m, d, stacks, D, K)
<1> DEFINE v == user_stack_alloc(m, d, stacks)
           f == pmm_alloc_page(m)
           m1 == paging_map(Taken(m, f), d, v, f)
           s == usermode_stack_create(m, d, stacks, heap)
<1>1. Beside(m, m, d, Pages)
  BY DEF Beside
<1>2. CASE v = 0 \/ heap = 0 \/ f = 0
  <2>1. s = [v |-> 0, m |-> m, stacks |-> stacks]
    BY <1>2 DEF usermode_stack_create
  <2> HIDE DEF s, v, f, m1
  <2> QED BY <1>1, <2>1 DEF StackResult, s
<1>3. CASE v # 0 /\ heap # 0 /\ f # 0
  <2>1. v \in StackPages /\ v \in Pages /\ v \notin ToSet(stacks) /\ m.pages[d][v] = 0
    BY <1>3, StackFound
  <2>2. f \in Frames \ m.used
    BY <1>3, AllocFacts DEF Sound
  <2>3. s = IF paging_translate(m1, d, v) # f
            THEN [v |-> 0, m |-> pmm_free_page(paging_unmap(m1, d, v), f), stacks |-> stacks]
            ELSE [v |-> v, m |-> m1, stacks |-> user_stack_reserve(stacks, v)]
    BY <1>3 DEF usermode_stack_create
  <2>4. m1 = paging_map(Taken(m, f), d, v, f)
    OBVIOUS
  <2>5. s = usermode_stack_create(m, d, stacks, heap)
    OBVIOUS
  <2> HIDE DEF s, v, f, m1
  <2>6. /\ pmm_free_page(paging_unmap(m1, d, v), f) = m
        /\ paging_translate(m1, d, v) = f => Sound(m1, D, K) /\ Beside(m, m1, d, {v})
    BY <2>1, <2>2, <2>4, MapSound
  <2>7. CASE paging_translate(m1, d, v) # f
    <3>1. s = [v |-> 0, m |-> m, stacks |-> stacks]
      BY <2>3, <2>6, <2>7
    <3> QED BY <1>1, <2>5, <3>1 DEF StackResult
  <2>8. CASE paging_translate(m1, d, v) = f
    <3>1. s = [v |-> v, m |-> m1, stacks |-> user_stack_reserve(stacks, v)]
      BY <2>3, <2>8
    <3>2. s.v = v /\ s.m = m1 /\ s.stacks = user_stack_reserve(stacks, v)
      BY <3>1
    <3>3. Beside(m, m1, d, Pages)
      BY <2>1, <2>6, <2>8 DEF Beside
    <3>4. m1.pages[d][v] # 0
      BY <1>3, <2>8 DEF paging_translate
    <3> QED BY <1>3, <2>1, <2>5, <2>6, <2>8, <3>2, <3>3, <3>4 DEF StackResult
  <2> QED BY <2>7, <2>8
<1> QED BY <1>2, <1>3

\* Destroying a directory made since gives the memory back as it was before.
LEMMA ExecUndone ==
  ASSUME NEW D, NEW K, NEW m, Sound(m, D, K), NEW f \in Frames \ m.used, NEW n, Sound(n, D \union {f}, K),
         Beside(Taken(m, f), n, f, Pages)
  PROVE  paging_destroy_directory(n, f) = m
<1> DEFINE z == paging_destroy_directory(n, f)
<1>1. f \notin D /\ f \in D \union {f} /\ (D \union {f}) \ {f} = D
  BY CreateSound
<1>2. /\ Sound(z, D, K)
      /\ \A e \in Frames \ {f}, x \in Tables : z.tables[e][x] = n.tables[e][x]
      /\ \A e \in Frames \ {f}, v \in Pages : z.pages[e][v] = n.pages[e][v]
  <2>1. Sound(z, (D \union {f}) \ {f}, K) /\ Beside(n, z, f, Pages)
    BY <1>1, DestroySound
  <2> HIDE DEF z
  <2> QED BY <1>1, <2>1 DEF Beside
<1> HIDE DEF z
<1>3. Taken(m, f).tables = m.tables /\ Taken(m, f).pages = m.pages
  BY TakenFacts DEF Sound
<1>4. \A e \in Frames, x \in Tables : z.tables[e][x] = m.tables[e][x]
  <2> SUFFICES ASSUME NEW e \in Frames, NEW x \in Tables PROVE z.tables[e][x] = m.tables[e][x]
    OBVIOUS
  <2>1. CASE e = f
    BY <1>1, <1>2, <2>1 DEF Sound, Blank
  <2>2. CASE e # f
    BY <1>2, <1>3, <2>2 DEF Beside
  <2> QED BY <2>1, <2>2
<1>5. \A e \in Frames, v \in Pages : z.pages[e][v] = m.pages[e][v]
  <2> SUFFICES ASSUME NEW e \in Frames, NEW v \in Pages PROVE z.pages[e][v] = m.pages[e][v]
    OBVIOUS
  <2>1. CASE e = f
    BY <1>1, <1>2, <2>1 DEF Sound, Blank
  <2>2. CASE e # f
    BY <1>2, <1>3, <2>2 DEF Beside
  <2> QED BY <2>1, <2>2
<1>6. z \in Memory /\ m \in Memory /\ Owned(z, D \union K) /\ Owned(m, D \union K)
  BY <1>2 DEF Sound
<1>7. z = m
  BY <1>4, <1>5, <1>6, SameEntries
<1> QED BY <1>7 DEF z

\* sys_exec builds the new address space beside the old one.
LEMMA ExecBuilt ==
  ASSUME NEW D, NEW K, NEW m, Sound(m, D, K), NEW f \in Frames \ m.used, NEW image \in Images, NEW heap,
         NEW stacks, NEW l, l = elf_load(Taken(m, f), f, image, heap),
         NEW s, s = usermode_stack_create(l.m, f, stacks, l.heap)
  PROVE  /\ Sound(l.m, D \union {f}, K) /\ Beside(Taken(m, f), l.m, f, Pages)
         /\ Beside(Taken(m, f), s.m, f, Pages)
         /\ StackResult(s, l.m, f, stacks, D \union {f}, K)
<1> DEFINE A == Pages
           E == D \union {f}
           n == Taken(m, f)
<1>1. Sound(n, E, K) /\ f \in E /\ \A v \in A : n.pages[f][v] = 0
  BY CreateSound
<1>2. A \in SUBSET Pages /\ image \in Seq(A) /\ IsInjective(image)
  BY StackPagesFacts
<1> HIDE DEF A, E, n
<1>3. LoadResult(elf_load(n, f, image, heap), n, f, A, E, K)
  BY <1>1, <1>2, ElfLoadSound
<1>4. l = elf_load(n, f, image, heap)
  BY DEF n
<1>5. Sound(l.m, E, K) /\ Beside(n, l.m, f, Pages)
  <2>1. CASE l.ok
    BY <1>2, <1>3, <1>4, <2>1 DEF LoadResult, Beside
  <2>2. CASE ~l.ok
    BY <1>1, <1>3, <1>4, <2>2 DEF LoadResult, Beside
  <2> QED BY <2>1, <2>2
<1>6. StackResult(s, l.m, f, stacks, E, K)
  BY <1>1, <1>5, StackCreateSound
<1>7. Beside(n, s.m, f, Pages)
  BY <1>5, <1>6 DEF StackResult, Beside
<1> QED BY <1>5, <1>6, <1>7 DEF E, n

\* sys_exec that fails leaves only a reservation behind.
LEMMA ExecFailed ==
  ASSUME SpaceInv, NEW p \in Processes, ~panicked, execs < MaxExecs, execs' = execs + 1,
         NEW f \in Frames \ mem.used, NEW n, Sound(n, Directories \union {f}, KernelFrames),
         Beside(Taken(mem, f), n, f, Pages), mem' = paging_destroy_directory(n, f),
         user_stacks' = user_stacks \/ \E v \in StackPages :
           v \notin ToSet(user_stacks[p]) /\ user_stacks' = [user_stacks EXCEPT ![p] = user_stack_reserve(@, v)],
         reserved' = reserved, page_directory' = page_directory, loaded' = loaded, user_stack' = user_stack,
         kernel_stack' = kernel_stack, esp_page' = esp_page, intact' = intact, panicked' = panicked
  PROVE  SpaceInv' /\ Restores
<1>1. mem' = mem
  BY ExecUndone DEF SpaceInv, MemorySound
<1>2. execs' \in 0..MaxExecs
  <2>1. execs \in 0..MaxExecs /\ MaxExecs \in Nat
    BY SpaceAssumption DEF SpaceInv, RestTypes
  <2> QED BY <2>1
<1>3. panicked' \in BOOLEAN
  BY DEF SpaceInv, RestTypes
<1>4. /\ user_stacks' \in [Processes -> Seq(StackPages)]
      /\ \A q \in Processes : IsInjective(user_stacks'[q]) /\ ToSet(user_stacks[q]) \subseteq ToSet(user_stacks'[q])
  <2>1. CASE user_stacks' = user_stacks
    BY <2>1 DEF SpaceInv, RestTypes, StacksSound
  <2>2. CASE user_stacks' # user_stacks
    <3>1. PICK v \in StackPages : v \notin ToSet(user_stacks[p])
                                  /\ user_stacks' = [user_stacks EXCEPT ![p] = user_stack_reserve(@, v)]
      BY <2>2
    <3> QED BY <3>1, ReservedMore
  <2> QED BY <2>1, <2>2
<1> QED BY <1>1, <1>2, <1>3, <1>4, QuietStep

\* sys_exec that succeeds: the caller has a new address space and a stack in it.
LEMMA ExecDone ==
  ASSUME SpaceInv, NEW t \in Threads, Live(t), ~panicked, execs < MaxExecs, execs' = execs + 1,
         NEW p, p = process[t], NEW old, old = page_directory[p], NEW f \in Frames \ mem.used, NEW s,
         Sound(s.m, Directories \union {f}, KernelFrames), Beside(Taken(mem, f), s.m, f, Pages),
         s.v \in StackPages, s.v \in Pages, s.v \notin ToSet(user_stacks[p]), s.m.pages[f][s.v] # 0,
         user_stacks' = [user_stacks EXCEPT ![p] = user_stack_reserve(@, s.v)],
         mem' = paging_destroy_directory(s.m, old), page_directory' = [page_directory EXCEPT ![p] = f],
         esp_page' = [esp_page EXCEPT ![t] = s.v], intact' = (intact \ LiveIn(p)) \union {t},
         reserved' = reserved, loaded' = loaded, user_stack' = user_stack, kernel_stack' = kernel_stack,
         panicked' = panicked
  PROVE  SpaceInv' /\ Restores
<1>1. /\ p \in Processes /\ old # 0 /\ old \in Directories /\ old \in Frames
      /\ page_directory \in [Processes -> Frames \union {0}] /\ esp_page \in [Threads -> StackPages \union {0}]
  BY DirectoryFacts DEF SpaceInv, DirectoriesSound, RestTypes
<1>2. f \notin Directories /\ f # 0
  BY CreateSound, Sizes DEF SpaceInv, MemorySound
<1>3. /\ user_stacks' \in [Processes -> Seq(StackPages)] /\ s.v \in ToSet(user_stacks'[p])
      /\ \A q \in Processes : IsInjective(user_stacks'[q]) /\ ToSet(user_stacks[q]) \subseteq ToSet(user_stacks'[q])
  BY <1>1, ReservedMore
<1>4. /\ page_directory'[p] = f /\ \A q \in Processes : q # p => page_directory'[q] = page_directory[q]
      /\ esp_page'[t] = s.v /\ \A u \in Threads : u # t => esp_page'[u] = esp_page[u]
  BY <1>1
<1>5. Directories' = (Directories \union {f}) \ {old}
  <2>1. \A q \in Processes : q # p => page_directory[q] # old
    BY <1>1 DEF SpaceInv, DirectoriesSound
  <2>2. \A e \in Directories' : e \in (Directories \union {f}) \ {old}
    BY <1>1, <1>2, <1>4, <2>1 DEF Directories
  <2>3. \A e \in (Directories \union {f}) \ {old} : e \in Directories'
    BY <1>1, <1>2, <1>4 DEF Directories
  <2> QED BY <2>2, <2>3
<1>6. KernelFrames' = KernelFrames
  BY DEF KernelFrames
<1>7. Sound(mem', Directories', KernelFrames') /\ Beside(s.m, mem', old, Pages)
  <2>1. old \in Directories \union {f}
    BY <1>1
  <2>2. Sound(mem', (Directories \union {f}) \ {old}, KernelFrames)
    BY <2>1, DestroySound
  <2>3. Beside(s.m, mem', old, Pages)
    BY <2>1, DestroySound
  <2> QED BY <1>5, <1>6, <2>2, <2>3
<1>8. MemorySound'
  BY <1>7 DEF SpaceInv, MemorySound
<1>9. RestTypes'
  <2>1. execs \in 0..MaxExecs /\ MaxExecs \in Nat
    BY SpaceAssumption DEF SpaceInv, RestTypes
  <2>2. execs' \in 0..MaxExecs
    BY <2>1
  <2>3. page_directory' \in [Processes -> Frames \union {0}] /\ esp_page' \in [Threads -> StackPages \union {0}]
    BY <1>1
  <2> QED BY <1>3, <2>2, <2>3 DEF SpaceInv, RestTypes
<1>10. (\A u \in Threads : Live(u)' = Live(u)) /\ \A q \in Processes : LiveIn(q)' = LiveIn(q)
  BY DEF Live, LiveIn
<1>11. DirectoriesSound'
  <2>1. \A q \in Processes : page_directory[q] # f
    BY <1>2 DEF Directories
  <2>2. \A q, r \in Processes : page_directory'[q] = page_directory'[r] /\ page_directory'[q] # 0 => q = r
    BY <1>4, <2>1 DEF SpaceInv, DirectoriesSound
  <2>3. \A u \in Threads : Live(u) => page_directory'[process[u]] # 0
    BY <1>2, <1>4, DirectoryFacts DEF SpaceInv, DirectoriesSound
  <2> QED BY <1>10, <2>2, <2>3 DEF DirectoriesSound
<1>12. StacksSound'
  <2>1. ASSUME NEW u \in Threads, Live(u)
        PROVE  {user_stack[u], esp_page'[u]} \subseteq ToSet(user_stacks'[process[u]])
    <3>1. process[u] \in Processes /\ {user_stack[u], esp_page[u]} \subseteq ToSet(user_stacks'[process[u]])
      BY <1>3, <2>1, DirectoryFacts DEF SpaceInv, StacksSound
    <3> QED BY <1>3, <1>4, <3>1
  <2>2. ASSUME NEW u \in Threads, NEW w \in Threads, u # w, process[u] = process[w], Live(u), Live(w)
        PROVE  {user_stack[u], esp_page'[u]} \intersect {user_stack[w], esp_page'[w]} = {}
    <3>1. {user_stack[u], esp_page[u]} \intersect {user_stack[w], esp_page[w]} = {}
      BY <2>2 DEF SpaceInv, StacksSound
    <3>2. \A z \in Threads : process[z] = p /\ Live(z) => user_stack[z] # s.v /\ esp_page[z] # s.v
      BY DEF SpaceInv, StacksSound
    <3> QED BY <1>4, <2>2, <3>1, <3>2
  <2>3. \A u \in Threads : ~Live(u) => kernel_stack[u] = {}
    BY DEF SpaceInv, StacksSound
  <2> QED BY <1>3, <1>10, <2>1, <2>2, <2>3 DEF StacksSound
<1>13. ASSUME NEW q \in Processes, q # p, page_directory[q] # 0, NEW w \in Pages
       PROVE  mem'.pages[page_directory'[q]][w] = mem.pages[page_directory[q]][w]
  <2>1. page_directory[q] \in Frames /\ page_directory[q] # old /\ page_directory[q] # f
    BY <1>1, <1>2, <1>13, DirectoryFacts DEF SpaceInv, DirectoriesSound, Directories
  <2>2. Taken(mem, f).pages = mem.pages
    BY DirectoryFacts, TakenFacts
  <2>3. s.m.pages[page_directory[q]][w] = mem.pages[page_directory[q]][w]
    BY <2>1, <2>2 DEF Beside
  <2>4. mem'.pages[page_directory[q]][w] = s.m.pages[page_directory[q]][w]
    BY <1>7, <2>1 DEF Beside
  <2> QED BY <1>4, <1>13, <2>3, <2>4
<1>14. NothingYet'
  <2> SUFFICES ASSUME NEW q \in Processes, page_directory'[q] # 0, q \notin loaded', LiveIn(q)' = {}, ~panicked'
               PROVE  \A w \in Pages : mem'.pages[page_directory'[q]][w] = 0
    BY DEF NothingYet
  <2>1. t \in LiveIn(p)
    BY DEF LiveIn
  <2>2. q # p /\ q \notin loaded /\ LiveIn(q) = {} /\ page_directory[q] # 0
    BY <1>1, <1>4, <1>10, <2>1
  <2>3. \A w \in Pages : mem.pages[page_directory[q]][w] = 0
    BY <2>2 DEF SpaceInv, NothingYet
  <2> QED BY <1>13, <2>2, <2>3
<1>15. IntactSound'
  <2>1. mem'.pages[f][s.v] # 0
    <3>1. f # old
      BY <1>1, <1>2
    <3> QED BY <1>7, <3>1 DEF Beside
  <2>2. ASSUME NEW u \in intact' PROVE Live(u)' /\ mem'.pages[page_directory'[process[u]]][esp_page'[u]] # 0
    <3>1. CASE u = t
      BY <1>4, <1>10, <2>1, <3>1
    <3>2. CASE u # t
      <4>1. /\ u \in intact /\ u \notin LiveIn(p) /\ u \in Threads /\ Live(u) /\ process[u] \in Processes
            /\ esp_page[u] \in Pages /\ page_directory[process[u]] # 0
        BY <2>2, <3>2, DirectoryFacts DEF SpaceInv, DirectoriesSound
      <4>2. process[u] # p
        BY <4>1 DEF LiveIn
      <4>3. mem.pages[page_directory[process[u]]][esp_page[u]] # 0
        BY <4>1 DEF SpaceInv, IntactSound, OwnStackMapped, paging_translate
      <4> QED BY <1>4, <1>10, <1>13, <3>2, <4>1, <4>2, <4>3
    <3> QED BY <3>1, <3>2
  <2> QED BY <2>2 DEF IntactSound, OwnStackMapped, paging_translate
<1>16. Restores
  <2>1. page_directory'[p] # page_directory[p]
    BY <1>1, <1>2, <1>4
  <2> QED BY <2>1 DEF Restores
<1> QED BY <1>8, <1>9, <1>11, <1>12, <1>14, <1>15, <1>16 DEF SpaceInv

\* sys_exec.
LEMMA ExecStep ==
  ASSUME SpaceInv, NEW t \in Threads, NEW image \in Images, NEW heap, NEW fits \in BOOLEAN,
         sys_exec(t, image, heap, fits)
  PROVE  SpaceInv' /\ Restores
<1> DEFINE p == process[t]
           old == page_directory[p]
           f == pmm_alloc_page(mem)
           l == elf_load(Taken(mem, f), f, image, heap)
           s == usermode_stack_create(l.m, f, user_stacks[p], l.heap)
           done == l.ok /\ s.v # 0 /\ fits
<1>1. /\ ~panicked /\ Live(t) /\ execs < MaxExecs /\ f # 0 /\ execs' = execs + 1
      /\ user_stacks' = [user_stacks EXCEPT ![p] = IF l.ok THEN s.stacks ELSE @]
      /\ reserved' = reserved /\ loaded' = loaded /\ user_stack' = user_stack /\ kernel_stack' = kernel_stack
      /\ panicked' = panicked
  BY DEF sys_exec
<1>2. f \in Frames \ mem.used /\ p \in Processes
  BY <1>1, AllocFacts, DirectoryFacts
<1>3. /\ Sound(l.m, Directories \union {f}, KernelFrames) /\ Beside(Taken(mem, f), l.m, f, Pages)
      /\ Beside(Taken(mem, f), s.m, f, Pages)
      /\ StackResult(s, l.m, f, user_stacks[p], Directories \union {f}, KernelFrames)
  <2>1. Sound(mem, Directories, KernelFrames)
    BY DEF SpaceInv, MemorySound
  <2>2. l = elf_load(Taken(mem, f), f, image, heap) /\ s = usermode_stack_create(l.m, f, user_stacks[p], l.heap)
    OBVIOUS
  <2> HIDE DEF l, s, f, p
  <2> QED BY <1>2, <2>1, <2>2, ExecBuilt
<1>4. done => /\ mem' = paging_destroy_directory(s.m, old) /\ page_directory' = [page_directory EXCEPT ![p] = f]
              /\ esp_page' = [esp_page EXCEPT ![t] = s.v] /\ intact' = (intact \ LiveIn(p)) \union {t}
  BY DEF sys_exec
<1>5. ~done => /\ mem' = paging_destroy_directory(IF l.ok THEN s.m ELSE l.m, f)
               /\ page_directory' = page_directory /\ esp_page' = esp_page /\ intact' = intact
  BY DEF sys_exec
<1>6. p = process[t] /\ old = page_directory[p]
  OBVIOUS
<1>7. done <=> l.ok /\ s.v # 0 /\ fits
  OBVIOUS
<1>8. user_stacks \in [Processes -> Seq(StackPages)]
  BY DEF SpaceInv, RestTypes
<1> HIDE DEF p, old, f, l, s, done
<1>9. Sound(s.m, Directories \union {f}, KernelFrames)
  BY <1>3 DEF StackResult
<1>10. user_stacks' = user_stacks \/ (l.ok /\ s.v # 0)
  BY <1>1, <1>3, <1>8 DEF StackResult
<1>11. l.ok /\ s.v # 0 =>
         /\ s.v \in StackPages /\ s.v \in Pages /\ s.v \notin ToSet(user_stacks[p]) /\ s.m.pages[f][s.v] # 0
         /\ user_stacks' = [user_stacks EXCEPT ![p] = user_stack_reserve(@, s.v)]
  <2> SUFFICES ASSUME l.ok, s.v # 0
               PROVE  /\ s.v \in StackPages /\ s.v \in Pages /\ s.v \notin ToSet(user_stacks[p])
                      /\ s.m.pages[f][s.v] # 0
                      /\ user_stacks' = [user_stacks EXCEPT ![p] = user_stack_reserve(@, s.v)]
    OBVIOUS
  <2>1. /\ s.v \in StackPages /\ s.v \in Pages /\ s.v \notin ToSet(user_stacks[p]) /\ s.m.pages[f][s.v] # 0
        /\ s.stacks = user_stack_reserve(user_stacks[p], s.v)
    BY <1>3 DEF StackResult
  <2>2. user_stacks' = [user_stacks EXCEPT ![p] = s.stacks]
    BY <1>1
  <2> QED BY <2>1, <2>2
<1>12. CASE done
  BY <1>1, <1>2, <1>3, <1>4, <1>6, <1>7, <1>9, <1>11, <1>12, ExecDone
<1>13. CASE ~done
  <2>1. user_stacks' = user_stacks \/ \E v \in StackPages :
          v \notin ToSet(user_stacks[p]) /\ user_stacks' = [user_stacks EXCEPT ![p] = user_stack_reserve(@, v)]
    BY <1>10, <1>11
  <2>2. PICK n : /\ Sound(n, Directories \union {f}, KernelFrames) /\ Beside(Taken(mem, f), n, f, Pages)
                 /\ mem' = paging_destroy_directory(n, f)
    BY <1>3, <1>5, <1>9, <1>13
  <2> QED BY <1>1, <1>2, <1>5, <1>13, <2>1, <2>2, ExecFailed
<1> QED BY <1>12, <1>13

\* Every step.
LEMMA SpaceInvNext == SpaceInv /\ [SpaceNext]_vars => SpaceInv' /\ Restores
<1> SUFFICES ASSUME SpaceInv, [SpaceNext]_vars PROVE SpaceInv' /\ Restores
  OBVIOUS
<1>1. ASSUME NEW p \in Processes, process_create(p) PROVE SpaceInv' /\ Restores
  BY <1>1, CreateStep
<1>2. ASSUME NEW p \in Processes, NEW image \in Images, NEW heap \in 0..MaxImage, load(p, image, heap)
      PROVE  SpaceInv' /\ Restores
  BY <1>2, LoadStep
<1>3. ASSUME NEW t \in Threads, NEW heap \in 2..3,
             usermode_thread_create(t, heap) \/ usermode_elf_thread_create(t, heap)
      PROVE  SpaceInv' /\ Restores
  BY <1>3, ThreadCreateStep DEF usermode_thread_create, usermode_elf_thread_create
<1>4. ASSUME NEW t \in Threads, destroy(t) PROVE SpaceInv' /\ Restores
  BY <1>4, DestroyStep
<1>5. ASSUME NEW t \in Threads, NEW image \in Images, NEW heap \in 0..(MaxImage + 1), NEW fits \in BOOLEAN,
             sys_exec(t, image, heap, fits)
      PROVE  SpaceInv' /\ Restores
  BY <1>5, ExecStep
<1>6. CASE UNCHANGED vars
  BY <1>6, SpaceStutter
<1> QED BY <1>1, <1>2, <1>3, <1>4, <1>5, <1>6 DEF SpaceNext

----------------------------------------------------------------------------
(* The theorems.                                                           *)

\* The invariant holds in every reachable state, however many frames, pages,
\* processes and threads there are.
THEOREM SpaceInvariance == SpaceSpec => []SpaceInv
<1>1. SpaceInv /\ [SpaceNext]_vars => SpaceInv'
  BY SpaceInvNext
<1> QED BY <1>1, SpaceInvInit, PTL DEF SpaceSpec

\* Every field of the processes and threads keeps its type; user stacks lie in
\* the user stack region.
THEOREM SpaceTypeCorrect == SpaceSpec => []SpaceTypeOK
<1>1. SpaceInv => SpaceTypeOK
  BY DirectoryFacts DEF SpaceInv, RestTypes, SpaceTypeOK
<1> QED BY <1>1, SpaceInvariance, PTL

\* What holds a frame, and the frame it holds.
LEMMA HolderIs ==
  ASSUME NEW h \in Holders
  PROVE  \/ \E d \in Directories : h = << "dir", d, 0 >> /\ Held(h) = d
         \/ \E d \in Directories, x \in Tables : h = << "table", d, x >> /\ Held(h) = mem.tables[d][x]
         \/ \E d \in Directories, v \in Pages : h = << "page", d, v >> /\ Held(h) = mem.pages[d][v]
<1>1. CASE \E d \in Directories : h = << "dir", d, 0 >>
  BY <1>1 DEF Held
<1>2. CASE \E d \in Directories, x \in Tables : h = << "table", d, x >>
  BY <1>2 DEF Held
<1>3. CASE \E d \in Directories, v \in Pages : h = << "page", d, v >>
  BY <1>3 DEF Held
<1> QED BY <1>1, <1>2, <1>3 DEF Holders

\* Everything that holds a frame is a holder.
LEMMA HolderOf ==
  ASSUME NEW d \in Directories
  PROVE  /\ \E h \in Holders : Held(h) = d
         /\ \A x \in Tables : \E h \in Holders : Held(h) = mem.tables[d][x]
         /\ \A v \in Pages : \E h \in Holders : Held(h) = mem.pages[d][v]
<1>1. << "dir", d, 0 >> \in Holders /\ Held(<< "dir", d, 0 >>) = d
  BY DEF Holders, Held
<1>2. ASSUME NEW x \in Tables
      PROVE  << "table", d, x >> \in Holders /\ Held(<< "table", d, x >>) = mem.tables[d][x]
  BY DEF Holders, Held
<1>3. ASSUME NEW v \in Pages
      PROVE  << "page", d, v >> \in Holders /\ Held(<< "page", d, v >>) = mem.pages[d][v]
  BY DEF Holders, Held
<1> QED BY <1>1, <1>2, <1>3

\* There are as many directories as processes that have one.
LEMMA DirectoriesCounted ==
  ASSUME SpaceInv
  PROVE  Cardinality(Directories) = Cardinality({p \in Processes : page_directory[p] # 0})
<1> DEFINE P == {p \in Processes : page_directory[p] # 0}
           owner == [d \in Directories |-> CHOOSE p \in Processes : page_directory[p] = d]
<1>1. IsFiniteSet(Directories)
  BY DirectoryFacts, Sizes, FS_Subset
<1>2. \A d \in Directories : d # 0 /\ \E p \in Processes : page_directory[p] = d
  BY DEF Directories
<1>3. \A d \in Directories : owner[d] \in Processes /\ page_directory[owner[d]] = d /\ owner[d] \in P
  BY <1>2
<1>4. \A p \in P : page_directory[p] \in Directories
  BY DirectoryFacts
<1>5. owner \in [Directories -> P]
  BY <1>3
<1> HIDE DEF owner
<1>6. \A d, e \in Directories : owner[d] = owner[e] => d = e
  BY <1>3
<1>7. \A p \in P : \E d \in Directories : owner[d] = p
  <2> SUFFICES ASSUME NEW p \in P PROVE owner[page_directory[p]] = p
    BY <1>4
  <2>1. /\ page_directory[owner[page_directory[p]]] = page_directory[p]
        /\ owner[page_directory[p]] \in Processes /\ page_directory[p] # 0
    BY <1>3, <1>4
  <2> QED BY <2>1 DEF SpaceInv, DirectoriesSound
<1>8. ExistsBijection(Directories, P)
  <2>1. owner \in Bijection(Directories, P)
    BY <1>5, <1>6, <1>7 DEF Bijection, Injection, Surjection, IsInjective
  <2> QED BY <2>1 DEF ExistsBijection
<1> QED BY <1>1, <1>8, FS_Bijection

\* Every frame in use has exactly one owner.
LEMMA FramesOwned == SpaceInv => FramesAccounted
<1> SUFFICES ASSUME SpaceInv PROVE FramesAccounted
  OBVIOUS
<1> DEFINE D == Directories
           K == KernelFrames
           B == D \union K
<1>1. /\ mem \in Memory /\ D \subseteq Frames /\ K \subseteq Frames /\ D \intersect K = {}
      /\ Owned(mem, B) /\ Blank(mem, D)
  BY DEF SpaceInv, MemorySound, Sound
<1>2. 0 \notin Frames
  BY Sizes
<1>3. \A g : g \in K <=> g \in reserved \/ \E t \in Threads : g \in kernel_stack[t]
  BY DEF KernelFrames
<1> HIDE DEF D, K, B
<1>4. \A h \in Holders : Held(h) # 0 => Held(h) \in mem.used /\ Held(h) \notin K
  <2> SUFFICES ASSUME NEW h \in Holders, Held(h) # 0 PROVE Held(h) \in mem.used /\ Held(h) \notin K
    OBVIOUS
  <2>1. CASE \E d \in Directories : h = << "dir", d, 0 >> /\ Held(h) = d
    BY <1>1, <2>1 DEF Owned, B, D
  <2>2. CASE \E d \in Directories, x \in Tables : h = << "table", d, x >> /\ Held(h) = mem.tables[d][x]
    BY <1>1, <2>2 DEF Owned, B, D
  <2>3. CASE \E d \in Directories, v \in Pages : h = << "page", d, v >> /\ Held(h) = mem.pages[d][v]
    BY <1>1, <2>3 DEF Owned, B, D
  <2> QED BY <2>1, <2>2, <2>3, HolderIs
<1>5. mem.used = reserved \union ({Held(h) : h \in Holders} \ {0}) \union UNION {kernel_stack[t] : t \in Threads}
  <2> DEFINE R == reserved \union ({Held(h) : h \in Holders} \ {0}) \union UNION {kernel_stack[t] : t \in Threads}
  <2>1. \A g \in R : g \in mem.used
    <3> SUFFICES ASSUME NEW g \in R PROVE g \in mem.used
      OBVIOUS
    <3>1. CASE g \in K
      BY <1>1, <3>1 DEF Owned, B
    <3>2. CASE g \notin K
      <4>1. PICK h \in Holders : g = Held(h) /\ g # 0
        BY <1>3, <3>2
      <4> QED BY <1>4, <4>1
    <3> QED BY <3>1, <3>2
  <2>2. ASSUME NEW g \in mem.used PROVE g \in R
    <3>1. g \in Frames /\ g # 0
      BY <1>1, <1>2, MemoryParts
    <3>2. CASE g \in K
      BY <1>3, <3>2
    <3>3. CASE g \in D
      <4>1. \E h \in Holders : Held(h) = g
        BY <3>3, HolderOf DEF D
      <4> QED BY <3>1, <4>1
    <3>4. CASE g \notin B
      <4>1. \/ \E d \in Frames, x \in Tables : mem.tables[d][x] = g
            \/ \E d \in Frames, v \in Pages : mem.pages[d][v] = g
        BY <1>1, <3>4 DEF Owned
      <4>2. \/ \E d \in D, x \in Tables : mem.tables[d][x] = g
            \/ \E d \in D, v \in Pages : mem.pages[d][v] = g
        BY <1>1, <3>1, <4>1 DEF Blank
      <4>3. \E h \in Holders : Held(h) = g
        BY <4>2, HolderOf DEF D
      <4> QED BY <3>1, <4>3
    <3> QED BY <3>2, <3>3, <3>4 DEF B
  <2> QED BY <2>1, <2>2
<1>6. ASSUME NEW h \in Holders, NEW g \in Holders, Held(h) = Held(g), Held(h) # 0 PROVE h = g
  <2> DEFINE Dir(k) == \E d \in D : k = << "dir", d, 0 >> /\ Held(k) = d
             Tab(k) == \E d \in D, x \in Tables : k = << "table", d, x >> /\ Held(k) = mem.tables[d][x]
             Pag(k) == \E d \in D, v \in Pages : k = << "page", d, v >> /\ Held(k) = mem.pages[d][v]
  <2>1. (Dir(h) \/ Tab(h) \/ Pag(h)) /\ (Dir(g) \/ Tab(g) \/ Pag(g))
    BY HolderIs DEF D
  <2>2. \A d \in D : d \in Frames /\ d \in B
    BY <1>1 DEF B
  <2>3. CASE Dir(h) /\ Dir(g)
    BY <1>6, <2>3
  <2>4. CASE Tab(h) /\ Tab(g)
    BY <1>1, <1>6, <2>2, <2>4 DEF Owned
  <2>5. CASE Pag(h) /\ Pag(g)
    BY <1>1, <1>6, <2>2, <2>5 DEF Owned
  <2>6. CASE Dir(h) /\ (Tab(g) \/ Pag(g))
    BY <1>1, <1>6, <2>2, <2>6 DEF Owned
  <2>7. CASE Dir(g) /\ (Tab(h) \/ Pag(h))
    BY <1>1, <1>6, <2>2, <2>7 DEF Owned
  <2>8. CASE (Tab(h) /\ Pag(g)) \/ (Tab(g) /\ Pag(h))
    BY <1>1, <1>6, <2>2, <2>8 DEF Owned
  <2> QED BY <2>1, <2>3, <2>4, <2>5, <2>6, <2>7, <2>8
<1>7. \A h \in Holders : Held(h) \notin reserved /\ \A t \in Threads : Held(h) \notin kernel_stack[t]
  <2>1. \A h \in Holders : Held(h) \notin K
    BY <1>1, <1>2, <1>4
  <2> QED BY <1>3, <2>1
<1>8. \A t, u \in Threads : t # u => kernel_stack[t] \intersect kernel_stack[u] = {}
  BY DEF SpaceInv, MemorySound
<1> QED BY <1>5, <1>6, <1>7, <1>8, DirectoriesCounted DEF FramesAccounted

\* Nothing is leaked, freed while it is mapped, or mapped twice, whichever
\* allocation failed and whatever rollback ran (paging.c, elf_loader.c, usermode.c,
\* syscall.c).
THEOREM FramesAccountedCorrect == SpaceSpec => []FramesAccounted
  BY FramesOwned, SpaceInvariance, PTL

\* No stack page is given out twice, and usermode_stack_release finds what it is
\* asked to release.
THEOREM StacksDistinctCorrect == SpaceSpec => []StacksDistinct
<1>1. SpaceInv => StacksDistinct
  BY DEF SpaceInv, StacksSound, StacksDistinct
<1> QED BY <1>1, SpaceInvariance, PTL

\* A user thread's stack stays mapped as long as no other thread of its process
\* calls exec, and exec leaves its caller a stack.
THEOREM OwnStackMappedCorrect == SpaceSpec => []OwnStackMapped
<1>1. SpaceInv => OwnStackMapped
  BY DEF SpaceInv, IntactSound
<1> QED BY <1>1, SpaceInvariance, PTL

\* elf_load, usermode_thread_create and exec give back every frame, page table and
\* mapping they took when they fail.
THEOREM FailureRestoresCorrect == SpaceSpec => FailureRestoresMemory
<1> DEFINE Kept == page_directory' = page_directory /\ user_stack' = user_stack /\ loaded' = loaded /\ ~panicked'
                     => mem' = mem
<1>1. SpaceInv /\ [SpaceNext]_vars => [Kept]_vars
  BY SpaceInvNext DEF Restores
<1> QED BY <1>1, SpaceInvariance, PTL DEF SpaceSpec, FailureRestoresMemory
============================================================================
