------------------------------ MODULE Paging -------------------------------
(***************************************************************************)
(* Physical frames (kernel/mm/pmm.c) and the user half of the address      *)
(* spaces built from them (kernel/mm/paging.c), as operators on a memory    *)
(* m = [used, tables, pages]:                                              *)
(*   used          the frames marked in the bitmap;                         *)
(*   tables[d][x]  the frame of page table x of the directory in frame d,   *)
(*                 0 when the PDE is not present;                           *)
(*   pages[d][v]   the frame page v is mapped to through that directory, 0   *)
(*                 when the PTE is not present.                             *)
(* A page v belongs to table v \div TableEntries.  Frame 0 is never given    *)
(* out (pmm_init reserves the first megabyte), so 0 stands for NULL as in    *)
(* the code.                                                               *)
(***************************************************************************)
EXTENDS Integers, FiniteSets, FiniteSetsExt

CONSTANTS
  NumFrames,      \* total_pages - 1
  NumPages,       \* the pages of the user half
  TableEntries    \* 1024 in the hardware

ASSUME PagingAssumption == NumFrames \in Nat /\ NumPages \in Nat \ {0} /\ TableEntries \in Nat \ {0}

Frames == 1..NumFrames
Pages == 0..(NumPages - 1)
Table(v) == v \div TableEntries
Tables == {Table(v) : v \in Pages}

Memory == [used   : SUBSET Frames,
           tables : [Frames -> [Tables -> Frames \union {0}]],
           pages  : [Frames -> [Pages -> Frames \union {0}]]]

\* A memory of which only the frames rs are taken, by the kernel itself.
FreshMemory(rs) == [used   |-> rs,
                    tables |-> [d \in Frames |-> [x \in Tables |-> 0]],
                    pages  |-> [d \in Frames |-> [v \in Pages |-> 0]]]

\* pmm_alloc_page: the first free frame, 0 when there is none.
pmm_alloc_page(m) == IF Frames \subseteq m.used THEN 0 ELSE Min(Frames \ m.used)

\* The memory once that frame is marked.
Taken(m, f) == [m EXCEPT !.used = @ \union {f}]

\* pmm_free_page: freeing a free frame or frame 0 has no effect.
pmm_free_page(m, f) == [m EXCEPT !.used = @ \ {f}]

paging_translate(m, d, v) == m.pages[d][v]

\* paging_map: a missing page table is allocated; when that fails nothing is
\* mapped and nobody is told.
paging_map(m, d, v, f) ==
  LET x == Table(v)
      tf == pmm_alloc_page(m)
      mapped == [m EXCEPT !.pages[d][v] = f] IN
  IF m.tables[d][x] # 0 THEN mapped
  ELSE IF tf = 0 THEN m
  ELSE [Taken(mapped, tf) EXCEPT !.tables[d][x] = tf]

\* Mutant: an empty page table is kept.
paging_unmap_keep(m, d, v) == [m EXCEPT !.pages[d][v] = 0]

\* Mutant: the page table is freed without a look at its other entries.
paging_unmap_eager(m, d, v) ==
  LET x == Table(v) IN
  [used   |-> m.used \ {m.tables[d][x]},
   tables |-> [m.tables EXCEPT ![d][x] = 0],
   pages  |-> [m.pages EXCEPT ![d] = [w \in Pages |-> IF Table(w) = x THEN 0 ELSE @[w]]]]

\* paging_unmap: a page table left without entries is freed.
paging_unmap(m, d, v) ==
  LET x == Table(v)
      cleared == [m EXCEPT !.pages[d][v] = 0] IN
  IF m.tables[d][x] = 0 THEN m
  ELSE IF \E w \in Pages : Table(w) = x /\ cleared.pages[d][w] # 0 THEN cleared
  ELSE [pmm_free_page(cleared, m.tables[d][x]) EXCEPT !.tables[d][x] = 0]

\* Everything that hangs off a directory: itself, its tables, its pages.
SpaceFrames(m, d) ==
  {d} \union {m.tables[d][x] : x \in Tables} \union {m.pages[d][v] : v \in Pages}

paging_destroy_directory(m, d) ==
  [used   |-> m.used \ SpaceFrames(m, d),
   tables |-> [m.tables EXCEPT ![d] = [x \in Tables |-> 0]],
   pages  |-> [m.pages EXCEPT ![d] = [v \in Pages |-> 0]]]

============================================================================
