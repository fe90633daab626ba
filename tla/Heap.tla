-------------------------------- MODULE Heap -------------------------------
(***************************************************************************)
(* The kernel heap of kernel/mm/heap.c: a first-fit list of blocks, each a   *)
(* header followed by its data, that covers the heap from HEAP_START to      *)
(* heap_end without gaps.                                                  *)
(*                                                                         *)
(* kmalloc is several steps: the search of the list, the expansion by one     *)
(* page when the search has failed, the split of the block found and the      *)
(* assignment that takes it.  kmalloc and kfree do not disable interrupts;    *)
(* whether their caller has done so is the constant Preemptible.  Each search, *)
(* merge and split is one step even then: Preemptible adds the preemptions     *)
(* between them only, which is enough to refute what the runs refute.          *)
(***************************************************************************)
EXTENDS Integers, FiniteSets, FiniteSetsExt

CONSTANTS
  Callers,        \* the threads that call
  HEADER,         \* sizeof(struct heap_block)
  ALIGNMENT,      \* HEAP_ALIGNMENT
  PAGE,           \* PAGE_SIZE
  MaxPages,       \* the pages vmm_alloc_pages can still back the heap with
  UINT_MAX,       \* UINT32_MAX
  Requests,       \* the sizes kmalloc is called with
  Preemptible     \* TRUE when the callers leave interrupts on

HEAP_START == 0
Addresses == {a \in HEAP_START..(MaxPages * PAGE) : a % ALIGNMENT = 0}

ASSUME HeapAssumption ==
  /\ ALIGNMENT \in Nat \ {0} /\ HEADER \in Nat /\ PAGE \in Nat /\ MaxPages \in Nat \ {0}
  /\ HEADER % ALIGNMENT = 0 /\ PAGE % ALIGNMENT = 0 /\ HEADER < PAGE
  /\ Requests \subseteq 0..UINT_MAX
  /\ Preemptible \in BOOLEAN

VARIABLES
  blocks,     \* the addresses of the headers in the list
  size,       \* block->size, for every address a header has been written to
  free,       \* block->free
  heap_end,
  heap_pc,    \* where in kmalloc a thread is: "run" when outside
  request,    \* the size a thread is in kmalloc for
  block,      \* kmalloc's local variable
  live        \* the allocations handed out: [at, len] of the data

heapVars == << blocks, size, free, heap_end >>
allHeapVars == << blocks, size, free, heap_end, heap_pc, request, block, live >>

\* Where block a ends: its next, or the end of the heap.
End(a) == a + HEADER + size[a]

\* heap_init: one page, one free block.
HeapInit ==
  /\ blocks = {HEAP_START}
  /\ heap_end = HEAP_START + PAGE
  /\ size = [a \in Addresses |-> IF a = HEAP_START THEN PAGE - HEADER ELSE 0]
  /\ free = [a \in Addresses |-> a = HEAP_START]
  /\ heap_pc = [t \in Callers |-> "run"]
  /\ request = [t \in Callers |-> 0]
  /\ block = [t \in Callers |-> HEAP_START]
  /\ live = {}

\* The thread may take its next step: the others are outside, or it can preempt
\* them inside.
MayStep(t) == Preemptible \/ \A u \in Callers \ {t} : heap_pc[u] = "run"

----------------------------------------------------------------------------

\* Mutant: rounds down.
heap_align_down(n) == IF n > UINT_MAX - (ALIGNMENT - 1) THEN 0 ELSE (n \div ALIGNMENT) * ALIGNMENT

\* heap_align: 0 when the rounded size would not fit in 32 bits.
heap_align(n) == IF n > UINT_MAX - (ALIGNMENT - 1) THEN 0
                 ELSE ((n + ALIGNMENT - 1) \div ALIGNMENT) * ALIGNMENT

\* heap_find_free is first fit; the set of blocks that fit.
Fitting(n) == {a \in blocks : free[a] /\ size[a] >= n}

\* heap_merge on the list bs with sizes sz and flags fr: of every run of free
\* blocks the first one stays, and takes in the headers and the data of the
\* others.  An absorbed header keeps its contents only while a caller still
\* points at it.
heap_merge(bs, sz, fr, end) ==
  LET prev(a) == Max({p \in bs : p < a})
      kept == {a \in bs : a = Min(bs) \/ ~fr[a] \/ ~fr[prev(a)]}
      run(a) == {b \in bs : a < b /\ ~\E c \in kept : a < c /\ c <= b}
      held == {block[t] : t \in {u \in Callers : heap_pc[u] \in {"split", "take"}}} IN
  /\ blocks' = kept
  /\ size' = [a \in Addresses |-> IF a \in kept THEN sz[a] + MapThenSumSet(LAMBDA b : HEADER + sz[b], run(a))
                                 ELSE IF a \in held THEN sz[a] ELSE 0]
  /\ free' = [a \in Addresses |-> a \in kept \union held /\ fr[a]]
  /\ heap_end' = end

\* kmalloc: a request of 0, or one that overflows, returns NULL at once.
kmalloc(t, n) ==
  /\ MayStep(t) /\ heap_pc[t] = "run"
  /\ n # 0 /\ heap_align(n) # 0
  /\ request' = [request EXCEPT ![t] = n]
  /\ heap_pc' = [heap_pc EXCEPT ![t] = "find"]
  /\ UNCHANGED << heapVars, block, live >>

\* heap_find_free succeeds.
kmalloc_find(t) ==
  /\ MayStep(t) /\ heap_pc[t] = "find" /\ Fitting(heap_align(request[t])) # {}
  /\ block' = [block EXCEPT ![t] = Min(Fitting(heap_align(request[t])))]
  /\ heap_pc' = [heap_pc EXCEPT ![t] = "split"]
  /\ UNCHANGED << heapVars, request, live >>

\* Mutant: the new block is appended with the size of a whole page.
heap_expand_oversized(t) ==
  /\ MayStep(t) /\ heap_pc[t] = "find" /\ Fitting(heap_align(request[t])) = {}
  /\ heap_end < MaxPages * PAGE
  /\ heap_merge(blocks \union {heap_end}, [size EXCEPT ![heap_end] = PAGE],
                [free EXCEPT ![heap_end] = TRUE], heap_end + PAGE)
  /\ UNCHANGED << heap_pc, request, block, live >>

\* It fails and heap_expand adds a page, as one more free block, merged.
heap_expand(t) ==
  /\ MayStep(t) /\ heap_pc[t] = "find" /\ Fitting(heap_align(request[t])) = {}
  /\ heap_end < MaxPages * PAGE
  /\ heap_merge(blocks \union {heap_end}, [size EXCEPT ![heap_end] = PAGE - HEADER],
                [free EXCEPT ![heap_end] = TRUE], heap_end + PAGE)
  /\ UNCHANGED << heap_pc, request, block, live >>

\* It fails and so does heap_expand, because vmm_alloc_pages finds no frame:
\* kmalloc returns NULL.  Other users of memory can take the last frame first.
kmalloc_fail(t) ==
  /\ MayStep(t) /\ heap_pc[t] = "find" /\ Fitting(heap_align(request[t])) = {}
  /\ heap_pc' = [heap_pc EXCEPT ![t] = "run"]
  /\ request' = [request EXCEPT ![t] = 0]
  /\ UNCHANGED << heapVars, block, live >>

\* heap_split_block leaves a remainder too small for a header and data alone.
split_off(b, n) == size[b] - n > HEADER

\* heap_split_block.  Its ASSERTs halt the kernel when the block found is no
\* longer free or large enough.
heap_split_block(t) ==
  LET b == block[t]
      n == heap_align(request[t])
      rest == b + HEADER + n IN
  /\ MayStep(t) /\ heap_pc[t] = "split"
  /\ free[b] /\ n <= size[b]
  /\ IF split_off(b, n)
     THEN /\ blocks' = IF b \in blocks THEN blocks \union {rest} ELSE blocks
          /\ size' = [size EXCEPT ![rest] = size[b] - n - HEADER, ![b] = n]
          /\ free' = [free EXCEPT ![rest] = TRUE]
     ELSE UNCHANGED << blocks, size, free >>
  /\ heap_pc' = [heap_pc EXCEPT ![t] = "take"]
  /\ UNCHANGED << heap_end, request, block, live >>

\* The rest of kmalloc: the block is taken and its data returned.
kmalloc_take(t) ==
  /\ MayStep(t) /\ heap_pc[t] = "take"
  /\ free' = [free EXCEPT ![block[t]] = FALSE]
  /\ live' = live \union {[at |-> block[t] + HEADER, len |-> request[t]]}
  /\ heap_pc' = [heap_pc EXCEPT ![t] = "run"]
  /\ request' = [request EXCEPT ![t] = 0]
  /\ block' = [block EXCEPT ![t] = HEAP_START]
  /\ UNCHANGED << blocks, size, heap_end >>

\* Mutant: the freed block is not merged with its neighbours.
kfree_unmerged(t, x) ==
  /\ MayStep(t) /\ heap_pc[t] = "run" /\ x \in live
  /\ free' = [free EXCEPT ![x.at - HEADER] = TRUE]
  /\ live' = live \ {x}
  /\ UNCHANGED << blocks, size, heap_end, heap_pc, request, block >>

\* kfree of an allocation that has not been freed yet.  Its ASSERTs halt the
\* kernel when there is no such block in use.
kfree(t, x) ==
  /\ MayStep(t) /\ heap_pc[t] = "run" /\ x \in live
  /\ x.at - HEADER \in blocks /\ ~free[x.at - HEADER]
  /\ heap_merge(blocks, size, [free EXCEPT ![x.at - HEADER] = TRUE], heap_end)
  /\ live' = live \ {x}
  /\ UNCHANGED << heap_pc, request, block >>

HeapNext ==
  \E t \in Callers :
    \/ \E n \in Requests : kmalloc(t, n)
    \/ kmalloc_find(t)
    \/ heap_expand(t)
    \/ kmalloc_fail(t)
    \/ heap_split_block(t)
    \/ kmalloc_take(t)
    \/ \E x \in live : kfree(t, x)

HeapSpec == HeapInit /\ [][HeapNext]_allHeapVars

----------------------------------------------------------------------------
(* Properties.                                                             *)

\* The types; sizes and addresses stay aligned, and the blocks tile the heap, which
\* is what heap_validate checks in a debug build after every operation: each ends
\* where the next begins and the last at heap_end.
HeapTypeOK ==
  /\ blocks \in SUBSET Addresses
  /\ heap_end \in Addresses
  /\ size \in [Addresses -> Addresses]
  /\ free \in [Addresses -> BOOLEAN]
  /\ heap_pc \in [Callers -> {"run", "find", "split", "take"}]
  /\ request \in [Callers -> Nat]
  /\ block \in [Callers -> Addresses]
  /\ \A x \in live : x.at \in Addresses /\ x.len \in Requests
  /\ HEAP_START \in blocks
  /\ \A a \in blocks : a < heap_end /\ End(a) \in blocks \union {heap_end}
  /\ \A a, b \in blocks : a < b => End(a) <= b

\* The allocations are exactly the blocks that are not free, each large enough
\* for what was asked and with less to spare than a new block would take: no
\* block is lost, and none is given out twice.
LiveExact ==
  /\ {x.at - HEADER : x \in live} = {a \in blocks : ~free[a]}
  /\ \A x, y \in live : x.at = y.at => x = y
  /\ \A x \in live : x.len <= size[x.at - HEADER] /\ size[x.at - HEADER] - x.len < HEADER + ALIGNMENT

\* Outside kmalloc no two free blocks are neighbours, so a request fails only
\* when no run of free memory is large enough (heap_merge after every kfree and
\* every heap_expand).
Coalesced ==
  (\A t \in Callers : heap_pc[t] # "take") =>
    \A a \in blocks : free[a] /\ End(a) \in blocks => ~free[End(a)]

============================================================================
