----------------------------- MODULE ElfLoader -----------------------------
(***************************************************************************)
(* What kernel/kernel/elf_loader.c puts into the pages of a program.  (Where  *)
(* the frames come from and how a load that fails is undone is in module       *)
(* AddressSpace.)                                                          *)
(*                                                                         *)
(* In a file the ELF header and each program header stand for one byte, the   *)
(* key to ElfHeaders and ProgramHeaders.  `proper' sums up the magic number,   *)
(* class, byte order, type and machine.                                    *)
(***************************************************************************)
EXTENDS UserMemory

CONSTANTS
  ElfHeaders,       \* byte -> [proper, phentsize, phoff, phnum]
  ProgramHeaders    \* byte -> [load, offset, vaddr, filesz, memsz]

HeaderSize == 1     \* sizeof(struct elf32_header)
PhSize == 1         \* sizeof(struct elf32_program_header)

ASSUME ElfAssumption ==
  /\ DOMAIN ElfHeaders \subseteq Nat /\ DOMAIN ProgramHeaders \subseteq Nat
  /\ \A k \in DOMAIN ElfHeaders :
       {ElfHeaders[k].phentsize, ElfHeaders[k].phoff, ElfHeaders[k].phnum} \subseteq Nat

elf_validate(b) ==
  LET h == ElfHeaders[b[1]] IN
  /\ Len(b) >= HeaderSize
  /\ b[1] \in DOMAIN ElfHeaders /\ h.proper
  /\ h.phentsize = PhSize /\ h.phnum # 0
  /\ h.phoff <= Len(b) /\ h.phnum * PhSize <= Len(b) - h.phoff

\* The program headers of a valid file; those with `load' ask for memory.
Headers(b) ==
  LET h == ElfHeaders[b[1]] IN
  [i \in 1..h.phnum |-> ProgramHeaders[b[h.phoff + (i - 1) * h.phentsize + 1]]]

\* The checks elf_load makes of a segment of a file of n bytes.
SegmentFits(ph, n) ==
  /\ ph.memsz >= ph.filesz
  /\ ph.offset <= n /\ ph.filesz <= n - ph.offset
  /\ (ph.vaddr + ph.memsz) % AddressEnd >= ph.vaddr

\* Mutant: the last page is left out when the segment ends inside it.
SegmentEnd_short(ph) == PageBase((ph.vaddr + ph.memsz) % AddressEnd)

SegmentEnd(ph) == PageBase((ph.vaddr + ph.memsz + PageSize - 1) % AddressEnd)

\* The contents of one page of a segment: zeroes, and the file's bytes from
\* page_offset on.
PageContents(b, ph, page) ==
  LET start == PageBase(ph.vaddr)
      page_offset == IF page = start THEN ph.vaddr - start ELSE 0
      copy_offset == (page - start) + page_offset
      copy_size == IF copy_offset >= ph.filesz THEN 0
                   ELSE Min({ph.filesz - copy_offset, PageSize - page_offset}) IN
  [k \in 0..(PageSize - 1) |->
     IF k >= page_offset /\ k < page_offset + copy_size
     THEN b[ph.offset + copy_offset + (k - page_offset) + 1] ELSE 0]

\* The pages the loop over a segment maps.
LoadedPages(ph) ==
  {p \in 0..PageOf(AddressEnd - 1) : p * PageSize >= PageBase(ph.vaddr) /\ p * PageSize < SegmentEnd(ph)}

\* They are mapped and filled; a page already there is replaced.
LoadSegment(s, b, ph) ==
  [user |-> s.user \union LoadedPages(ph),
   cell |-> [a \in Addresses |->
      IF PageOf(a) \in LoadedPages(ph) THEN PageContents(b, ph, PageBase(a))[a % PageSize] ELSE s.cell[a]]]

\* One turn of the loop over the headers: what asks for no memory is skipped,
\* what does not fit ends the load.
LoadHeader(b, l, ph) ==
  IF ~l.ok \/ ~ph.load THEN l
  ELSE IF SegmentFits(ph, Len(b)) THEN [l EXCEPT !.space = LoadSegment(@, b, ph)]
  ELSE [l EXCEPT !.ok = FALSE]

\* elf_load into an empty address space: whether it succeeds and what it makes.
elf_load(b) ==
  LET Step(l, ph) == LoadHeader(b, l, ph) IN
  IF elf_validate(b) THEN FoldLeft(Step, [ok |-> TRUE, space |-> EmptySpace], Headers(b))
  ELSE [ok |-> FALSE, space |-> EmptySpace]
============================================================================
