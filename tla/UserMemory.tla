----------------------------- MODULE UserMemory ----------------------------
(***************************************************************************)
(* The memory of a process as the kernel sees it through the pointers a      *)
(* system call is given, and the checks of such pointers                    *)
(* (kernel/mm/paging.c).                                                   *)
(*                                                                         *)
(* A space s has the pages in s.user (present, with PAGE_USER) and the byte   *)
(* s.cell[a] at address a.  Whether a page is writable is left out: CR0.WP is  *)
(* clear, so the kernel's own stores do not care.  A word is stored with its   *)
(* value, which is small here, in the first of its WordSize bytes.            *)
(***************************************************************************)
EXTENDS Integers, Sequences, SequencesExt, FiniteSetsExt

CONSTANTS
  PageSize,
  WordSize,     \* sizeof(uint32_t), sizeof(uintptr_t)
  UserEnd,      \* USER_VIRT_END + 1: the kernel half starts here
  AddressEnd    \* 2^32: addresses are taken modulo this

ASSUME UserMemoryAssumption ==
  /\ PageSize \in Nat \ {0} /\ WordSize \in Nat \ {0}
  /\ UserEnd \in Nat /\ AddressEnd \in Nat /\ UserEnd < AddressEnd /\ WordSize < AddressEnd
  /\ UserEnd % PageSize = 0 /\ AddressEnd % PageSize = 0

Addresses == 0..(AddressEnd - 1)
PageOf(a) == a \div PageSize
PageBase(a) == (a \div PageSize) * PageSize       \* a & ~(PAGE_SIZE - 1)
NULL == 0
NUL == 0

EmptySpace == [user |-> {}, cell |-> [a \in Addresses |-> 0]]
UserCells(s) == {a \in Addresses : PageOf(a) \in s.user}

\* Mutant: only the page of the first byte is looked at.
paging_user_range_valid_first(s, addr, len) ==
  \/ len = 0
  \/ (addr + len) % AddressEnd >= addr /\ PageOf(addr) \in s.user

\* paging_user_range_valid: every page from the first byte's to the last's.
paging_user_range_valid(s, addr, len) ==
  \/ len = 0
  \/ /\ (addr + len) % AddressEnd >= addr
     /\ \A p \in PageOf(addr)..PageOf(addr + len - 1) : p \in s.user

\* The bytes paging_user_string_valid looks at: up to the NUL, the first page
\* that is not the user's, or the end of the user half.
Scanned(s, addr) ==
  {a \in 0..(UserEnd - 1) :
     /\ addr <= a /\ PageOf(a) \in s.user
     /\ \A b \in addr..(a - 1) : PageOf(b) \in s.user /\ s.cell[b] # NUL}

paging_user_string_valid(s, addr) ==
  addr # NULL /\ \E a \in Scanned(s, addr) : s.cell[a] = NUL

\* The string at addr, once it is known to be valid.
Length(s, addr) == Min({a \in addr..(AddressEnd - 1) : s.cell[a] = NUL}) - addr
StringAt(s, addr) == SubSeq([k \in 1..Length(s, addr) |-> s.cell[addr + k - 1]], 1, Length(s, addr))

\* memcpy of the bytes bs to address addr.
Stored(s, addr, bs) ==
  [s EXCEPT !.cell = [a \in Addresses |->
     IF a >= addr /\ a < addr + Len(bs) THEN bs[a - addr + 1] ELSE s.cell[a]]]
============================================================================
