CONSTANTS
  Threads = {t1, t2}
  PageSize = 4
  ByteBits = 2
  LowEnd = 8
  Wrap = 3
  Boots <- MCBoots
  Callers = {c1}
  Requests <- MCRequests
  HEADER = 4
  ALIGNMENT = 2
  PAGE = 16
  MaxPages = 3
  UINT_MAX = 255
  Preemptible = FALSE
SYMMETRY Symmetry
SPECIFICATION AllocatorsSpec
INVARIANTS BootTypeOK ReservedKept HeldIsMemory HeapTypeOK LiveExact Coalesced
