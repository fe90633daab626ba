CONSTANTS
  t1 = t1
  t2 = t2
  p1 = p1
  p2 = p2
  Threads <- MCThreads
  Processes <- MCProcesses
  process <- MCprocess
  NumFrames = 23
  NumPages = 56
  TableEntries = 4
  BootPages = 24
  ImagePages <- MCImagePages
  StacksStart = 32
  KERNEL_STACK_COUNT = 4
  StackPages = 2
  HEAP_PAGES = 3
  RunLengths <- MCRunLengths
  ReservedCounts <- MCReservedCounts
SPECIFICATION KernelSpec
CHECK_DEADLOCK FALSE
INVARIANTS KernelTypeOK FramesExclusive KernelVisible DirectMapIntact
