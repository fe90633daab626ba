CONSTANTS
  t1 = t1
  t2 = t2
  t3 = t3
  idle = idle
  kernel_dir = kernel_dir
  Threads <- MCThreads
  Processes <- MCProcesses
  process <- MCprocess
  QUANTUM = 1
  InitialCount = 1
  CountModulus = 8
  MaxReleases = 3
SPECIFICATION SemaphoreSpec
INVARIANT InterruptStateKept
