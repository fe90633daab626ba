CONSTANTS
  t1 = t1
  t2 = t2
  t3 = t3
  p0 = p0
  p1 = p1
  p2 = p2
  reaper = reaper
  idle = idle
  kernel_dir = kernel_dir
  NULL = NULL
  Threads <- MCThreads
  Processes <- MCProcesses
  process <- MCprocess
  QUANTUM = 1
SPECIFICATION LifeSpec
PROPERTY DetachedAreReaped
