CONSTANTS
  t1 = t1
  t2 = t2
  t3 = t3
  p1 = p1
  p2 = p2
  idle = idle
  kernel_dir = kernel_dir
  Threads <- MCThreads
  Processes <- MCProcesses
  process <- MCprocess
  QUANTUM = 2
SPECIFICATION SchedSpec
INVARIANTS SchedTypeOK ReadyListSound OneRunning ContextLoaded
PROPERTIES RoundRobin EventuallyRuns
