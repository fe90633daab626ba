CONSTANTS
  t1 = t1
  t2 = t2
  t3 = t3
  idle = idle
  kernel_dir = kernel_dir
  NULL = NULL
  Threads <- MCThreads
  Consumers <- MCConsumers
  Processes <- MCProcesses
  process <- MCprocess
  QUANTUM = 1
SPECIFICATION MonSpec
INVARIANTS MonTypeOK MutualExclusion SleepersReachable
PROPERTIES SchedSafety ImplementsLock ConditionConsumed
