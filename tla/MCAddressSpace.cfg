CONSTANTS
  t1 = t1
  t2 = t2
  p1 = p1
  p2 = p2
  Threads <- MCThreads
  Processes <- MCProcesses
  process <- MCprocess
  Images <- MCImages
  NumFrames = 13
  NumPages = 6
  TableEntries = 2
  StackStart = 3
  KernelStackPages = 1
  MaxExecs = 2
SPECIFICATION SpaceSpec
CHECK_DEADLOCK FALSE
INVARIANTS SpaceTypeOK FramesAccounted StacksDistinct OwnStackMapped
PROPERTY FailureRestoresMemory
