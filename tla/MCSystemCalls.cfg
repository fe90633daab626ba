CONSTANTS
  SuperblockSize = 2
  EntrySize = 3
  Word = 64
  PageSize = 8
  WordSize = 1
  UserEnd = 48
  AddressEnd = 64
  ElfHeaders <- MCElfHeaders
  ProgramHeaders <- MCProgramHeaders
  EXEC_MAX_ARGS = 3
  EXEC_MAX_ARG_LENGTH = 2
  StackAlign = 4
  Packings <- MCPackings
  Missing = {0, 1, 18}
  InitName <- MCInitName
  NumFiles = 2
  StackPages = {5}
  Paths = {0, 16, 18, 23}
  Argvs = {0, 20, 22}
  Buffers = {0, 19, 47}
  FdArgs = {0, 1, 2}
  AccessArgs = {0, 2, 3}
  Counts = {0, 5}
  Rooms = {1, 4}
  Junk = {55}
SPECIFICATION CallsSpec
CHECK_DEADLOCK FALSE
INVARIANTS CallsTypeOK ProgramLoaded PointersChecked
PROPERTIES ImplementsOpenFiles ArgumentsCopied
