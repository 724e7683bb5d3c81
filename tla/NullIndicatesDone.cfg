SPECIFICATION ProgramsSpec
CONSTANTS
  CodeBytes = {0, 1, 80, 193, 49, 242}
  Programs = {}
  RamValues = {0, 9}
  MaxCycles = 60
  Images = {}
  RegNums = {0, 2, 4, 5, 6, 7, 8, 9, 31}
  ByteValues = 8
  WordBits = 12
  PageSize = 16
  MmuBase = 3936
  MmuMax = 4064
  TextEnd = 4000
  MmapMaxLength = 32
  MmapTableSize = 2
  SyscallBase = 40
  MaxReadBuf = 4
  Inputs <- MCInputs
  Times = {0, 7}
  MaxInstructions = 13
  CharValues = 8
  Files <- MCFiles
  NoPage = NoPage
  NoTarget = NoTarget
INVARIANT NullIndicatesDone
CHECK_DEADLOCK FALSE
