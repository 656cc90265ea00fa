CONSTANTS
  PGWORDS = 2
  StackPages = {0, 1}
  UXBASE = 100
  UXWORDS = 65
  DataPages = {200, 201}
  MaxData = 2
  CONSBUFSIZE = 3
  Keys = {"CapsLock", "RCtl", "Del"}
  MaxCodes = 2
  CRT_COLS = 3
  CRT_ROWS = 3
  BUFLEN = 6
  Prompts <- MCPrompts
  Dates <- MCDates
  seconds <- timestamp
  ClockYears = {0, 1, 2, 3, 4}
  MemSize = 12
  MaxString = 4
  Chars = {" ", "-", "0", "x", "1", "9", "a"}
  INTBITS = 8
  Ints <- MCInts
  Words <- MCWords
  Widths = {0, 1, 2, 3, 5}
  LineChars = {" ", "<", "|", "a", "b"}
  MaxLine = 5
  NPROC = 11
  SHFD = 5
  MAXARGS = 3
  PIPESIZE = 1
  MaxLines = 2
  Items = 2
  CommandLines <- MCCommandLines
  PAGE = 16
  WORD = 2
  NPTENT = 4
  StackPage = 9
  LastPage = 15
  Calls <- MCCalls
  MaxArguments = 3
  ValueFlags = {"f"}
  Arguments <- MCArguments
  MaxStabs = 5
  MaxAddr = 3
  MaxFunctions = 3
  Sizes = {1, 3}
  LongName = "long"
  Paths <- MCPaths
  DATABLOCKS = 3
  NFILEBLOCKS = 2
  FileSizes = {0, 1, 4}
  BLKFILES = 2
  Machines <- MCMachines
  EXTPHYSMEM = 8
  KernelEnd = 10
  BootStack = 8
  KSTKSIZE = 2
  NPT = 16
  KERNTABLES = 3
  ENTRYTABLES = 2
  PAGEINFOS = 32
  ENVPAGES = 1
  Images <- MCImages
  BLKSIZE = 4
  STRUCTFILE = 2
  BLKBITSIZE = 8
  NDIRECT = 2
  NINDIRECT = 3
  MAX_DIR_ENTS = 6
  NENV = 3
  Pages = {1, 2, 3, 4, 5, 6, 7}
  VA = {0}
  PDE = {0}
  PDX <- OneTable
  RefMax = 100
  NULL = NULL
  UTOP = 1
  UStack = 0
  GenMax = 3
  Perms <- UserPerms
SPECIFICATION MCSpec
PROPERTY FaultsAreInvisible
INVARIANT ControllersOK
INVARIANT KeyboardOK
PROPERTY InOrder
INVARIANT ScreenOK
PROPERTY TimeIsRight
INVARIANT LibraryIsRight
INVARIANT ConversionsAreRight
INVARIANT DirectoryOK
PROPERTY CommandIsAsTyped
INVARIANT ShellOK
PROPERTY ComesToRest
INVARIANT ChildIsComplete
INVARIANT BootOK
INVARIANT BacktraceIsRight
PROPERTY OrphansAreSafe
INVARIANT NoDanglingPointer
CONSTRAINT GenBound
CHECK_DEADLOCK FALSE
