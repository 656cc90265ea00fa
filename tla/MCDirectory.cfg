CONSTANTS
  LongName = "long"
  Paths <- MCPaths
  DATABLOCKS = 4
  NFILEBLOCKS = 2
  FileSizes = {0, 1, 2, 3, 4}
  BLKFILES = 2
SPECIFICATION DirSpec
INVARIANT ListsTheFiles
CHECK_DEADLOCK FALSE
