CONSTANTS
  Files = {f, g}
  NBLOCKS = 7
  NDIRECT = 1
  BLKSIZE = 2
  Values = {91}
  MaxSize = 7
  Sizes = {0, 3}
  Reads <- MiddleAndEnd
  Writes <- StartAndEnd
  NULL = NULL
SPECIFICATION CleanSpec
INVARIANT DiskOK
INVARIANT ReadsWhatWasWritten
INVARIANT FlushedIsOnDisk
SYMMETRY FileSymmetry
CHECK_DEADLOCK FALSE
