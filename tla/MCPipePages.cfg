CONSTANTS
  Creator = c
  Envs = {c, d, e}
  Readers = {}
  Writers = {}
  MAXFD = 2
  PIPEBUFSIZ = 1
  MaxBytes = 0
  NULL = NULL
SPECIFICATION DupSpec
PROPERTY ClosedMeansGoneUnlessCopying
SYMMETRY ChildSymmetry
CHECK_DEADLOCK FALSE
