CONSTANTS
  Creator = c
  Envs = {c, d}
  Readers = {c}
  Writers = {d}
  MAXFD = 2
  PIPEBUFSIZ = 2
  MaxBytes = 5
  NULL = NULL
SPECIFICATION FairDataSpec
PROPERTY IsChannel
PROPERTY LastEndReturns
CHECK_DEADLOCK FALSE
