CONSTANTS
  NENV = 3
  Pages = {1, 2, 3, 4, 5, 6, 7}
  VA = {0}
  PDE = {0}
  PDX <- OneTable
  RefMax = 100
  NULL = NULL
  UTOP = 1
  UStack = 0
  GenMax = 2
  Perms <- UserPerms
  Values = {1, 2}
SPECIFICATION MCSpec
INVARIANT IpcOK
INVARIANT RefCountExact
PROPERTY WaitMeansGone
PROPERTY ParentWaitEnds
PROPERTY ServerMeetsChild
CHECK_DEADLOCK FALSE
