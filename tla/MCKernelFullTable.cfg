CONSTANTS
  NENV = 3
  Pages = {1, 2, 3, 4, 5, 6, 7}
  VA = {0, 1}
  PDE = {0, 1}
  PDX <- TwoTables
  RefMax = 100
  NULL = NULL
  UTOP = 2
  UStack = 0
  GenMax = 1
  Perms <- UserPerms
SPECIFICATION LifeSpec
INVARIANT NeverReusesLiveSlot
CHECK_DEADLOCK FALSE
