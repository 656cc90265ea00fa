CONSTANTS
  Clients = {0, 1}
  FDs = {0, 1}
  MAXOPEN = 2
  IdMod = 4
  Files = {file1}
  Boot = {}
  Flags <- ParentFlags
  MaxOffset = 1
  Sizes = {1}
  Places = {0, 1}
  NULL = NULL
SPECIFICATION MCSpec
PROPERTY ServesDescriptors
CHECK_DEADLOCK FALSE
