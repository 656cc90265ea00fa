CONSTANTS
  MaxStabs = 4
  MaxAddr = 3
  MaxFunctions = 1
  Sizes = {1, 3}
SPECIFICATION DbgSpec
INVARIANT SearchFinds
CHECK_DEADLOCK FALSE
