CONSTANTS
  a = a
  b = b
  Envs <- Slots
  VA = {0, 1, 2, 3, 4, 5, 6}
  NULL = NULL
  UTEMP = 0
  PFTEMP = 1
  Text = {2}
  Shared = {4}
  Stack = 5
  UXStack = 6
  Data = {0, 1}
  PDX <- Tables
  MaxForks = 2
SPECIFICATION Spec
SYMMETRY Others
CONSTRAINT FewPages
INVARIANT PagesOK
PROPERTY ForksAreCopies
CHECK_DEADLOCK FALSE
