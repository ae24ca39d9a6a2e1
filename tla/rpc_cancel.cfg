SPECIFICATION Spec
CONSTANTS
  MaxRpcs = 2
  ClientIds = {0, 1}
  MaxRegs = 2
  MaxDepth = 3
INVARIANT
  WishEndReaches
CHECK_DEADLOCK FALSE
