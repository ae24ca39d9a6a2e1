SPECIFICATION Spec
CONSTANTS
  EVENT_QUEUE_LEN = 3
  Event = {none, a, b, c}
  NoEvent = none
  MaxPending = 7
INVARIANTS
  TypeOK
  PositionsAgree
PROPERTY
  FifoWhileItFits
