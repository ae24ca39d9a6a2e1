SPECIFICATION Spec
CONSTANTS
  MaxRpcs = 2
  ClientIds = {0, 1}
  MaxRegs = 2
  MaxDepth = 3
INVARIANTS
  TypeOK
  AnswersMatch
  ObjectsKeptWhileAsked
  MappingsCurrent
  EndsMatch
PROPERTIES
  NoAnswerLost
  ImplementsDirect
CHECK_DEADLOCK FALSE
