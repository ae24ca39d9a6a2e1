SPECIFICATION FairSpec
CONSTANT
  MaxLookups = 4
INVARIANTS
  TypeOK
  NoSelfDeadlock
PROPERTIES
  ImplementsLookups
  LookupsAnswered
  CoreNotStuck
