\* A request and the affair made of its result; a runtime fails once.
SPECIFICATION MCSpec
CONSTANTS
  a1 = a1
  a2 = a2
  Affairs = {a1, a2}
  MaxFailures = 1
  MaxPending = 2
CHECK_DEADLOCK FALSE
INVARIANTS
  TypeOK
  GivenAsDecided
  DeniedNeverSent
PROPERTIES
  EveryAffairServed
