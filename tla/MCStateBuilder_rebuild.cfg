\* Two spans, two rebuilds that may overlap, three failing calls.
SPECIFICATION MCSpec
CONSTANTS
  u1 = u1
  b1 = b1
  b2 = b2
  Users = {u1}
  NoUser = NoUser
  Rebuilds = {b1, b2}
  MaxSpans = 2
  MaxFaults = 3
CHECK_DEADLOCK FALSE
INVARIANTS
  TypeOK
  StoreFaithful
  
