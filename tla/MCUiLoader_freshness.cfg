\* Three calls of one file; version 2 does not parse.
SPECIFICATION Spec
CONSTANTS
  c1 = c1
  c2 = c2
  c3 = c3
  f1 = f1
  Calls = {c1, c2, c3}
  Files = {f1}
  Broken = {2}
  ConfiguredTTL = 0
  DefaultTTL = 2
  Transit = 1
  MaxVersion = 3
  MaxClock = 5
CHECK_DEADLOCK FALSE
SYMMETRY Symmetry
INVARIANTS
  TypeOK
  OnlyParsed
PROPERTIES
  EditsSeen
