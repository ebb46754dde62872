\* Two goals and a command.
SPECIFICATION FairSpec
CONSTANTS
  Goals = {g1, g2}
  Known <- SmallKnown
  Unknown = {"other"}
  Responses <- SmallResponses
  Clauses <- SmallClauses
  Violates <- SmallViolates
  Commands = {c1}
CHECK_DEADLOCK FALSE
INVARIANTS
  TypeOK
  VerdictsKept
PROPERTIES
  EveryIntentEnds
