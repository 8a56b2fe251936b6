SPECIFICATION Spec
CONSTANTS
  Depth = 4
  Modulus = 7
  MaxAdded = 2
CHECK_DEADLOCK FALSE
INVARIANTS MatchesAreMembers
