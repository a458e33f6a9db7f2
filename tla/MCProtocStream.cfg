SPECIFICATION Spec
CONSTANTS
  NumColumns = 2
  Values = {x, y}
  Null = Null
  MaxWrites = 3
CHECK_DEADLOCK FALSE
INVARIANTS
  ReadIsFaithful
  RoundTrip
