CONSTANTS
  Byte = 4
  Values <- SomeValues
  Hints <- AllHints
  MaxParams = 2
  MaxArgs = 2
SPECIFICATION Spec
INVARIANTS TypeOK ArgumentsArrive MatchingIsAccepted IInv
CHECK_DEADLOCK FALSE
