\* Either interface, on four slots.
SPECIFICATION Spec
CONSTANTS
  CAPACITY = 4
  Values = {x, y}
  Mixed = FALSE
INVARIANT FreeListExact
INVARIANT IterationSeesAll
CHECK_DEADLOCK FALSE
