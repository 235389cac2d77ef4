SPECIFICATION Spec
CONSTANTS
  a = a
  b = b
  User = {a, b}
  MaxEvents = 3
SYMMETRY Symmetry
INVARIANTS RemovalIsSeen
CHECK_DEADLOCK FALSE
