SPECIFICATION Spec
CONSTANTS
  a = a
  b = b
  c = c
  a1 = a1
  a2 = a2
  b1 = b1
  User = {a, b, c}
  Socket = {a1, a2, b1}
  Owner <- MCOwner
  Befriended <- MCBefriended
  Status <- MCStatus
  Identified <- NoSocket
  MaxQueued = 2
  MaxEvents = 0
SYMMETRY Symmetry
INVARIANTS Tracked
CHECK_DEADLOCK FALSE
