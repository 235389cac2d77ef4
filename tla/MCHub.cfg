SPECIFICATION Spec
CONSTANTS
  a = a
  b = b
  c = c
  a1 = a1
  a2 = a2
  b1 = b1
  User = {a, b, c}
  Socket = {a1, a2, b1}
  Owner <- MCOwner
  Befriended <- MCBefriended
  Status <- MCStatus
  Identified = {a1, a2, b1}
  MaxQueued = 2
  MaxEvents = 2
SYMMETRY Symmetry
INVARIANTS TypeOK Tracked RelayedOnceInOrder PresenceSettles
CHECK_DEADLOCK FALSE
