SPECIFICATION Spec
CONSTANTS
  a = a
  b = b
  User = {a, b}
  MaxEvents = 4
SYMMETRY Symmetry
INVARIANTS TypeOK ConsentFirst AcceptedIsFriend PendingIsShown
CHECK_DEADLOCK FALSE
