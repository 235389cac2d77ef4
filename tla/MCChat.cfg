SPECIFICATION ChatSpec
CONSTANTS
  Incoming = {i1, i2, i3}
  Outgoing = {o1}
  Limit = 2
  MaxArrivals = 4
  MaxSelects = 3
  MaxRings = 1
  MaxRestarts = 1
SYMMETRY Symmetry
INVARIANTS ChatTypeOK BubblesAreRows CountsAgree ReadIsShown
CHECK_DEADLOCK FALSE
