CONSTANTS
  a = a
  b = b
  User = {a, b}
  Nobody = Nobody
  MaxCalls = 2
  MaxLinks = 1
SPECIFICATION FairSpec
INVARIANTS TypeOK QuietAtRest WaitsAreTimed
PROPERTY SetupSettles
CHECK_DEADLOCK FALSE
