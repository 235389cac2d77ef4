SPECIFICATION FairSpec
CONSTANTS
  a = a
  b = b
  User = {a, b}
  MaxRetries = 2
  MaxEvents = 2
  MaxLate = 1
INVARIANTS TypeOK CurrentIsLive FailureIsFinal
PROPERTIES AttemptsEnd ReceiveLoopResumes ComesToRest
CHECK_DEADLOCK FALSE
