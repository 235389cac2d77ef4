SPECIFICATION Spec
CONSTANTS
  User = {"ann", "bob"}
  Client = {1, 2}
  MaxAttempts = 1
  MaxSockets = 2
  MaxTokens = 2
  MaxErrors = 1
INVARIANTS TypeOK OneIdentity AuthenticatedIsAccepted NoSocketIsLeft
PROPERTIES LossIsSettled
CHECK_DEADLOCK FALSE
