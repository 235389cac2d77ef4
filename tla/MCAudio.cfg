SPECIFICATION Spec
CONSTANTS
  MaxCaptured = 2
  MaxPlayed = 1
  MaxCalls = 2
  MaxJobs = 2
INVARIANTS TypeOK SoundFollowsTheCall
CHECK_DEADLOCK FALSE
