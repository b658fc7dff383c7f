SPECIFICATION FairSpec
CONSTANTS
  Viewers <- MCViewers
  Labels = 2
  Batch = 1
  MaxDeltas = 1
  MaxRetries = 1
  MaxLost = 1
  MaxDrops = 2
  MaxRefused = 1
  Null = Null
INVARIANTS
  RailAdvances
  UnmirroredHasAlarm
PROPERTIES
  NothingFallsBetween
  PurgeLosesNothing
  OutcomeReaches
CHECK_DEADLOCK FALSE
