CONSTANTS
  Workers = {w1}
  Foreign = {}
  Outcomes = {"ok", "skip", "throw"}
  MaxCrashes = 0
  MaxDuplicates = 0
  None = None
  Mints = {m1}
  MaxAttempts = 1
  Histories = {"used", "disputed"}
  MaxEvents = 2
  MaxFaults = 0
SPECIFICATION Spec
INVARIANTS
  RunIsEarned
CHECK_DEADLOCK FALSE
