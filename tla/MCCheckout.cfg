CONSTANTS
  Workers = {w1, w2}
  Foreign = {}
  Outcomes = {"ok", "skip", "throw"}
  MaxCrashes = 1
  MaxDuplicates = 0
  None = None
  Mints = {m1}
  MaxAttempts = 2
  Histories = {"none", "used", "disputed"}
  MaxEvents = 2
  MaxFaults = 1
SPECIFICATION Spec
SYMMETRY Symmetry
CONSTRAINT OneMishap
INVARIANTS
  RunIsScreened
  MintsAreCounted
PROPERTIES
  PaidIsFinal
  AbandonNeedsExpiry
CHECK_DEADLOCK FALSE
