CONSTANTS
  Workers = {w1, w2, w3}
  Events = {e1, e2}
  Foreign = {e2}
  Outcomes = {"ok", "skip", "throw"}
  MaxCrashes = 2
  MaxDuplicates = 2
  None = None
SPECIFICATION FairSpec
INVARIANTS
  ClaimStands
PROPERTIES
  EventsSettleWhenPrompt
CHECK_DEADLOCK FALSE
