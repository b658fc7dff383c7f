CONSTANTS
  Tabs = {t1, t2}
  Skew = 2
  MaxEdits = 2
  MaxUploads = 1
  Budgets <- A_Budgets
  t1 = t1
  t2 = t2
SPECIFICATION A_Spec
INVARIANTS
  CleanIsStored
  SubmittedIsKept
  DirtyIsAttended
PROPERTIES
  NothingRollsBack
CHECK_DEADLOCK FALSE
