SPECIFICATION FairSpec
CONSTANTS
  t1 = t1  t2 = t2
  c1 = c1  c2 = c2
  Null = Null
  Tiles = {t1, t2}
  Media = {1, 2, 3}
  Consumers = {c1, c2}
  Photos = {"shop", "page"}
  Refused = {"page"}
  MaxFiles = 2
  Parallel = 2
  MaxRetries = 2
  MaxFaults = 2
  MaxDuplicates = 1
INVARIANTS
  OfferedIsVerified
  UploadSurvives
PROPERTIES
  ReadyIsFinal
  CleanUploadIsReady
CHECK_DEADLOCK FALSE
