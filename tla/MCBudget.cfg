CONSTANTS
  Jobs = {j1, j2}
  Ids = {r1, r2, r3}
  Estimates = {1, 4}
  Actuals = {0, 3}
  SpendCap = 3
  GenerationCap = 2
  TTL = 1
  Retention = 1
  MaxNow = 5
  DayOf <- MCDayOf
  Null = Null
SPECIFICATION FairSpec
INVARIANTS
  DayAccountsForReservations
  OverspendIsOverrun
  AlarmCoversOpen
PROPERTIES
  ReservationsSettle
