SPECIFICATION Spec
CONSTANTS
  d1 = d1  d2 = d2
  r1 = r1  r2 = r2  r3 = r3
  ip = ip  mail = mail
  Null = Null
  Drafts = {d1, d2}
  Requests = {r1, r2, r3}
  DraftOf <- MCDraftOf
  Subjects = {ip, mail}
  Denying = {mail}
  PerDay <- MCPerDay
  Lifetime <- MCLifetime
  SubjectsOf <- MCSubjectsOf
  Candidates <- MCCandidates
  MaxDays = 1
  MaxFaults = 1
INVARIANTS QuotaIsExact ReservationsMatchJob DraftNamesItsJob
SYMMETRY Symmetry
CHECK_DEADLOCK FALSE
