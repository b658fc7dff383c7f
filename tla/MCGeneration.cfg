SPECIFICATION FairSpec
CONSTANTS
  Null = Null
  Hosts <- MCHosts
  ModelRetries = 1
  StepRetries = 1
  IoRetries = 1
  MaxFaults = 2
  MaxEvictions = 1
INVARIANTS LiveIsWhole LedgerIsComplete RefusalEndsRun OutcomeIsTold
PROPERTIES RunIsClosed IsRun
CHECK_DEADLOCK FALSE
