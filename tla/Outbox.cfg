CONSTANTS
  Event = {e1, e2}
  Dispatcher = {d1, d2}
  BatchSize = 2
  MaxRetries = 1
  StaleClaimAfter = 1
  Window = 1
  MaxFaults = 2
SPECIFICATION FairSpec
INVARIANTS
  TypeOK
  VerdictsAreTrue
  DuplicatesAreAccountedFor
PROPERTIES
  ResolvedRowsStay
  EveryEventIsResolved
CHECK_DEADLOCK FALSE
