CONSTANTS
  p1 = p1
  p2 = p2
  t1 = t1
  t2 = t2
  Payment = {p1}
  Terminal = {t1, t2}
  TerminalOf <- SharedTerminal
  Worker = {w1, w2}
  BatchSize = 2
  MaxRetries = 1
  Sync = FALSE
  AutoExpire = TRUE
  MaxAbandons = 1
  MaxOverlaps = 1
  MaxPosts = 5
SPECIFICATION FairSpec
INVARIANTS
  StatusesAgree
  BooksAreTrue
  ClaimsAreExclusive
  RepostsAreAccountedFor
  OperatorAnswerIsTrue
  LostReceiptsAreExplained
PROPERTIES
  ResolvedIsFinal
  ImplementsRegistration
  EverySaleIsResolved
CHECK_DEADLOCK FALSE
