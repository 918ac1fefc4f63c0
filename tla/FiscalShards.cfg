CONSTANTS
  p1 = p1
  p2 = p2
  t1 = t1
  t2 = t2
  Payment = {p1, p2}
  Terminal = {t1, t2}
  TerminalOf <- SharedTerminal
  Worker = {w1}
  BatchSize = 2
  MaxRetries = 1
  Sync = TRUE
  AutoExpire = FALSE
  MaxAbandons = 1
  MaxOverlaps = 0
  MaxPosts = 3
SPECIFICATION Spec
INVARIANTS
  OneBasketPerTerminal
CHECK_DEADLOCK FALSE
