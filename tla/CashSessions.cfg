CONSTANTS
  d1 = d1
  d2 = d2
  c1 = c1
  c2 = c2
  card = card
  m1 = m1
  m2 = m2
  Session = {d1, d2}
  Sale = {c1, c2, card}
  Cash = {c1, c2}
  Manager = {m1, m2}
  MaxNet = 1
SYMMETRY CashSymmetry
SPECIFICATION Spec
INVARIANTS
  CashSalesInTheirWindow
  ClosedWindowIsSettled
  ReportsMoveOnlyByVoids
  DifferencesAreExplained
CHECK_DEADLOCK FALSE
